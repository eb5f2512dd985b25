---------------------------- MODULE ImageUpdate ----------------------------
(***************************************************************************)
(* Pulling and applying the CPA image (internal/runtimeops/images.go) and  *)
(* starting and stopping containers (internal/runtimeops/docker.go).       *)
(*                                                                         *)
(* The pool runs one job at a time and image jobs hold operationLock, so   *)
(* one operation is under way here at a time; it may be cancelled, any of  *)
(* its calls to Docker or to the store may fail, and the Admin may crash.  *)
(* An image is its identity: resolved_ref is immutable, only the           *)
(* configured channel and the rollback tags move.                          *)
(***************************************************************************)
EXTENDS Integers, FiniteSets, Sequences, SequencesExt

CONSTANTS
    ImageAccount,    \* the accounts, all enabled
    Releases,        \* bound: the images the channel will name, 1..Releases
    MaxImageFaults,  \* bound: failing calls, cancellations and crashes
    MaxMaintenance   \* bound: starts and stops by the operator

ASSUME ImageAssumption ==
    /\ IsFiniteSet(ImageAccount)
    /\ {Releases, MaxImageFaults, MaxMaintenance} \subseteq Nat

VARIABLES
    channel,         \* what the registry holds under the configured reference
    pulled,          \* the local image under that reference
    runs,            \* account -> its container: image and whether it runs
    rollbackTag,     \* account -> the image under its rollback reference
    applied,         \* runtime state cliproxy_image.applied (0: none)
    candidate,       \* runtime state cliproxy_image.candidate (0: none)
    composeImage,       \* CLIPROXY_IMAGE of state/compose.env
    work,            \* the operation under way
    budget           \* faults and maintenance left

imageVars == <<channel, pulled, runs, rollbackTag, applied, candidate,
               composeImage, work, budget>>

NoImage == 0
Missing == [image |-> NoImage, up |-> FALSE]
NoWork == [phase |-> "none"]

\* The state before the first image job: every account was created from the
\* image the channel named then, which is also the applied one.
ImageInit ==
    /\ channel = 1 /\ pulled = 1
    /\ runs = [a \in ImageAccount |-> [image |-> 1, up |-> TRUE]]
    /\ rollbackTag = [a \in ImageAccount |-> NoImage]
    /\ applied = 1 /\ candidate = NoImage /\ composeImage = 1
    /\ work = NoWork
    /\ budget = [faults |-> MaxImageFaults, maintenance |-> MaxMaintenance]

NoUpdate == work = NoWork
Spend == budget.faults > 0 /\ budget' = [budget EXCEPT !.faults = @ - 1]

-----------------------------------------------------------------------------
\* External: a new image is published under the channel.
ReleasePublished ==
    /\ channel < Releases
    /\ channel' = channel + 1
    /\ UNCHANGED <<pulled, runs, rollbackTag, applied, candidate, composeImage, work, budget>>

\* PullImage: the pull moves the local reference; recording the candidate is a
\* second step that may fail, and changes nothing else.
PullImage ==
    /\ NoUpdate /\ channel # pulled
    /\ pulled' = channel
    /\ \/ candidate' = channel /\ UNCHANGED budget
       \/ Spend /\ UNCHANGED candidate
    /\ UNCHANGED <<channel, runs, rollbackTag, applied, composeImage, work>>

\* Manager.operate: start and stop act on the container that exists.
StopAccount(a) ==
    /\ NoUpdate /\ budget.maintenance > 0
    /\ runs[a].up
    /\ runs' = [runs EXCEPT ![a].up = FALSE]
    /\ budget' = [budget EXCEPT !.maintenance = @ - 1]
    /\ UNCHANGED <<channel, pulled, rollbackTag, applied, candidate, composeImage, work>>

StartAccount(a) ==
    /\ NoUpdate
    /\ ~runs[a].up /\ runs[a].image # NoImage
    /\ runs' = [runs EXCEPT ![a].up = TRUE]
    /\ UNCHANGED <<channel, pulled, rollbackTag, applied, candidate, composeImage, work, budget>>

-----------------------------------------------------------------------------
(***************************************************************************)
(* UpdateImage.  The candidate is the local image of the channel; accounts *)
(* that do not run are skipped, those that run it already are counted, and *)
(* the image of every other one is tagged before the first is touched.     *)
(***************************************************************************)
Outdated(targets) == {a \in targets : runs[a].up /\ runs[a].image # pulled}
Current(targets) == {a \in targets : runs[a].up /\ runs[a].image = pulled}

UpdateImage(targets) ==
    /\ NoUpdate
    /\ targets = ImageAccount \/ Cardinality(targets) = 1
    /\ candidate' = pulled
    /\ LET todo == Outdated(targets)
       IN  /\ rollbackTag' = [a \in ImageAccount |->
                                 IF a \in todo THEN runs[a].image ELSE rollbackTag[a]]
           /\ work' = IF todo = {} /\ Current(targets) = {} THEN NoWork
                      ELSE [phase |-> "replace", image |-> pulled, todo |-> todo,
                            attempted |-> <<>>, account |-> NoImage, step |-> "next",
                            cancelled |-> FALSE, error |-> FALSE, stuck |-> {}, unrestored |-> FALSE,
                            before |-> runs, appliedBefore |-> applied]
    /\ UNCHANGED <<channel, pulled, runs, applied, composeImage, budget>>

\* A failure before the first container is touched: nothing to undo.
UpdateRefused ==
    /\ NoUpdate /\ Spend
    /\ candidate' \in {candidate, pulled}
    /\ \E tagged \in SUBSET Outdated(ImageAccount) :
          rollbackTag' = [a \in ImageAccount |->
                             IF a \in tagged THEN runs[a].image ELSE rollbackTag[a]]
    /\ UNCHANGED <<channel, pulled, runs, applied, composeImage, work>>

Updating(step) == work.phase = "replace" /\ work.step = step /\ ~work.error
Live == ~work.cancelled
ByFault == IF work.cancelled THEN UNCHANGED budget ELSE Spend
Failed(w) == [w EXCEPT !.error = TRUE]

\* Mutant: an account counts as attempted once it has been replaced.
AttemptLater(a) == [work EXCEPT !.account = a, !.todo = @ \ {a}, !.step = "remove"]

\* The account is on the list of attempted ones before its container is touched.
Attempt(a) == [work EXCEPT !.account = a, !.todo = @ \ {a}, !.step = "remove",
                           !.attempted = Append(@, a)]

NextAccount ==
    /\ Updating("next")
    /\ \E a \in work.todo : work' = Attempt(a)
    /\ UNCHANGED <<channel, pulled, runs, rollbackTag, applied, candidate, composeImage, budget>>

\* What a failing removeContainer leaves of account a's container: it as it was,
\* stopped but still there, or gone.
HalfRemoved(a) == {runs[a], [runs[a] EXCEPT !.up = FALSE], Missing}

\* replaceAccountImage: the container is found running, stopped and removed.  A
\* removal that reports an error may have happened.
RemoveOld ==
    /\ Updating("remove")
    /\ \/ /\ Live /\ runs' = [runs EXCEPT ![work.account] = Missing]
          /\ work' = [work EXCEPT !.step = "create"] /\ UNCHANGED budget
       \/ /\ ByFault
          /\ \E left \in HalfRemoved(work.account) : runs' = [runs EXCEPT ![work.account] = left]
          /\ work' = Failed(work)
    /\ UNCHANGED <<channel, pulled, rollbackTag, applied, candidate, composeImage>>

\* createAccountContainerWithImage: one that cannot be started is removed, if
\* that works.
CreateNew ==
    /\ Updating("create")
    /\ \/ /\ Live /\ runs' = [runs EXCEPT ![work.account] = [image |-> work.image, up |-> TRUE]]
          /\ work' = [work EXCEPT !.step = "probe"] /\ UNCHANGED budget
       \/ /\ ByFault
          /\ \E left \in {Missing, [image |-> work.image, up |-> FALSE]} :
                runs' = [runs EXCEPT ![work.account] = left]
          /\ work' = Failed(work)
    /\ UNCHANGED <<channel, pulled, rollbackTag, applied, candidate, composeImage>>

\* probeImageAccount: a container that does not answer is removed, if that works.
ProbeNew ==
    /\ Updating("probe")
    /\ \/ /\ Live /\ work' = [work EXCEPT !.step = "next"] /\ UNCHANGED <<runs, budget>>
       \/ /\ ByFault
          /\ \E left \in HalfRemoved(work.account) : runs' = [runs EXCEPT ![work.account] = left]
          /\ work' = Failed(work)
    /\ UNCHANGED <<channel, pulled, rollbackTag, applied, candidate, composeImage>>

\* commitCPAImageApplied writes the runtime state, then compose.env.  When the
\* accounts were all current this is the only thing the update does.
CommitState ==
    /\ Updating("next") /\ work.todo = {}
    /\ \/ Live /\ applied' = work.image /\ candidate' = work.image
             /\ work' = [work EXCEPT !.step = "project"] /\ UNCHANGED budget
       \/ ByFault /\ work' = Failed(work) /\ UNCHANGED <<applied, candidate>>
    /\ UNCHANGED <<channel, pulled, runs, rollbackTag, composeImage>>

Project ==
    /\ Updating("project") /\ Live
    /\ composeImage' = work.image
    /\ work' = NoWork
    /\ UNCHANGED <<channel, pulled, runs, rollbackTag, applied, candidate, budget>>

\* The runtime state is written back as it was read, without the job's context.
StateRestored == work.appliedBefore

\* The file may have been replaced before its mode could not be set.  Writing the
\* state back may fail as well, with or without a cancellation: one outage of
\* the store takes both.
ProjectFails ==
    /\ Updating("project")
    /\ composeImage' \in {composeImage, work.image}
    /\ \/ ByFault /\ applied' = StateRestored /\ work' = Failed(work)
       \/ /\ Spend
          /\ work' = [Failed(work) EXCEPT !.unrestored = TRUE]
          /\ UNCHANGED applied
    /\ UNCHANGED <<channel, pulled, runs, rollbackTag, candidate>>

-----------------------------------------------------------------------------
(***************************************************************************)
(* rollbackCPAImages: without the job's cancellation, the attempted        *)
(* accounts from the last to the first are given back the image of their   *)
(* rollback tag; one that cannot be is reported and the next one tried.    *)
(***************************************************************************)
RollBack ==
    /\ work.phase = "replace" /\ work.error /\ work.attempted # <<>>
    /\ LET a == Last(work.attempted)
       IN  \/ /\ runs' = [runs EXCEPT ![a] = [image |-> rollbackTag[a], up |-> TRUE]]
              /\ work' = [work EXCEPT !.attempted = Front(@)]
              /\ UNCHANGED budget
           \/ /\ Spend     \* at the removal, the creation, the start or the probe
              /\ \E left \in HalfRemoved(a) \cup {[image |-> rollbackTag[a], up |-> b] : b \in BOOLEAN} :
                    runs' = [runs EXCEPT ![a] = left]
              /\ work' = [work EXCEPT !.attempted = Front(@), !.stuck = @ \cup {a}]
    /\ UNCHANGED <<channel, pulled, rollbackTag, applied, candidate, composeImage>>

\* The failed update is answered.
EndFailed ==
    /\ work.phase = "replace" /\ work.error /\ work.attempted = <<>>
    /\ work' = NoWork
    /\ UNCHANGED <<channel, pulled, runs, rollbackTag, applied, candidate, composeImage, budget>>

CancelJob ==
    /\ work.phase = "replace" /\ ~work.cancelled /\ Spend
    /\ work' = [work EXCEPT !.cancelled = TRUE]
    /\ UNCHANGED <<channel, pulled, runs, rollbackTag, applied, candidate, composeImage>>

\* The Admin dies; no journal says what the job was doing.
CrashAdmin ==
    /\ ~NoUpdate /\ Spend
    /\ work' = NoWork
    /\ UNCHANGED <<channel, pulled, runs, rollbackTag, applied, candidate, composeImage>>

ImageNext ==
    \/ ReleasePublished
    \/ PullImage
    \/ \E a \in ImageAccount : StopAccount(a)
    \/ \E a \in ImageAccount : StartAccount(a)
    \/ \E targets \in SUBSET ImageAccount : UpdateImage(targets)
    \/ UpdateRefused
    \/ NextAccount
    \/ RemoveOld
    \/ CreateNew
    \/ ProbeNew
    \/ CommitState
    \/ Project
    \/ ProjectFails
    \/ RollBack
    \/ EndFailed
    \/ CancelJob
    \/ CrashAdmin

ImageSpec == ImageInit /\ [][ImageNext]_imageVars

-----------------------------------------------------------------------------
\* An update that is answered as failed is undone: whatever failed, the
\* cancellation of the job included, every account it did not report as stuck
\* runs the image it ran before, and the applied image is the one before unless
\* writing that back was reported as failed.  Nothing is claimed of compose.env,
\* which a failing projection may leave changed and nothing takes back.
FailedUpdateUndone ==
    ~NoUpdate /\ work.phase = "replace" /\ work.error /\ work.attempted = <<>>
      => /\ work.unrestored \/ applied = work.appliedBefore
         /\ \A a \in ImageAccount \ work.stuck : runs[a] = work.before[a]
=============================================================================
