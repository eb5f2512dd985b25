---------------------------- MODULE RuntimeJobs ----------------------------
(***************************************************************************)
(* The Admin's job manager (internal/runtimeops/jobs.go): jobs that start, *)
(* stop, restart or log in CPA containers, pull and apply images and run   *)
(* diagnostics are submitted to a bounded pool, may be cancelled while     *)
(* queued or running, and are finished by a goroutine of their own that    *)
(* waits for the pool.  Every operation below runs under manager.mu and is *)
(* one step; between the end of a task and finish() anything may happen.   *)
(*                                                                         *)
(* What a job does to the containers is in ImageUpdate and                 *)
(* AccountLifecycle; here its body is a step with an outcome.              *)
(***************************************************************************)
EXTENDS Integers, FiniteSets, Sequences, SequencesExt

CONSTANTS
    JobName,         \* names a job may have for its target, besides "all"
    Concurrency,     \* tasks the pool runs at once (defaultJobConcurrency = 1)
    QueueSize,       \* tasks the pool keeps waiting (defaultJobQueueSize = 16)
    History,         \* jobs kept for the page (defaultJobHistory = 60)
    MaxJobs          \* bound: jobs submitted in one behaviour

\* At most one unfinished job per name: trimLocked, which keeps unfinished
\* jobs by rotating them, needs room for all of them or it never returns.
ASSUME JobsAssumption ==
    /\ IsFiniteSet(JobName)
    /\ {Concurrency, QueueSize, History, MaxJobs} \subseteq Nat \ {0}
    /\ History >= Cardinality(JobName)

VARIABLES
    jobs,            \* manager.jobs: id -> job
    order,           \* manager.order: ids, oldest first
    active,          \* manager.active: target -> id of its unfinished job
    waiting,         \* the pool's queue of ids
    tasks,           \* id -> what its task has come to
    lock,            \* operationLock: who holds it
    submitted        \* ids given out so far

jobVars == <<jobs, order, active, waiting, tasks, lock, submitted>>

JobId == 1..MaxJobs
Everything == "all"

\* A target is the text of the request, trimmed and in lower case.  Which
\* container it stands for is found only when the job runs (resolve): both an
\* account's id and its service, cliproxy-<id>, are names of one container.
JobTarget == JobName \cup {Everything}

\* "plain": start, stop, restart, login, health, verify-routing;
\* "locked": image-pull, image-update and render, which take operationLock.
JobAction == {"plain", "locked"}
Terminal == {"succeeded", "failed", "cancelled"}
Unlocked == 0
Lifecycle == -1      \* an account, user or configuration operation

JobsInit ==
    /\ jobs = <<>> /\ order = <<>> /\ active = <<>>
    /\ waiting = <<>> /\ tasks = <<>>
    /\ lock = Unlocked /\ submitted = 0

Without(f, x) == [y \in DOMAIN f \ {x} |-> f[y]]
With(f, x, v) == [y \in DOMAIN f \cup {x} |-> IF y = x THEN v ELSE f[y]]

\* findConflictLocked: a job on the target itself, any job when the target is
\* "all", and a job on "all" whatever the target.
FindConflict(target) ==
    {active[t] : t \in {u \in DOMAIN active :
                           u = target \/ target = Everything \/ u = Everything}}

\* One turn of trimLocked: with more than History jobs the oldest one goes, or
\* moves to the end of the order when it is unfinished.
TrimOldest(js, ids) ==
    IF Len(ids) <= History THEN ids
    ELSE IF js[Head(ids)].status \in Terminal THEN Tail(ids)
    ELSE Append(Tail(ids), Head(ids))

\* trimLocked: with room for the unfinished ones (JobsAssumption) it has come to
\* its end when it has looked at every id.
Trim(js, ids) ==
    LET left[n \in 0..Len(ids)] ==
            IF n = 0 THEN ids ELSE TrimOldest(js, left[n - 1])
    IN  left[Len(ids)]

\* What trimLocked leaves of the records and of their order.
Kept(js, ids) ==
    /\ order' = Trim(js, ids)
    /\ jobs' = [id \in ToSet(Trim(js, ids)) |-> js[id]]

-----------------------------------------------------------------------------
(***************************************************************************)
(* Submit.  A conflicting job is answered with that job when it is the     *)
(* same action on the same target and with ErrJobConflict otherwise; both  *)
(* leave the manager alone, as does a full queue.                          *)
(***************************************************************************)
Submit(action, target) ==
    /\ submitted < MaxJobs
    /\ FindConflict(target) = {}
    /\ Len(waiting) < QueueSize
    /\ LET id == submitted + 1
       IN  /\ jobs' = With(jobs, id, [action |-> action, target |-> target,
                                      status |-> "queued", ctx |-> "live"])
           /\ order' = Append(order, id)
           /\ active' = With(active, target, id)
           /\ waiting' = Append(waiting, id)
           /\ tasks' = With(tasks, id, "pending")
           /\ submitted' = id
    /\ UNCHANGED lock

\* Cancel: a queued job is finished here and now, and its target free again,
\* while its task still waits in the pool; a running one is only told.
Cancel(id) ==
    /\ id \in DOMAIN jobs /\ jobs[id].status \in {"queued", "running"}
    /\ IF jobs[id].status = "queued"
       THEN /\ active' = Without(active, jobs[id].target)
            /\ Kept([jobs EXCEPT ![id].status = "cancelled", ![id].ctx = "cancelled"], order)
       ELSE /\ jobs' = [jobs EXCEPT ![id].status = "cancelling", ![id].ctx = "cancelled"]
            /\ UNCHANGED <<order, active>>
    /\ UNCHANGED <<waiting, tasks, lock, submitted>>

\* What execute looks at before it runs a task: the record, which may have been
\* trimmed, and the job's context.
Cancelled(id) == id \notin DOMAIN jobs \/ jobs[id].ctx = "cancelled"

\* A pool worker takes the oldest task and execute() looks at the job: gone or
\* cancelled, the task is over; otherwise the job is running.
Execute ==
    /\ waiting # <<>>
    /\ Cardinality({id \in DOMAIN tasks : tasks[id] \in {"body", "lockwait"}}) < Concurrency
    /\ waiting' = Tail(waiting)
    /\ LET id == Head(waiting)
       IN  IF Cancelled(id)
           THEN /\ tasks' = [tasks EXCEPT ![id] = IF id \in DOMAIN jobs THEN "canceled" ELSE "error"]
                /\ UNCHANGED jobs
           ELSE /\ tasks' = [tasks EXCEPT ![id] = IF jobs[id].action = "locked"
                                                  THEN "lockwait" ELSE "body"]
                /\ jobs' = [jobs EXCEPT ![id].status = "running"]
    /\ UNCHANGED <<order, active, lock, submitted>>

\* operationLock.Lock() in execute: not interrupted by a cancellation.
TakeLock(id) ==
    /\ id \in DOMAIN tasks /\ tasks[id] = "lockwait" /\ lock = Unlocked
    /\ tasks' = [tasks EXCEPT ![id] = "body"]
    /\ lock' = id
    /\ UNCHANGED <<jobs, order, active, waiting, submitted>>

\* The controller returns: with a result, an error, or the context's error
\* when the job was cancelled.  The deferred unlock runs with the return.
Return(id) ==
    /\ id \in DOMAIN tasks /\ tasks[id] = "body"
    /\ \E outcome \in {"ok", "error"} \cup (IF Cancelled(id) THEN {"canceled"} ELSE {}) :
          tasks' = [tasks EXCEPT ![id] = outcome]
    /\ lock' = IF lock = id THEN Unlocked ELSE lock
    /\ UNCHANGED <<jobs, order, active, waiting, submitted>>

\* Mutant: finish takes any job it still finds.
FinishedIfTrimmed(id) == id \notin DOMAIN jobs

\* A Cancel while the job was queued has finished it, and it may be trimmed.
Finished(id) == id \notin DOMAIN jobs \/ jobs[id].status \in Terminal

\* finish: the goroutine of Submit has its task's outcome.
Finish(id) ==
    /\ id \in DOMAIN tasks /\ tasks[id] \in {"ok", "error", "canceled"}
    /\ tasks' = Without(tasks, id)
    /\ IF Finished(id)
       THEN UNCHANGED <<jobs, order, active>>
       ELSE LET status == CASE tasks[id] = "canceled" -> "cancelled"
                            [] tasks[id] = "error" -> "failed"
                            [] OTHER -> "succeeded"
            IN  /\ active' = Without(active, jobs[id].target)
                /\ Kept([jobs EXCEPT ![id].status = status], order)
    /\ UNCHANGED <<waiting, lock, submitted>>

\* The lifecycle services and the configuration page share operationLock.
LifecycleLocks ==
    /\ lock = Unlocked /\ submitted < MaxJobs
    /\ lock' = Lifecycle
    /\ UNCHANGED <<jobs, order, active, waiting, tasks, submitted>>

LifecycleUnlocks ==
    /\ lock = Lifecycle
    /\ lock' = Unlocked
    /\ UNCHANGED <<jobs, order, active, waiting, tasks, submitted>>

-----------------------------------------------------------------------------
JobsNext ==
    \/ \E action \in JobAction, target \in JobTarget : Submit(action, target)
    \/ \E id \in JobId : Cancel(id)
    \/ Execute
    \/ \E id \in JobId : TakeLock(id)
    \/ \E id \in JobId : Return(id)
    \/ \E id \in JobId : Finish(id)
    \/ LifecycleLocks
    \/ LifecycleUnlocks

JobsSpec == JobsInit /\ [][JobsNext]_jobVars

-----------------------------------------------------------------------------
Overlap(t, u) == t = u \/ t = Everything \/ u = Everything

\* Two jobs that are not finished never have the same name for their target, and
\* a job on "all" is alone, however cancellations, resubmissions and late
\* finishes interleave; manager.active names exactly the unfinished ones.  So
\* two jobs are at work on one container only under two names of it.
JobsExclusive ==
    LET unfinished == {id \in DOMAIN jobs : jobs[id].status \notin Terminal}
    IN  /\ \A i, j \in unfinished :
              i # j => ~Overlap(jobs[i].target, jobs[j].target)
        /\ {active[t] : t \in DOMAIN active} = unfinished

=============================================================================
