----------------------- MODULE AccountLifecycleProofs -----------------------
(***************************************************************************)
(* Proofs about account operations.  A container is stopped or restarted   *)
(* only when its requests have been drained (StopsAreDrained), and when    *)
(* Admin accepts operations all the places an operation changes agree      *)
(* (AccountsReconciled).                                                   *)
(*                                                                         *)
(* The first invariant (LifecycleInv) follows an operation through its     *)
(* program.  How many steps are left (Left) tells which stages lie behind  *)
(* it: the users have been moved off the account, the snapshot without     *)
(* them has been published, the gateway has loaded it, their requests have *)
(* ended.  Each stage keeps what the next one needs against the requests,  *)
(* the gateway and the failover worker, which go on meanwhile; a failure,  *)
(* a crash or a recovery leaves the program, and with it the claims.  The  *)
(* steps fall into a few classes (quiet steps, steps back, ends, steps of  *)
(* others), and the invariant is shown once for each class.                *)
(*                                                                         *)
(* The second (PlacesInv) says that the places agree about every account   *)
(* but the ones the journal names, and of those how far they have come:    *)
(* in an operation by the steps done, in a rollback by the steps undone    *)
(* and the ones ahead, in a recovery by the steps left, and between them   *)
(* by what every crash leaves for a recovery to rely on.                   *)
(***************************************************************************)
EXTENDS AccountLifecycle, TLAPS

\* Fields of the records
OpFields ==
    {"kind", "acct", "new", "status", "custom", "key", "repair", "fallback", "plan",
     "before", "proxied", "keyed", "had", "changed", "awaited", "err"}
JournalFields == {"kind", "acct", "new", "phase", "evac"}
MoveFields == {"st", "plan", "from"}

\* The steps a recovery and a rollback may take
RecoverStep ==
    {"rec_secrets", "rec_files", "rec_stop", "rec_start", "rec_routes", "render",
     "publish", "wait", "drain", "finish"}
UndoStep ==
    {"undo_files", "undo_runtime", "undo_secrets", "undo_control", "undo_routes",
     "render", "restart", "publish", "wait", "finish"}

\* The types the argument needs.  The Boolean fields of an operation, the
\* host and the counters do not matter to it.
OpTypeOK ==
    /\ DOMAIN op = OpFields
    /\ op.kind \in Kind \cup {"none"}
    /\ op.acct \in Target /\ op.new \in Target /\ op.fallback \in Target
    /\ op.status \in Status /\ op.before \in Status
    /\ op.plan \in Routing /\ op.changed \in Routing
    /\ op.awaited \in Nat
JournalTypeOK ==
    /\ DOMAIN journal = JournalFields
    /\ journal.kind \in Kind \cup {"none"}
    /\ journal.acct \in Target /\ journal.new \in Target
    /\ journal.kind # "none" => journal.acct \in Account /\ journal.new \in Account
    /\ journal.evac \in Routing
MoveTypeOK ==
    /\ DOMAIN mv = MoveFields
    /\ mv.plan \in Routing /\ mv.from \in Routing
StateTypeOK ==
    /\ PublicationTypeOK /\ OpTypeOK /\ JournalTypeOK /\ MoveTypeOK
    /\ mode \in {"idle", "run", "undo", "recover", "down"}

\* Generations go from the publisher to the file to the gateway.
GenInv == loaded[edge].gen <= snap.gen /\ snap.gen <= minted

\* s is what is left of the program P.
IsTail(s, P) ==
    /\ s \in Seq(Step)
    /\ Len(s) \in 1..Len(P)
    /\ \A i \in 1..Len(s) : s[i] = P[Len(P) - Len(s) + i]

\* The programs of an update and of clearing an account, with and without
\* users to move.
MovingUpdate == AfterPlan("update", FALSE)
PlainUpdate == AfterPlan("update", TRUE)
MovingClear == AfterPlan("clear_auth", FALSE)
PlainClear == AfterPlan("clear_auth", TRUE)

\* The program of an operation that has planned
Program ==
    CASE op.kind = "create" -> CreateSteps
      [] op.kind = "delete" -> DeleteSteps
      [] op.kind = "update" -> IF Empty THEN PlainUpdate ELSE MovingUpdate
      [] op.kind = "clear_auth" -> IF Empty THEN PlainClear ELSE MovingClear

\* The recovery of a deletion whose row is gone
RecoverDelete ==
    <<"rec_secrets", "render", "publish", "wait", "drain", "rec_stop",
      "rec_files", "finish">>

\* How many steps are left says where in its program an operation is.
Left == Len(todo)
Planning == todo = <<"plan">>
\* The requests the drain is to wait for: authorized and to be counted in
\* time, and counted in time.
Waiting == pending \ late
Counted == inflight \ late
\* The gateway serves the last publication of the operation, or a later one.
Awaited == op.awaited <= loaded[edge].gen
\* The snapshot of that publication, and every later one, names the account a
\* for user u no more; once the gateway serves it no request of theirs to a is
\* waiting to be counted.
Published(u, a) ==
    /\ op.awaited <= snap.gen
    /\ snap.view[u] # a
    /\ Awaited => loaded[edge].view[u] # a /\ <<u, a>> \notin Waiting

\* An operation that is under way has a plan to make or the rest of its
\* program to do.
RunFacts ==
    /\ op.kind \in Kind /\ op.acct \in Account /\ op.new \in Account
    /\ op.repair => op.plan = NoPlan
    /\ \/ /\ Planning
          /\ op.kind \in {"update", "clear_auth"}
          /\ ~op.repair
          /\ op.changed = NoPlan /\ op.plan = NoPlan
       \/ IsTail(todo, Program)
RunInv == mode = "run" => RunFacts

\* A deletion: the row goes with the control step, the account with the
\* publication, its new requests with the wait and its old ones with the drain.
DeleteFacts ==
    /\ op.new = op.acct /\ op.status = "absent" /\ op.plan = NoPlan
    /\ Left < 13 => catalog[op.acct] = "absent"
    /\ Left < 7 => \A u \in User : Published(u, op.acct)
    /\ Left < 6 => Awaited
    /\ Left < 4 /\ op.changed # NoPlan => \A u \in User : <<u, op.acct>> \notin Counted
DeleteInv == mode = "run" /\ op.kind = "delete" => DeleteFacts

\* An update or a clearing that has planned: the steps before which it applies
\* the plan and stops the container.
Planned == op.kind \in {"update", "clear_auth"} /\ ~op.repair /\ ~Planning
ApplyAt == IF op.kind = "update" THEN 21 ELSE 13
StopAt == IF op.kind = "update" THEN 8 ELSE 6

\* Whoever is routed to the account will be moved, unless the failover worker
\* has brought them there.
OldUsersMoved ==
    \A u \in User : routes[u] = op.acct =>
        u \in touched \/ (Left >= ApplyAt /\ op.plan[u] # NoAccount)
\* The users of the plan leave the account in the same three stages.
Leaving ==
    \A u \in User : op.plan[u] # NoAccount /\ u \notin touched =>
        /\ Left < ApplyAt - 1 => Published(u, op.acct)
        /\ Left < ApplyAt - 2 => Awaited
        /\ Left < ApplyAt - 3 => <<u, op.acct>> \notin Counted
PlannedFacts ==
    /\ \A u \in User : op.plan[u] # op.acct
    /\ ~Renames => \A u \in User : op.changed[u] # NoAccount => u \in touched
    /\ Left >= StopAt => OldUsersMoved /\ Leaving
PlannedInv == mode = "run" /\ Planned => PlannedFacts

\* The recovery of a deletion drains the account as the deletion does.
DeleteRecovered == op.kind = "delete" /\ Desired = NoAccount
RecoverDeleteFacts ==
    /\ Left < 6 => \A u \in User : Published(u, op.acct)
    /\ Left < 5 => Awaited
    /\ Left < 4 => \A u \in User : <<u, op.acct>> \notin Counted
RecoverFacts ==
    /\ op.kind = journal.kind /\ op.acct = journal.acct /\ op.new = journal.new
    /\ todo \in Seq(RecoverStep) /\ todo # <<>> /\ todo[Left] = "finish"
    /\ DeleteRecovered => IsTail(todo, RecoverDelete)
    /\ DeleteRecovered => RecoverDeleteFacts
RecoverInv == mode = "recover" => RecoverFacts

\* A rollback ends with the end of the operation and restores files first.
UndoFacts ==
    /\ todo \in Seq(UndoStep) /\ todo # <<>> /\ todo[Left] = "finish"
    /\ \A i \in 2..Left : todo[i] # "undo_files"
    /\ todo[1] = "undo_files" /\ op.kind = "clear_auth" => Left >= 3
UndoInv == mode = "undo" => UndoFacts

\* The inductive invariant
LifecycleInv ==
    /\ StateTypeOK /\ GenInv
    /\ RunInv /\ DeleteInv /\ PlannedInv /\ RecoverInv /\ UndoInv

\* What the tail of a nonempty sequence holds.
LEMMA TailShorter ==
  ASSUME NEW S, NEW s \in Seq(S), s # <<>>
  PROVE  /\ Len(s) \in Nat /\ Len(s) >= 1 /\ Head(s) = s[1] /\ Head(s) \in S
         /\ Tail(s) \in Seq(S) /\ Len(Tail(s)) = Len(s) - 1
         /\ \A i \in 1..Len(s) - 1 : Tail(s)[i] = s[i + 1]
  OBVIOUS

\* The tail of a tail of a program is one, one step shorter, until the
\* program has ended.
LEMMA TailOfTail ==
  ASSUME NEW P \in Seq(Step), NEW s, IsTail(s, P)
  PROVE  /\ s # <<>> /\ Len(s) \in Nat
         /\ Head(s) = P[Len(P) - Len(s) + 1]
         /\ Len(Tail(s)) = Len(s) - 1
         /\ Len(s) # 1 => IsTail(Tail(s), P)
<1>1. s \in Seq(Step) /\ Len(s) \in 1..Len(P) /\ Len(P) \in Nat /\ s # <<>>
  BY DEF IsTail
<1>2. \A i \in 1..Len(s) : s[i] = P[Len(P) - Len(s) + i]
  BY DEF IsTail
<1>3. /\ Head(s) = s[1] /\ Tail(s) \in Seq(Step) /\ Len(Tail(s)) = Len(s) - 1
      /\ \A i \in 1..Len(s) - 1 : Tail(s)[i] = s[i + 1]
  BY <1>1, TailShorter
<1>4. Head(s) = P[Len(P) - Len(s) + 1]
  BY <1>1, <1>2, <1>3
<1>5. ASSUME Len(s) # 1 PROVE IsTail(Tail(s), P)
  <2>1. Len(Tail(s)) \in 1..Len(P)
    BY <1>1, <1>3, <1>5
  <2>2. ASSUME NEW i \in 1..Len(Tail(s))
        PROVE  Tail(s)[i] = P[Len(P) - Len(Tail(s)) + i]
    <3>1. i \in 1..Len(s) - 1 /\ i + 1 \in 1..Len(s)
      BY <1>1, <1>3
    <3>2. Len(P) - Len(s) + (i + 1) = Len(P) - Len(Tail(s)) + i
      BY <1>1, <1>3, <3>1
    <3> QED
      BY <1>2, <1>3, <3>1, <3>2
  <2> QED
    BY <1>3, <2>1, <2>2 DEF IsTail
<1> QED
  BY <1>1, <1>3, <1>4, <1>5

\* The next step of a program is known from the number of steps left.
LEMMA HeadAt ==
  ASSUME NEW P \in Seq(Step), IsTail(todo, P)
  PROVE  Left \in 1..Len(P) /\ Head(todo) = P[Len(P) + 1 - Left]
<1>1. Head(todo) = P[Len(P) - Len(todo) + 1] /\ Len(todo) \in Nat
  BY TailOfTail
<1>2. Len(todo) \in 1..Len(P)
  BY DEF IsTail
<1> QED
  BY <1>1, <1>2 DEF Left

\* A sequence and its tail end alike.
LEMMA TailLast ==
  ASSUME NEW S, NEW s \in Seq(S), Len(s) >= 2
  PROVE  Tail(s)[Len(s) - 1] = s[Len(s)] /\ Tail(s) # <<>> /\ Len(Tail(s)) >= 1
<1>1. s # <<>> /\ Len(s) \in Nat
  OBVIOUS
<1>2. \A i \in 1..Len(s) - 1 : Tail(s)[i] = s[i + 1]
  BY <1>1, TailShorter
<1>3. \A n \in Nat : n >= 2 => n - 1 \in 1..n - 1 /\ (n - 1) + 1 = n
  OBVIOUS
<1>4. Tail(s)[Len(s) - 1] = s[Len(s)]
  BY <1>1, <1>2, <1>3
<1>5. Len(Tail(s)) = Len(s) - 1
  BY <1>1, TailShorter
<1>6. Tail(s) # <<>>
  <2>1. \A t \in Seq(S) : t = <<>> => Len(t) = 0
    OBVIOUS
  <2>2. Tail(s) \in Seq(S) /\ Len(Tail(s)) # 0
    BY <1>1, <1>5, TailShorter
  <2> QED
    BY <2>1, <2>2
<1> QED
  BY <1>1, <1>4, <1>5, <1>6

\* Where the steps of a creation stand.
LEMMA CreateHead ==
  ASSUME IsTail(todo, CreateSteps)
  PROVE  /\ Left \in 1..13
         /\ Head(todo) = "finish" <=> Left = 1
         /\ Head(todo) \notin {"plan", "apply", "drain", "stop", "restart",
              "restore", "undo_files", "undo_runtime", "undo_secrets", "undo_control",
              "undo_routes", "rec_secrets", "rec_files", "rec_stop", "rec_start",
              "rec_routes"}
<1>1. Len(CreateSteps) = 13 /\ CreateSteps \in Seq(Step)
  BY DEF CreateSteps, Step, Phase
<1>a. Left \in 1..Len(CreateSteps) /\ Head(todo) = CreateSteps[Len(CreateSteps) + 1 - Left]
  BY <1>1, HeadAt
<1>2. Left \in 1..13 /\ Head(todo) = CreateSteps[14 - Left]
  BY <1>1, <1>a
<1>3. \A n \in 1..13 :
         /\ CreateSteps[14 - n] = "finish" <=> n = 1
         /\ CreateSteps[14 - n] \notin {"plan", "apply", "drain", "stop", "restart",
              "restore", "undo_files", "undo_runtime", "undo_secrets", "undo_control",
              "undo_routes", "rec_secrets", "rec_files", "rec_stop", "rec_start",
              "rec_routes"}
  BY DEF CreateSteps
<1> QED
  BY <1>2, <1>3

\* Where the steps of a deletion stand.
LEMMA DeleteHead ==
  ASSUME IsTail(todo, DeleteSteps)
  PROVE  /\ Left \in 1..15
         /\ Head(todo) = "finish" <=> Left = 1
         /\ Head(todo) = "control" <=> Left = 13
         /\ Head(todo) = "publish" <=> Left = 7
         /\ Head(todo) = "wait" <=> Left = 6
         /\ Head(todo) = "drain" <=> Left = 4
         /\ Head(todo) = "stop" <=> Left = 3
         /\ Head(todo) \notin {"plan", "apply", "restart", "restore", "undo_files",
              "undo_runtime", "undo_secrets", "undo_control", "undo_routes", "rec_secrets",
              "rec_files", "rec_stop", "rec_start", "rec_routes"}
<1>1. Len(DeleteSteps) = 15 /\ DeleteSteps \in Seq(Step)
  BY DEF DeleteSteps, Step, Phase
<1>a. Left \in 1..Len(DeleteSteps) /\ Head(todo) = DeleteSteps[Len(DeleteSteps) + 1 - Left]
  BY <1>1, HeadAt
<1>2. Left \in 1..15 /\ Head(todo) = DeleteSteps[16 - Left]
  BY <1>1, <1>a
<1>3. \A n \in 1..15 :
         /\ DeleteSteps[16 - n] = "finish" <=> n = 1
         /\ DeleteSteps[16 - n] = "control" <=> n = 13
         /\ DeleteSteps[16 - n] = "publish" <=> n = 7
         /\ DeleteSteps[16 - n] = "wait" <=> n = 6
         /\ DeleteSteps[16 - n] = "drain" <=> n = 4
         /\ DeleteSteps[16 - n] = "stop" <=> n = 3
         /\ DeleteSteps[16 - n] \notin {"plan", "apply", "restart", "restore", "undo_files",
              "undo_runtime", "undo_secrets", "undo_control", "undo_routes", "rec_secrets",
              "rec_files", "rec_stop", "rec_start", "rec_routes"}
  BY DEF DeleteSteps
<1> QED
  BY <1>2, <1>3

\* Where the steps of an update that moves users stand.
LEMMA UpdateHead ==
  ASSUME IsTail(todo, MovingUpdate)
  PROVE  /\ Left \in 1..22
         /\ Head(todo) = "finish" <=> Left = 1
         /\ Head(todo) = "apply" <=> Left = 21
         /\ Head(todo) = "publish" <=> Left = 20 \/ Left = 4
         /\ Head(todo) = "wait" <=> Left = 19 \/ Left = 3
         /\ Head(todo) = "drain" <=> Left = 18
         /\ Head(todo) = "control" <=> Left = 14
         /\ Head(todo) = "stop" <=> Left = 8
         /\ Head(todo) = "restore" <=> Left = 5
         /\ Head(todo) \notin {"plan", "restart", "undo_files", "undo_runtime", "undo_secrets",
              "undo_control", "undo_routes", "rec_secrets", "rec_files", "rec_stop",
              "rec_start", "rec_routes"}
<1>1. Len(MovingUpdate) = 22 /\ MovingUpdate \in Seq(Step)
  BY DEF MovingUpdate, AfterPlan, Evacuation, UpdateSteps, Step, Phase
<1>a. Left \in 1..Len(MovingUpdate) /\ Head(todo) = MovingUpdate[Len(MovingUpdate) + 1 - Left]
  BY <1>1, HeadAt
<1>2. Left \in 1..22 /\ Head(todo) = MovingUpdate[23 - Left]
  BY <1>1, <1>a
<1>3. \A n \in 1..22 :
         /\ MovingUpdate[23 - n] = "finish" <=> n = 1
         /\ MovingUpdate[23 - n] = "apply" <=> n = 21
         /\ MovingUpdate[23 - n] = "publish" <=> n = 20 \/ n = 4
         /\ MovingUpdate[23 - n] = "wait" <=> n = 19 \/ n = 3
         /\ MovingUpdate[23 - n] = "drain" <=> n = 18
         /\ MovingUpdate[23 - n] = "control" <=> n = 14
         /\ MovingUpdate[23 - n] = "stop" <=> n = 8
         /\ MovingUpdate[23 - n] = "restore" <=> n = 5
         /\ MovingUpdate[23 - n] \notin {"plan", "restart", "undo_files", "undo_runtime", "undo_secrets",
              "undo_control", "undo_routes", "rec_secrets", "rec_files", "rec_stop",
              "rec_start", "rec_routes"}
  BY DEF MovingUpdate, AfterPlan, Evacuation, UpdateSteps
<1> QED
  BY <1>2, <1>3

\* Where the steps of an update that moves nobody stand.
LEMMA PlainUpdateHead ==
  ASSUME IsTail(todo, PlainUpdate)
  PROVE  /\ Left \in 1..18
         /\ Head(todo) = "finish" <=> Left = 1
         /\ Head(todo) = "publish" <=> Left = 4
         /\ Head(todo) = "wait" <=> Left = 3
         /\ Head(todo) = "control" <=> Left = 14
         /\ Head(todo) = "stop" <=> Left = 8
         /\ Head(todo) = "restore" <=> Left = 5
         /\ Head(todo) \notin {"plan", "apply", "drain", "restart", "undo_files",
              "undo_runtime", "undo_secrets", "undo_control", "undo_routes", "rec_secrets",
              "rec_files", "rec_stop", "rec_start", "rec_routes"}
<1>1. Len(PlainUpdate) = 18 /\ PlainUpdate \in Seq(Step)
  BY DEF PlainUpdate, AfterPlan, Evacuation, UpdateSteps, Step, Phase
<1>a. Left \in 1..Len(PlainUpdate) /\ Head(todo) = PlainUpdate[Len(PlainUpdate) + 1 - Left]
  BY <1>1, HeadAt
<1>2. Left \in 1..18 /\ Head(todo) = PlainUpdate[19 - Left]
  BY <1>1, <1>a
<1>3. \A n \in 1..18 :
         /\ PlainUpdate[19 - n] = "finish" <=> n = 1
         /\ PlainUpdate[19 - n] = "publish" <=> n = 4
         /\ PlainUpdate[19 - n] = "wait" <=> n = 3
         /\ PlainUpdate[19 - n] = "control" <=> n = 14
         /\ PlainUpdate[19 - n] = "stop" <=> n = 8
         /\ PlainUpdate[19 - n] = "restore" <=> n = 5
         /\ PlainUpdate[19 - n] \notin {"plan", "apply", "drain", "restart", "undo_files",
              "undo_runtime", "undo_secrets", "undo_control", "undo_routes", "rec_secrets",
              "rec_files", "rec_stop", "rec_start", "rec_routes"}
  BY DEF PlainUpdate, AfterPlan, Evacuation, UpdateSteps
<1> QED
  BY <1>2, <1>3

\* Where the steps of clearing an account that moves users stand.
LEMMA ClearHead ==
  ASSUME IsTail(todo, MovingClear)
  PROVE  /\ Left \in 1..14
         /\ Head(todo) = "finish" <=> Left = 1
         /\ Head(todo) = "apply" <=> Left = 13
         /\ Head(todo) = "publish" <=> Left = 12 \/ Left = 3
         /\ Head(todo) = "wait" <=> Left = 11 \/ Left = 2
         /\ Head(todo) = "drain" <=> Left = 10
         /\ Head(todo) = "restart" <=> Left = 6
         /\ Head(todo) = "restore" <=> Left = 4
         /\ Head(todo) \notin {"plan", "control", "stop", "undo_files", "undo_runtime",
              "undo_secrets", "undo_control", "undo_routes", "rec_secrets", "rec_files",
              "rec_stop", "rec_start", "rec_routes"}
<1>1. Len(MovingClear) = 14 /\ MovingClear \in Seq(Step)
  BY DEF MovingClear, AfterPlan, Evacuation, ClearAuthSteps, Step, Phase
<1>a. Left \in 1..Len(MovingClear) /\ Head(todo) = MovingClear[Len(MovingClear) + 1 - Left]
  BY <1>1, HeadAt
<1>2. Left \in 1..14 /\ Head(todo) = MovingClear[15 - Left]
  BY <1>1, <1>a
<1>3. \A n \in 1..14 :
         /\ MovingClear[15 - n] = "finish" <=> n = 1
         /\ MovingClear[15 - n] = "apply" <=> n = 13
         /\ MovingClear[15 - n] = "publish" <=> n = 12 \/ n = 3
         /\ MovingClear[15 - n] = "wait" <=> n = 11 \/ n = 2
         /\ MovingClear[15 - n] = "drain" <=> n = 10
         /\ MovingClear[15 - n] = "restart" <=> n = 6
         /\ MovingClear[15 - n] = "restore" <=> n = 4
         /\ MovingClear[15 - n] \notin {"plan", "control", "stop", "undo_files", "undo_runtime",
              "undo_secrets", "undo_control", "undo_routes", "rec_secrets", "rec_files",
              "rec_stop", "rec_start", "rec_routes"}
  BY DEF MovingClear, AfterPlan, Evacuation, ClearAuthSteps
<1> QED
  BY <1>2, <1>3

\* Where the steps of clearing an account that moves nobody stand.
LEMMA PlainClearHead ==
  ASSUME IsTail(todo, PlainClear)
  PROVE  /\ Left \in 1..8
         /\ Head(todo) = "finish" <=> Left = 1
         /\ Head(todo) = "restart" <=> Left = 4
         /\ Head(todo) = "restore" <=> Left = 2
         /\ Head(todo) \notin {"plan", "apply", "publish", "wait", "drain",
              "control", "stop", "undo_files", "undo_runtime", "undo_secrets",
              "undo_control", "undo_routes", "rec_secrets", "rec_files", "rec_stop",
              "rec_start", "rec_routes"}
<1>1. Len(PlainClear) = 8 /\ PlainClear \in Seq(Step)
  BY DEF PlainClear, AfterPlan, Evacuation, ClearAuthSteps, Step, Phase
<1>a. Left \in 1..Len(PlainClear) /\ Head(todo) = PlainClear[Len(PlainClear) + 1 - Left]
  BY <1>1, HeadAt
<1>2. Left \in 1..8 /\ Head(todo) = PlainClear[9 - Left]
  BY <1>1, <1>a
<1>3. \A n \in 1..8 :
         /\ PlainClear[9 - n] = "finish" <=> n = 1
         /\ PlainClear[9 - n] = "restart" <=> n = 4
         /\ PlainClear[9 - n] = "restore" <=> n = 2
         /\ PlainClear[9 - n] \notin {"plan", "apply", "publish", "wait", "drain",
              "control", "stop", "undo_files", "undo_runtime", "undo_secrets",
              "undo_control", "undo_routes", "rec_secrets", "rec_files", "rec_stop",
              "rec_start", "rec_routes"}
  BY DEF PlainClear, AfterPlan, Evacuation, ClearAuthSteps
<1> QED
  BY <1>2, <1>3

\* Where the steps of the recovery of a deletion stand.
LEMMA RecoverDeleteHead ==
  ASSUME IsTail(todo, RecoverDelete)
  PROVE  /\ Left \in 1..8
         /\ Head(todo) = "finish" <=> Left = 1
         /\ Head(todo) = "publish" <=> Left = 6
         /\ Head(todo) = "wait" <=> Left = 5
         /\ Head(todo) = "drain" <=> Left = 4
         /\ Head(todo) = "rec_stop" <=> Left = 3
         /\ Head(todo) \notin {"rec_start", "rec_routes"}
<1>1. Len(RecoverDelete) = 8 /\ RecoverDelete \in Seq(Step)
  BY DEF RecoverDelete, Step, Phase
<1>a. Left \in 1..Len(RecoverDelete) /\ Head(todo) = RecoverDelete[Len(RecoverDelete) + 1 - Left]
  BY <1>1, HeadAt
<1>2. Left \in 1..8 /\ Head(todo) = RecoverDelete[9 - Left]
  BY <1>1, <1>a
<1>3. \A n \in 1..8 :
         /\ RecoverDelete[9 - n] = "finish" <=> n = 1
         /\ RecoverDelete[9 - n] = "publish" <=> n = 6
         /\ RecoverDelete[9 - n] = "wait" <=> n = 5
         /\ RecoverDelete[9 - n] = "drain" <=> n = 4
         /\ RecoverDelete[9 - n] = "rec_stop" <=> n = 3
         /\ RecoverDelete[9 - n] \notin {"rec_start", "rec_routes"}
  BY DEF RecoverDelete
<1> QED
  BY <1>2, <1>3

\* The missing account is no account.
LEMMA NoAccountNot == NoAccount \notin Account
  BY PublicationAssumption

\* Admin has a next step while it is busy.
LEMMA SomeHead ==
  ASSUME LifecycleInv, Busy
  PROVE  todo # <<>>
<1>1. Planning => todo # <<>>
  BY DEF Planning
<1>2. IsTail(todo, Program) => todo # <<>>
  BY DEF IsTail
<1>3. CASE mode = "run"
  BY <1>1, <1>2, <1>3 DEF LifecycleInv, RunInv, RunFacts
<1>4. CASE mode = "recover"
  BY <1>4 DEF LifecycleInv, RecoverInv, RecoverFacts
<1>5. CASE mode = "undo"
  BY <1>5 DEF LifecycleInv, UndoInv, UndoFacts
<1> QED
  BY <1>3, <1>4, <1>5 DEF Busy

\* The program of an operation is a sequence of steps.
LEMMA ProgramSeq ==
  ASSUME op.kind \in Kind
  PROVE  Program \in Seq(Step)
<1>1. CreateSteps \in Seq(Step)
  BY DEF CreateSteps, Step, Phase
<1>2. DeleteSteps \in Seq(Step)
  BY DEF DeleteSteps, Step, Phase
<1>3. MovingUpdate \in Seq(Step)
  BY DEF MovingUpdate, AfterPlan, Evacuation, UpdateSteps, Step, Phase
<1>4. PlainUpdate \in Seq(Step)
  BY DEF PlainUpdate, AfterPlan, Evacuation, UpdateSteps, Step, Phase
<1>5. MovingClear \in Seq(Step)
  BY DEF MovingClear, AfterPlan, Evacuation, ClearAuthSteps, Step, Phase
<1>6. PlainClear \in Seq(Step)
  BY DEF PlainClear, AfterPlan, Evacuation, ClearAuthSteps, Step, Phase
<1> QED
  BY <1>1, <1>2, <1>3, <1>4, <1>5, <1>6 DEF Program, Kind

\* An operation takes no step of a rollback or of a recovery, and finishes
\* with its last step.
LEMMA RunHead ==
  ASSUME mode = "run", op.kind \in Kind, IsTail(todo, Program)
  PROVE  /\ Left \in Nat
         /\ Head(todo) = "finish" <=> Left = 1
         /\ Head(todo) \notin {"plan", "undo_files", "undo_runtime", "undo_secrets",
                "undo_control", "undo_routes", "rec_secrets", "rec_files", "rec_stop",
                "rec_start", "rec_routes"}
         /\ ~Planning
<1>1. CASE op.kind = "create"
  BY <1>1, CreateHead DEF Program, Planning
<1>2. CASE op.kind = "delete"
  BY <1>2, DeleteHead DEF Program, Planning
<1>3. CASE op.kind = "update" /\ Empty
  BY <1>3, PlainUpdateHead DEF Program, Planning
<1>4. CASE op.kind = "update" /\ ~Empty
  BY <1>4, UpdateHead DEF Program, Planning
<1>5. CASE op.kind = "clear_auth" /\ Empty
  BY <1>5, PlainClearHead DEF Program, Planning
<1>6. CASE op.kind = "clear_auth" /\ ~Empty
  BY <1>6, ClearHead DEF Program, Planning
<1> QED
  BY <1>1, <1>2, <1>3, <1>4, <1>5, <1>6 DEF Kind

\* One step of a program is done: it goes, the rest of the program, the
\* account and the plan of the operation stay.
Advances ==
    /\ Busy /\ todo # <<>> /\ Head(todo) \notin {"plan", "finish"}
    /\ todo' = Tail(todo) /\ mode' = mode
    /\ op'.kind = op.kind /\ op'.acct = op.acct /\ op'.new = op.new
    /\ op'.repair = op.repair /\ op'.plan = op.plan
    /\ journal'.kind = journal.kind /\ journal'.acct = journal.acct
    /\ journal'.new = journal.new

\* One step of an operation is done: the rest of its program is left.
LEMMA AdvanceRun ==
  ASSUME LifecycleInv, Advances, mode = "run"
  PROVE  /\ IsTail(todo, Program) /\ Program' = Program
         /\ Left \in Nat /\ Left' = Left - 1
         /\ RunFacts' /\ IsTail(todo, Program)'
<1>1. RunFacts
  BY DEF LifecycleInv, RunInv
<1>2. Head(todo) \notin {"plan", "finish"}
  BY DEF Advances
<1>3. IsTail(todo, Program)
  <2>1. Planning => Head(todo) = "plan"
    BY DEF Planning
  <2> QED
    BY <1>1, <1>2, <2>1 DEF RunFacts
<1>4. IsTail(Tail(todo), Program) /\ Len(todo) \in Nat /\ Len(Tail(todo)) = Len(todo) - 1
  <2>1. Program \in Seq(Step) /\ Len(todo) # 1
    BY <1>1, <1>2, <1>3, ProgramSeq, RunHead DEF RunFacts, Left
  <2> QED
    BY <1>3, <2>1, TailOfTail
<1>5. todo' = Tail(todo) /\ Program' = Program
  BY DEF Advances, Program, Empty
<1>6. IsTail(todo, Program)'
  BY <1>4, <1>5 DEF IsTail
<1>7. Left \in Nat /\ Left' = Left - 1
  BY <1>4, <1>5 DEF Left
<1>8. RunFacts'
  BY <1>1, <1>6 DEF RunFacts, Advances
<1> QED
  BY <1>3, <1>5, <1>6, <1>7, <1>8

\* One step of a rollback is done: the rest of it is left.
LEMMA AdvanceUndo ==
  ASSUME LifecycleInv, Advances, mode = "undo"
  PROVE  UndoFacts'
<1>1. /\ todo \in Seq(UndoStep) /\ todo # <<>> /\ todo[Len(todo)] = "finish"
      /\ \A i \in 2..Len(todo) : todo[i] # "undo_files"
  BY DEF LifecycleInv, UndoInv, UndoFacts, Left
<1>2. Head(todo) # "finish" /\ todo' = Tail(todo)
  BY DEF Advances
<1>3. /\ Len(todo) \in Nat /\ Len(todo) >= 1 /\ Head(todo) = todo[1]
      /\ Tail(todo) \in Seq(UndoStep) /\ Len(Tail(todo)) = Len(todo) - 1
      /\ \A i \in 1..Len(todo) - 1 : Tail(todo)[i] = todo[i + 1]
  BY <1>1, TailShorter
<1>4. Len(todo) >= 2
  BY <1>1, <1>2, <1>3
<1>5. Tail(todo)[Len(todo) - 1] = "finish" /\ Tail(todo) # <<>>
  BY <1>1, <1>4, TailLast
<1>6. \A i \in 1..Len(todo) - 1 : Tail(todo)[i] # "undo_files"
  BY <1>1, <1>3, <1>4
<1>7. Tail(todo)[1] # "undo_files"
  BY <1>3, <1>4, <1>6
<1>8. \A i \in 2..Len(Tail(todo)) : Tail(todo)[i] # "undo_files"
  BY <1>3, <1>4, <1>6
<1> QED
  BY <1>2, <1>3, <1>5, <1>7, <1>8 DEF UndoFacts, Left

\* One step of a recovery is done: the rest of it is left, and a deletion
\* that had removed the row is still recovered as one.
LEMMA AdvanceRecover ==
  ASSUME LifecycleInv, Advances, mode = "recover", catalog' = catalog
  PROVE  /\ op'.kind = journal'.kind /\ op'.acct = journal'.acct /\ op'.new = journal'.new
         /\ (todo \in Seq(RecoverStep) /\ todo # <<>> /\ todo[Left] = "finish")'
         /\ Left \in Nat /\ Left' = Left - 1
         /\ DeleteRecovered' <=> DeleteRecovered
         /\ DeleteRecovered => IsTail(todo, RecoverDelete) /\ IsTail(todo, RecoverDelete)'
<1>1. /\ RecoverFacts
      /\ todo \in Seq(RecoverStep) /\ todo # <<>> /\ todo[Len(todo)] = "finish"
  BY DEF LifecycleInv, RecoverInv, RecoverFacts, Left
<1>2. Head(todo) # "finish" /\ todo' = Tail(todo)
  BY DEF Advances
<1>3. /\ Len(todo) \in Nat /\ Len(todo) >= 1 /\ Head(todo) = todo[1]
      /\ Tail(todo) \in Seq(RecoverStep) /\ Len(Tail(todo)) = Len(todo) - 1
      /\ \A i \in 1..Len(todo) - 1 : Tail(todo)[i] = todo[i + 1]
  BY <1>1, TailShorter
<1>4. Len(todo) >= 2
  BY <1>1, <1>2, <1>3
<1>5. Tail(todo)[Len(todo) - 1] = "finish" /\ Tail(todo) # <<>>
  BY <1>1, <1>4, TailLast
<1>6. op'.kind = journal'.kind /\ op'.acct = journal'.acct /\ op'.new = journal'.new
  BY <1>1 DEF RecoverFacts, Advances
<1>7. (todo \in Seq(RecoverStep) /\ todo # <<>> /\ todo[Left] = "finish")'
  BY <1>2, <1>3, <1>5 DEF Left
<1>8. Left \in Nat /\ Left' = Left - 1
  BY <1>2, <1>3 DEF Left
<1>9. DeleteRecovered' <=> DeleteRecovered
  BY DEF DeleteRecovered, Desired, Exists, Advances
<1>10. ASSUME DeleteRecovered
       PROVE  IsTail(todo, RecoverDelete) /\ IsTail(todo, RecoverDelete)'
  <2>1. IsTail(todo, RecoverDelete) /\ RecoverDelete \in Seq(Step)
    BY <1>1, <1>10 DEF RecoverFacts, RecoverDelete, Step, Phase
  <2>2. IsTail(Tail(todo), RecoverDelete)
    <3>1. Len(todo) # 1
      BY <1>3, <1>4
    <3> QED
      BY <2>1, <3>1, TailOfTail
  <2> QED
    BY <1>2, <2>1, <2>2 DEF IsTail
<1> QED
  BY <1>6, <1>7, <1>8, <1>9, <1>10

\* A step that moves no route and publishes nothing: it may end requests.
QuietStep == Step \ {"plan", "apply", "restore", "undo_routes", "publish",
                     "control", "undo_control", "rec_routes", "finish"}
Still == UNCHANGED <<store, pub, dataPlane, pending, late, mv, touched>>
Quiet ==
    /\ Advances
    /\ Head(todo) \in QuietStep
    /\ Head(todo) = "wait" => Awaited
    /\ Head(todo) = "drain" => DrainPasses
    /\ op' = op
    /\ Still
    /\ inflight' \subseteq inflight
    /\ DOMAIN journal' = JournalFields /\ journal'.evac \in Routing

\* A step that moves no route and publishes nothing keeps the invariant: it
\* passes a wait or a drain only when the next stage has been reached.
LEMMA QuietKeeps ==
  ASSUME LifecycleInv, Quiet
  PROVE  LifecycleInv'
<1> USE DEF LifecycleInv
<1>a. Advances /\ op' = op /\ mode' = mode /\ inflight' \subseteq inflight
  BY DEF Quiet, Advances
<1>b. /\ catalog' = catalog /\ routes' = routes /\ minted' = minted /\ snap' = snap
      /\ loaded' = loaded /\ selection' = selection /\ edge' = edge
      /\ pending' = pending /\ late' = late /\ mv' = mv /\ touched' = touched
  BY DEF Quiet, Still, store, pub, dataPlane
<1>c. Head(todo) \notin {"plan", "apply", "restore", "undo_routes", "publish",
                         "control", "undo_control", "rec_routes", "finish"}
  BY DEF Quiet, QuietStep
<1>d. Head(todo) = "wait" => op.awaited <= loaded[edge].gen
  BY DEF Quiet, Awaited
<1>e. Head(todo) = "drain" =>
        \/ \A u \in User : <<u, op.acct>> \notin inflight
        \/ mode = "run" /\ op.kind = "delete" /\ op.changed = NoPlan
  BY DEF Quiet, DrainPasses, Drained
<1>1. StateTypeOK'
  <2>1. PublicationTypeOK' /\ OpTypeOK' /\ MoveTypeOK'
    BY <1>a, <1>b DEF StateTypeOK, PublicationTypeOK, OpTypeOK, MoveTypeOK
  <2>2. JournalTypeOK'
    BY DEF Quiet, Advances, StateTypeOK, JournalTypeOK
  <2> QED
    BY <1>a, <2>1, <2>2 DEF StateTypeOK
<1>2. GenInv'
  BY <1>b DEF GenInv
<1>3. RunInv'
  BY <1>a, AdvanceRun DEF RunInv
<1>4. DeleteInv'
  <2> SUFFICES ASSUME mode = "run", op.kind = "delete" PROVE DeleteFacts'
    BY <1>a DEF DeleteInv
  <2>1. DeleteFacts /\ Left' = Left - 1 /\ IsTail(todo, DeleteSteps)
    BY <1>a, AdvanceRun DEF DeleteInv, Program
  <2>2. /\ Left \in Nat /\ Left \notin {13, 7}
        /\ Head(todo) = "wait" <=> Left = 6
        /\ Head(todo) = "drain" <=> Left = 4
    BY <1>c, <2>1, DeleteHead
  <2> QED
    BY <1>d, <1>e, <1>a, <1>b, <2>1, <2>2 DEF DeleteFacts, Published, Awaited, Waiting, Counted
<1>5. PlannedInv'
  <2> SUFFICES ASSUME mode = "run", Planned' PROVE PlannedFacts'
    BY <1>a DEF PlannedInv
  <2>1. Left \in Nat /\ Left' = Left - 1 /\ IsTail(todo, Program) /\ RunFacts
    BY <1>a, AdvanceRun DEF RunInv
  <2>2. Planned /\ PlannedFacts
    BY <1>a, <2>1, RunHead DEF Planned, PlannedInv, RunFacts
  <2>3. CASE op.plan = NoPlan
    BY <1>a, <1>b, <2>1, <2>2, <2>3 DEF PlannedFacts, OldUsersMoved, Leaving, StopAt, ApplyAt, Renames, NoPlan
  <2>4. CASE op.plan # NoPlan
    <3>1. Left >= StopAt =>
            /\ Left \notin {ApplyAt, ApplyAt - 1}
            /\ Head(todo) = "wait" <=> Left = ApplyAt - 2
            /\ Head(todo) = "drain" <=> Left = ApplyAt - 3
      BY <1>c, <2>1, <2>2, <2>4, UpdateHead, ClearHead DEF Planned, Program, Empty, ApplyAt, StopAt
    <3>2. op.kind # "delete" /\ ApplyAt \in Nat /\ StopAt \in Nat
      BY <2>2 DEF Planned, ApplyAt, StopAt
    <3> QED
      BY <1>d, <1>e, <1>a, <1>b, <2>1, <2>2, <3>1, <3>2 DEF PlannedFacts, OldUsersMoved, Leaving, StopAt, ApplyAt, Renames, Published, Awaited, Waiting, Counted
  <2> QED
    BY <2>3, <2>4
<1>6. RecoverInv'
  <2> SUFFICES ASSUME mode = "recover" PROVE RecoverFacts'
    BY <1>a DEF RecoverInv
  <2>1. ASSUME DeleteRecovered PROVE RecoverDeleteFacts'
    <3>1. RecoverDeleteFacts /\ IsTail(todo, RecoverDelete) /\ IsTail(todo, RecoverDelete)'
      BY <1>a, <1>b, <2>1, AdvanceRecover DEF RecoverInv, RecoverFacts
    <3>2. /\ Left \in Nat /\ Left' = Left - 1 /\ Left # 6
          /\ Head(todo) = "wait" <=> Left = 5
          /\ Head(todo) = "drain" <=> Left = 4
      BY <1>a, <1>b, <1>c, <3>1, AdvanceRecover, RecoverDeleteHead
    <3> QED
      BY <1>d, <1>e, <1>a, <1>b, <3>1, <3>2 DEF RecoverDeleteFacts, Published, Awaited, Waiting, Counted
  <2> QED
    BY <1>a, <1>b, <2>1, AdvanceRecover DEF RecoverFacts
<1>7. UndoInv'
  BY <1>a, AdvanceUndo DEF UndoInv
<1> QED
  BY <1>1, <1>2, <1>3, <1>4, <1>5, <1>6, <1>7

\* RestoreRoutes, UndoRoutes, RecoverEvacuatedRoutes and UndoControl: routes,
\* and in a rollback the catalog too, change where no account is to stop.
Reverts ==
    /\ Advances
    /\ Head(todo) \in {"restore", "undo_routes", "undo_control", "rec_routes"}
    /\ Head(todo) # "undo_control" => catalog' = catalog
    /\ catalog' \in [Account -> Status] /\ routes' \in Routing
    /\ op' = op
    /\ UNCHANGED <<pub, dataPlane, pending, inflight, late, mv, touched, journal>>

\* A step that moves routes back keeps the invariant: it comes after the stop
\* or outside an operation.
LEMMA RevertsKeeps ==
  ASSUME LifecycleInv, Reverts
  PROVE  LifecycleInv'
<1> USE DEF LifecycleInv
<1>a. Advances /\ op' = op /\ mode' = mode /\ inflight' = inflight /\ journal' = journal
  BY DEF Reverts, Advances
<1>b. /\ minted' = minted /\ snap' = snap
      /\ loaded' = loaded /\ selection' = selection /\ edge' = edge
      /\ pending' = pending /\ late' = late /\ mv' = mv /\ touched' = touched
  BY DEF Reverts, pub, dataPlane
<1>c. Head(todo) \in {"restore", "undo_routes", "undo_control", "rec_routes"}
  BY DEF Reverts
<1>1. StateTypeOK'
  BY <1>a, <1>b DEF StateTypeOK, PublicationTypeOK, OpTypeOK, MoveTypeOK, JournalTypeOK, Reverts
<1>2. GenInv'
  BY <1>b DEF GenInv
<1>3. RunInv'
  BY <1>a, AdvanceRun DEF RunInv
<1>4. DeleteInv'
  <2> SUFFICES ASSUME mode = "run", op.kind = "delete" PROVE FALSE
    BY <1>a DEF DeleteInv
  <2>1. IsTail(todo, DeleteSteps)
    BY <1>a, AdvanceRun DEF DeleteInv, Program
  <2> QED
    BY <1>c, <2>1, DeleteHead
<1>5. PlannedInv'
  <2> SUFFICES ASSUME mode = "run", Planned' PROVE PlannedFacts'
    BY <1>a DEF PlannedInv
  <2>1. Left \in Nat /\ Left' = Left - 1 /\ IsTail(todo, Program) /\ RunFacts
    BY <1>a, AdvanceRun DEF RunInv
  <2>2. Planned /\ PlannedFacts
    BY <1>a, <2>1, RunHead DEF Planned, PlannedInv, RunFacts
  <2>3. Left < StopAt
    BY <1>c, <2>1, <2>2, UpdateHead, ClearHead, PlainUpdateHead, PlainClearHead
       DEF Planned, Program, StopAt
  <2>4. StopAt \in Nat /\ StopAt' = StopAt
    BY <1>a DEF StopAt
  <2> QED
    BY <1>a, <1>b, <2>1, <2>2, <2>3, <2>4 DEF PlannedFacts, Renames
<1>6. RecoverInv'
  <2> SUFFICES ASSUME mode = "recover" PROVE RecoverFacts'
    BY <1>a DEF RecoverInv
  <2>1. Head(todo) = "rec_routes" /\ catalog' = catalog
    <3>1. Head(todo) \in RecoverStep
      BY TailShorter DEF RecoverInv, RecoverFacts
    <3> QED
      BY <1>c, <3>1 DEF RecoverStep, Reverts
  <2>2. ~DeleteRecovered
    BY <1>a, <2>1, AdvanceRecover, RecoverDeleteHead
  <2> QED
    BY <1>a, <2>1, <2>2, AdvanceRecover DEF RecoverFacts
<1>7. UndoInv'
  BY <1>a, AdvanceUndo DEF UndoInv
<1> QED
  BY <1>1, <1>2, <1>3, <1>4, <1>5, <1>6, <1>7

\* Moving the planned users keeps the invariant: afterwards nobody is routed
\* to the account but by the failover worker.
LEMMA ApplyEvacuationKeeps ==
  ASSUME LifecycleInv, ApplyEvacuation
  PROVE  LifecycleInv'
<1> USE DEF LifecycleInv
<1>a. /\ Advances /\ op' = op /\ mode' = mode /\ inflight' = inflight
      /\ journal' = journal /\ Head(todo) = "apply"
  BY DEF ApplyEvacuation, At, Done, Kept, Advances, Busy
<1>b. /\ minted' = minted /\ snap' = snap /\ catalog' = catalog
      /\ loaded' = loaded /\ selection' = selection /\ edge' = edge
      /\ pending' = pending /\ late' = late /\ mv' = mv /\ touched' = touched
  BY DEF ApplyEvacuation, Kept, pub, dataPlane, ApplyRoutesExpected
<1>c. routes' = [u \in User |-> IF op.plan[u] # NoAccount THEN op.plan[u] ELSE routes[u]]
  BY DEF ApplyEvacuation, ApplyRoutesExpected, InPlan
<1>d. mode = "run"
  <2>1. mode = "recover" => Head(todo) \in RecoverStep
    BY TailShorter DEF RecoverInv, RecoverFacts
  <2>2. mode = "undo" => Head(todo) \in UndoStep
    BY TailShorter DEF UndoInv, UndoFacts
  <2> QED
    BY <1>a, <2>1, <2>2 DEF RecoverStep, UndoStep, Advances, Busy
<1>1. StateTypeOK'
  <2>1. routes' \in Routing
    BY <1>c DEF StateTypeOK, PublicationTypeOK, OpTypeOK, Routing
  <2> QED
    BY <1>a, <1>b, <2>1 DEF StateTypeOK, PublicationTypeOK, OpTypeOK, MoveTypeOK, JournalTypeOK
<1>2. GenInv'
  BY <1>b DEF GenInv
<1>3. RunInv'
  BY <1>a, AdvanceRun DEF RunInv
<1>4. DeleteInv'
  <2> SUFFICES ASSUME op.kind = "delete" PROVE FALSE
    BY <1>a DEF DeleteInv
  <2>1. IsTail(todo, DeleteSteps)
    BY <1>a, <1>d, AdvanceRun DEF DeleteInv, Program
  <2> QED
    BY <1>a, <2>1, DeleteHead
<1>5. PlannedInv'
  <2> SUFFICES ASSUME Planned' PROVE PlannedFacts'
    BY <1>a DEF PlannedInv
  <2>1. Left \in Nat /\ Left' = Left - 1 /\ IsTail(todo, Program) /\ RunFacts
    BY <1>a, <1>d, AdvanceRun DEF RunInv
  <2>2. Planned /\ PlannedFacts
    BY <1>a, <1>d, <2>1, RunHead DEF Planned, PlannedInv, RunFacts
  <2>3. Left = ApplyAt
    BY <1>a, <2>1, <2>2, UpdateHead, ClearHead, PlainUpdateHead, PlainClearHead
       DEF Planned, Program, ApplyAt
  <2>4. /\ StopAt \in Nat /\ StopAt' = StopAt /\ ApplyAt \in Nat /\ ApplyAt' = ApplyAt
        /\ ApplyAt >= StopAt
    BY <1>a DEF StopAt, ApplyAt
  <2>5. OldUsersMoved'
    BY <1>a, <1>b, <1>c, <2>1, <2>2, <2>3, <2>4 DEF PlannedFacts, OldUsersMoved
  <2>6. Leaving'
    BY <2>1, <2>3, <2>4 DEF Leaving
  <2> QED
    BY <1>a, <1>b, <2>2, <2>5, <2>6 DEF PlannedFacts, Renames
<1>6. RecoverInv' /\ UndoInv'
  BY <1>a, <1>d DEF RecoverInv, UndoInv
<1> QED
  BY <1>1, <1>2, <1>3, <1>4, <1>5, <1>6

\* The recovered deletion is in the store.
LEMMA RecoveredGone ==
  ASSUME LifecycleInv, mode = "recover", DeleteRecovered
  PROVE  op.acct \in Account /\ catalog[op.acct] = "absent"
<1>1. op.kind = journal.kind /\ op.acct = journal.acct /\ op.new = journal.new
  BY DEF LifecycleInv, RecoverInv, RecoverFacts
<1>2. journal.kind = "delete" /\ Desired = NoAccount
  BY <1>1 DEF DeleteRecovered
<1>3. journal.acct \in Account /\ journal.new \in Account
  BY <1>2 DEF LifecycleInv, StateTypeOK, JournalTypeOK
<1>4. journal.acct # NoAccount /\ journal.new # NoAccount
  BY <1>3, NoAccountNot
<1>5. ~Exists(journal.acct)
  BY <1>2, <1>4 DEF Desired
<1> QED
  BY <1>1, <1>3, <1>5 DEF Exists

\* What a publication says of a user whose route does not lead to an account
\* that serves.
LEMMA NotServed ==
  ASSUME NEW u \in User, NEW a \in Account,
         catalog \in [Account -> Status],
         routes[u] # a \/ catalog[a] = "absent"
  PROVE  Build[u] # a
  BY NoAccountNot DEF Build, Served

\* Publishing keeps the invariant: the new snapshot names the account for
\* nobody who has been moved.
LEMMA PublishKeeps ==
  ASSUME LifecycleInv, PublishAuthSnapshot
  PROVE  LifecycleInv'
<1> USE DEF LifecycleInv
<1>a. /\ op' = [op EXCEPT !.awaited = minted'] /\ mode' = mode /\ inflight' = inflight
      /\ journal' = journal /\ Head(todo) = "publish"
  BY DEF PublishAuthSnapshot, At, Kept
<1>b. /\ catalog' = catalog /\ routes' = routes
      /\ loaded' = loaded /\ selection' = selection /\ edge' = edge
      /\ pending' = pending /\ mv' = mv /\ touched' = touched
  BY DEF PublishAuthSnapshot, Kept, store, dataPlane
<1>c. /\ minted' = minted + 1 /\ snap'.gen = minted + 1
      /\ snap' = [gen |-> minted + 1, view |-> Build] /\ snap'.view = Build
  BY DEF PublishAuthSnapshot, WriteSnapshot
<1>d. /\ op'.kind = op.kind /\ op'.acct = op.acct /\ op'.new = op.new
      /\ op'.status = op.status /\ op'.repair = op.repair /\ op'.fallback = op.fallback
      /\ op'.plan = op.plan /\ op'.before = op.before /\ op'.changed = op.changed
      /\ op'.awaited = minted + 1 /\ DOMAIN op' = OpFields
  BY <1>a, <1>c DEF StateTypeOK, OpTypeOK, OpFields
<1>e. Advances
  BY <1>a, <1>d DEF PublishAuthSnapshot, At, Done, Advances, Busy
<1>f. /\ minted \in Nat /\ loaded[edge].gen \in Nat /\ loaded[edge].gen <= minted
      /\ catalog \in [Account -> Status] /\ routes \in Routing /\ Build \in Routing
  <2>1. loaded[edge].gen \in Nat /\ snap.gen \in Nat
    BY DEF StateTypeOK, PublicationTypeOK, Snapshot
  <2>2. Build \in Routing
    BY DEF Build, Served, Routing, Target
  <2> QED
    BY <2>1, <2>2 DEF StateTypeOK, PublicationTypeOK, GenInv
<1>1. StateTypeOK'
  <2>1. PublicationTypeOK'
    BY <1>b, <1>c, <1>f DEF StateTypeOK, PublicationTypeOK, Snapshot
  <2>2. OpTypeOK'
    BY <1>d, <1>f DEF StateTypeOK, OpTypeOK
  <2> QED
    BY <1>a, <1>b, <2>1, <2>2 DEF StateTypeOK, MoveTypeOK, JournalTypeOK
<1>2. GenInv'
  BY <1>b, <1>c, <1>f DEF GenInv
<1>3. RunInv'
  BY <1>a, <1>e, AdvanceRun DEF RunInv
<1>4. DeleteInv'
  <2> SUFFICES ASSUME mode = "run", op.kind = "delete" PROVE DeleteFacts'
    BY <1>a, <1>d DEF DeleteInv
  <2>1. DeleteFacts /\ Left' = Left - 1 /\ IsTail(todo, DeleteSteps)
    BY <1>e, AdvanceRun DEF DeleteInv, Program
  <2>2. Left = 7
    BY <1>a, <2>1, DeleteHead
  <2>3. op.acct \in Account /\ catalog[op.acct] = "absent"
    BY <2>1, <2>2 DEF RunInv, RunFacts, DeleteFacts
  <2>4. ASSUME NEW u \in User PROVE Published(u, op.acct)'
    BY <1>b, <1>c, <1>d, <1>f, <2>3, NotServed DEF Published, Awaited
  <2> QED
    BY <1>b, <1>d, <2>1, <2>2, <2>3, <2>4 DEF DeleteFacts
<1>5. PlannedInv'
  <2> SUFFICES ASSUME mode = "run", Planned' PROVE PlannedFacts'
    BY <1>a DEF PlannedInv
  <2>1. Left \in Nat /\ Left' = Left - 1 /\ IsTail(todo, Program) /\ RunFacts
    BY <1>e, AdvanceRun DEF RunInv
  <2>2. Planned /\ PlannedFacts
    BY <1>d, <2>1, RunHead DEF Planned, PlannedInv, RunFacts
  <2>3. Left < StopAt \/ Left = ApplyAt - 1
    BY <1>a, <2>1, <2>2, UpdateHead, ClearHead, PlainUpdateHead, PlainClearHead
       DEF Planned, Program, ApplyAt, StopAt
  <2>4. /\ StopAt \in Nat /\ StopAt' = StopAt /\ ApplyAt \in Nat /\ ApplyAt' = ApplyAt
        /\ ApplyAt >= StopAt
    BY <1>d DEF StopAt, ApplyAt
  <2>5. ASSUME Left >= StopAt PROVE OldUsersMoved' /\ Leaving'
    <3>1. Left = ApplyAt - 1 /\ OldUsersMoved /\ op.acct \in Account
      BY <2>1, <2>2, <2>3, <2>4, <2>5 DEF PlannedFacts, RunFacts
    <3>2. OldUsersMoved'
      BY <1>b, <1>d, <2>1, <2>4, <3>1 DEF OldUsersMoved
    <3>3. ASSUME NEW u \in User, u \notin touched PROVE Published(u, op.acct)'
      <4>1. routes[u] # op.acct
        BY <2>1, <2>4, <3>1, <3>3 DEF OldUsersMoved
      <4> QED
        BY <1>b, <1>c, <1>d, <1>f, <3>1, <4>1, NotServed DEF Published, Awaited
    <3>4. Leaving'
      BY <1>b, <1>d, <2>1, <2>4, <3>1, <3>3 DEF Leaving
    <3> QED
      BY <3>2, <3>4
  <2> QED
    BY <1>b, <1>d, <2>1, <2>2, <2>4, <2>5 DEF PlannedFacts, Renames
<1>6. RecoverInv'
  <2> SUFFICES ASSUME mode = "recover" PROVE RecoverFacts'
    BY <1>a DEF RecoverInv
  <2>1. ASSUME DeleteRecovered PROVE RecoverDeleteFacts'
    <3>1. RecoverDeleteFacts /\ IsTail(todo, RecoverDelete) /\ IsTail(todo, RecoverDelete)'
      BY <1>b, <1>e, <2>1, AdvanceRecover DEF RecoverInv, RecoverFacts
    <3>2. Left' = Left - 1 /\ Left = 6
      BY <1>a, <1>b, <1>e, <3>1, AdvanceRecover, RecoverDeleteHead
    <3>3. op.acct \in Account /\ catalog[op.acct] = "absent"
      BY <2>1, RecoveredGone
    <3>4. ASSUME NEW u \in User PROVE Published(u, op.acct)'
      BY <1>b, <1>c, <1>d, <1>f, <3>3, NotServed DEF Published, Awaited
    <3> QED
      BY <1>d, <3>1, <3>2, <3>4 DEF RecoverDeleteFacts
  <2> QED
    BY <1>b, <1>e, <2>1, AdvanceRecover DEF RecoverFacts
<1>7. UndoInv'
  BY <1>a, <1>e, AdvanceUndo DEF UndoInv
<1> QED
  BY <1>1, <1>2, <1>3, <1>4, <1>5, <1>6, <1>7

\* A step that no rollback and no recovery takes is one of an operation.
LEMMA OnlyRun ==
  ASSUME LifecycleInv, Busy, Head(todo) \notin RecoverStep, Head(todo) \notin UndoStep
  PROVE  mode = "run"
<1>1. mode = "recover" => Head(todo) \in RecoverStep
  BY TailShorter DEF LifecycleInv, RecoverInv, RecoverFacts
<1>2. mode = "undo" => Head(todo) \in UndoStep
  BY TailShorter DEF LifecycleInv, UndoInv, UndoFacts
<1> QED
  BY <1>1, <1>2 DEF Busy

\* Changing the account row keeps the invariant: a deletion takes the row,
\* and the routes it moves leave the account.
LEMMA ControlKeeps ==
  ASSUME LifecycleInv, ApplyControl
  PROVE  LifecycleInv'
<1> USE DEF LifecycleInv
<1> DEFINE Chosen(a) == [u \in User |-> IF u \in Rerouted THEN a ELSE NoAccount]
<1>0. PICK a \in NewRoutes :
        /\ routes' = [u \in User |-> IF u \in Rerouted THEN a ELSE routes[u]]
        /\ op' = [op EXCEPT !.changed = Chosen(a)]
  BY DEF ApplyControl
<1>a. /\ mode' = mode /\ inflight' = inflight
      /\ journal' = journal /\ Head(todo) = "control"
      /\ catalog' = [catalog EXCEPT ![op.acct] = "absent", ![op.new] = op.status]
  BY DEF ApplyControl, At, Kept
<1>b. /\ minted' = minted /\ snap' = snap
      /\ loaded' = loaded /\ selection' = selection /\ edge' = edge
      /\ pending' = pending /\ late' = late /\ mv' = mv /\ touched' = touched
  BY DEF ApplyControl, Kept, pub, dataPlane
<1> HIDE DEF Chosen
<1>c. /\ op'.kind = op.kind /\ op'.acct = op.acct /\ op'.new = op.new
      /\ op'.status = op.status /\ op'.repair = op.repair /\ op'.fallback = op.fallback
      /\ op'.plan = op.plan /\ op'.before = op.before /\ op'.changed = Chosen(a)
      /\ op'.awaited = op.awaited /\ DOMAIN op' = OpFields
  BY <1>0 DEF StateTypeOK, OpTypeOK, OpFields
<1>d. Advances
  BY <1>a, <1>c DEF ApplyControl, At, Done, Advances, Busy
<1>e. mode = "run" /\ RunFacts /\ op.acct \in Account
  BY <1>a, <1>d, OnlyRun DEF RecoverStep, UndoStep, Advances, RunInv, RunFacts
<1>f. a \in Target
  BY <1>0, <1>e DEF NewRoutes, Fallbacks, Target, RunFacts
<1>1. StateTypeOK'
  <2>1. routes' \in Routing /\ Chosen(a) \in Routing
    BY <1>0, <1>f DEF StateTypeOK, PublicationTypeOK, Routing, Chosen, Target
  <2>2. catalog' \in [Account -> Status]
    BY <1>a DEF StateTypeOK, PublicationTypeOK, OpTypeOK, Status
  <2>3. PublicationTypeOK'
    BY <1>b, <2>1, <2>2 DEF StateTypeOK, PublicationTypeOK
  <2>4. OpTypeOK'
    BY <1>c, <2>1 DEF StateTypeOK, OpTypeOK
  <2> QED
    BY <1>a, <1>b, <2>3, <2>4 DEF StateTypeOK, MoveTypeOK, JournalTypeOK
<1>2. GenInv'
  BY <1>b DEF GenInv
<1>3. RunInv'
  BY <1>d, <1>e, AdvanceRun DEF RunInv
<1>4. DeleteInv'
  <2> SUFFICES ASSUME op.kind = "delete" PROVE DeleteFacts'
    BY <1>c DEF DeleteInv
  <2>1. DeleteFacts /\ Left' = Left - 1 /\ IsTail(todo, DeleteSteps)
    BY <1>d, <1>e, AdvanceRun DEF DeleteInv, Program
  <2>2. Left = 13
    BY <1>a, <2>1, DeleteHead
  <2>3. catalog'[op.acct] = "absent"
    BY <1>a, <1>e, <2>1 DEF DeleteFacts, StateTypeOK, PublicationTypeOK
  <2> QED
    BY <1>c, <2>1, <2>2, <2>3 DEF DeleteFacts
<1>5. PlannedInv'
  <2> SUFFICES ASSUME Planned' PROVE PlannedFacts'
    BY DEF PlannedInv
  <2>1. Left \in Nat /\ Left' = Left - 1 /\ IsTail(todo, Program) /\ RunFacts
    BY <1>d, <1>e, AdvanceRun DEF RunInv
  <2>2. Planned /\ PlannedFacts
    BY <1>c, <1>e, <2>1, RunHead DEF Planned, PlannedInv, RunFacts
  <2>3. Left = 14 /\ op.kind = "update"
    BY <1>a, <2>1, <2>2, UpdateHead, ClearHead, PlainUpdateHead, PlainClearHead
       DEF Planned, Program
  <2>4. StopAt = 8 /\ StopAt' = 8 /\ ApplyAt = 21 /\ ApplyAt' = 21
    BY <1>c, <2>3 DEF StopAt, ApplyAt
  <2>5. OldUsersMoved /\ Leaving
    BY <2>2, <2>3, <2>4 DEF PlannedFacts
  <2>6. ASSUME NEW u \in User, u \in Rerouted PROVE a # op.acct
    BY <1>0, <2>6 DEF NewRoutes, Fallbacks, Rerouted
  <2>7. OldUsersMoved'
    BY <1>0, <1>b, <1>c, <2>1, <2>3, <2>4, <2>5, <2>6 DEF OldUsersMoved
  <2>8. Leaving'
    BY <1>a, <1>b, <1>c, <2>1, <2>3, <2>4, <2>5 DEF Leaving, Published, Awaited, Waiting, Counted
  <2>9. ASSUME ~Renames, NEW u \in User, op'.changed[u] # NoAccount PROVE u \in touched
    <3>1. u \in Rerouted
      BY <1>c, <2>9 DEF Chosen
    <3>2. routes[u] = op.acct
      BY <2>9, <3>1 DEF Rerouted, RoutedTo, Renames
    <3> QED
      BY <2>3, <2>4, <2>5, <3>2 DEF OldUsersMoved
  <2> QED
    BY <1>b, <1>c, <2>2, <2>7, <2>8, <2>9 DEF PlannedFacts, Renames
<1>6. RecoverInv' /\ UndoInv'
  BY <1>a, <1>e DEF RecoverInv, UndoInv
<1> QED
  BY <1>1, <1>2, <1>3, <1>4, <1>5, <1>6

\* A program is a tail of itself.
LEMMA WholeProgram ==
  ASSUME NEW P \in Seq(Step), Len(P) >= 1
  PROVE  IsTail(P, P)
  BY DEF IsTail

\* The programs that follow a plan, and their lengths.
LEMMA ProgramLengths ==
  /\ MovingUpdate \in Seq(Step) /\ Len(MovingUpdate) = 22
  /\ PlainUpdate \in Seq(Step) /\ Len(PlainUpdate) = 18
  /\ MovingClear \in Seq(Step) /\ Len(MovingClear) = 14
  /\ PlainClear \in Seq(Step) /\ Len(PlainClear) = 8
<1>1. MovingUpdate \in Seq(Step) /\ Len(MovingUpdate) = 22
  BY DEF MovingUpdate, AfterPlan, Evacuation, UpdateSteps, Step, Phase
<1>2. PlainUpdate \in Seq(Step) /\ Len(PlainUpdate) = 18
  BY DEF PlainUpdate, AfterPlan, Evacuation, UpdateSteps, Step, Phase
<1>3. MovingClear \in Seq(Step) /\ Len(MovingClear) = 14
  BY DEF MovingClear, AfterPlan, Evacuation, ClearAuthSteps, Step, Phase
<1>4. PlainClear \in Seq(Step) /\ Len(PlainClear) = 8
  BY DEF PlainClear, AfterPlan, Evacuation, ClearAuthSteps, Step, Phase
<1> QED
  BY <1>1, <1>2, <1>3, <1>4

\* Which program follows a plan.
LEMMA ProgramIs ==
  /\ op.kind = "update" /\ op.plan = NoPlan => Program = PlainUpdate
  /\ op.kind = "update" /\ op.plan # NoPlan => Program = MovingUpdate
  /\ op.kind = "clear_auth" /\ op.plan = NoPlan => Program = PlainClear
  /\ op.kind = "clear_auth" /\ op.plan # NoPlan => Program = MovingClear
  BY DEF Program, Empty

\* Planning the evacuation keeps the invariant: every user of the account is
\* in the plan, and the program that follows moves them.
LEMMA PlanKeeps ==
  ASSUME LifecycleInv, PlanEvacuation
  PROVE  LifecycleInv'
<1> USE DEF LifecycleInv
<1> DEFINE Spread(f) == [u \in User |-> IF routes[u] = op.acct THEN f ELSE NoAccount]
<1>0. PICK f \in Fallbacks(op.acct) \cup {NoAccount} :
        /\ NeedsFallback <=> f # NoAccount
        /\ op' = [op EXCEPT !.fallback = f, !.plan = Spread(f)]
  BY DEF PlanEvacuation
<1>a. /\ mode' = mode /\ inflight' = inflight /\ journal' = journal /\ Head(todo) = "plan"
      /\ Busy
  BY DEF PlanEvacuation, At, Kept
<1>b. /\ minted' = minted /\ snap' = snap /\ catalog' = catalog /\ routes' = routes
      /\ loaded' = loaded /\ selection' = selection /\ edge' = edge
      /\ pending' = pending /\ late' = late /\ mv' = mv /\ touched' = touched
  BY DEF PlanEvacuation, Kept, pub, store, dataPlane
<1> HIDE DEF Spread
<1>c. /\ op'.kind = op.kind /\ op'.acct = op.acct /\ op'.new = op.new
      /\ op'.status = op.status /\ op'.repair = op.repair /\ op'.fallback = f
      /\ op'.plan = Spread(f) /\ op'.before = op.before /\ op'.changed = op.changed
      /\ op'.awaited = op.awaited /\ DOMAIN op' = OpFields
  BY <1>0 DEF StateTypeOK, OpTypeOK, OpFields
<1>d. mode = "run" /\ RunFacts
  BY <1>a, OnlyRun DEF RecoverStep, UndoStep, RunInv
<1>e. /\ op.kind \in {"update", "clear_auth"} /\ ~op.repair
      /\ op.changed = NoPlan /\ op.acct \in Account /\ op.kind \in Kind
  BY <1>a, <1>d, RunHead DEF RunFacts
<1>f. f \in Target /\ f # op.acct
  BY <1>0, <1>e, NoAccountNot DEF Fallbacks, Target
<1>g. Spread(f) \in Routing
  BY <1>f DEF Spread, Routing, Target
<1>h. todo' = AfterPlan(op.kind, op'.plan = NoPlan)
  BY DEF PlanEvacuation
<1>i. todo' = Program'
  <2>1. CASE op.kind = "update"
    BY <1>c, <1>h, <2>1 DEF Program, Empty, MovingUpdate, PlainUpdate, AfterPlan
  <2>2. CASE op.kind = "clear_auth"
    BY <1>c, <1>h, <2>2 DEF Program, Empty, MovingClear, PlainClear, AfterPlan
  <2> QED
    BY <1>e, <2>1, <2>2
<1>j. \/ op.kind = "update" /\ op'.plan = NoPlan /\ todo' = PlainUpdate
      \/ op.kind = "update" /\ op'.plan # NoPlan /\ todo' = MovingUpdate
      \/ op.kind = "clear_auth" /\ op'.plan = NoPlan /\ todo' = PlainClear
      \/ op.kind = "clear_auth" /\ op'.plan # NoPlan /\ todo' = MovingClear
  <2>1. /\ (op.kind = "update" /\ op.plan = NoPlan => Program = PlainUpdate)'
        /\ (op.kind = "update" /\ op.plan # NoPlan => Program = MovingUpdate)'
        /\ (op.kind = "clear_auth" /\ op.plan = NoPlan => Program = PlainClear)'
        /\ (op.kind = "clear_auth" /\ op.plan # NoPlan => Program = MovingClear)'
    BY ProgramIs, PTL
  <2> QED
    BY <1>c, <1>e, <1>i, <2>1
<1>1. StateTypeOK'
  <2>1. OpTypeOK'
    BY <1>c, <1>f, <1>g DEF StateTypeOK, OpTypeOK
  <2> QED
    BY <1>a, <1>b, <2>1 DEF StateTypeOK, MoveTypeOK, JournalTypeOK, PublicationTypeOK
<1>2. GenInv'
  BY <1>b DEF GenInv
<1>3. IsTail(todo, Program)'
  <2>1. todo' \in Seq(Step) /\ Len(todo') >= 1
    <3>1. todo' \in {PlainUpdate, MovingUpdate, PlainClear, MovingClear}
      BY <1>j
    <3>2. CASE todo' = PlainUpdate
      BY <3>2, ProgramLengths
    <3>3. CASE todo' = MovingUpdate
      BY <3>3, ProgramLengths
    <3>4. CASE todo' = PlainClear
      BY <3>4, ProgramLengths
    <3>5. CASE todo' = MovingClear
      BY <3>5, ProgramLengths
    <3> QED
      BY <3>1, <3>2, <3>3, <3>4, <3>5
  <2>2. IsTail(todo', todo')
    BY <2>1, WholeProgram
  <2> QED
    BY <1>i, <2>2 DEF IsTail
<1>4. RunInv'
  BY <1>c, <1>d, <1>e, <1>3 DEF RunInv, RunFacts
<1>5. DeleteInv'
  BY <1>c, <1>e DEF DeleteInv
<1>6. PlannedInv'
  <2> SUFFICES ASSUME Planned' PROVE PlannedFacts'
    BY DEF PlannedInv
  <2>1. \A u \in User : op'.plan[u] # op'.acct
    BY <1>c, <1>e, <1>f, NoAccountNot DEF Spread
  <2>2. \A u \in User : op'.changed[u] = NoAccount
    BY <1>c, <1>e DEF NoPlan
  <2>3. ASSUME NEW u \in User, routes[u] = op.acct PROVE op'.plan[u] # NoAccount
    BY <1>0, <1>c, <2>3 DEF Spread, NeedsFallback, RoutedTo
  <2>4. ASSUME op'.plan # NoPlan PROVE Left' \in Nat /\ Left' >= ApplyAt' /\ ApplyAt' \in Nat
    <3>1. CASE op.kind = "update"
      <4>1. todo' = MovingUpdate /\ ApplyAt' = 21
        BY <1>c, <1>j, <2>4, <3>1 DEF ApplyAt
      <4> QED
        BY <4>1, ProgramLengths DEF Left
    <3>2. CASE op.kind = "clear_auth"
      <4>1. todo' = MovingClear /\ ApplyAt' = 13
        BY <1>c, <1>j, <2>4, <3>2 DEF ApplyAt
      <4> QED
        BY <4>1, ProgramLengths DEF Left
    <3> QED
      BY <1>e, <3>1, <3>2
  <2>5. ASSUME NEW u \in User, op'.plan[u] # NoAccount PROVE op'.plan # NoPlan
    BY <2>5 DEF NoPlan
  <2>6. OldUsersMoved'
    BY <1>b, <1>c, <2>3, <2>4, <2>5 DEF OldUsersMoved
  <2>7. Leaving'
    BY <2>4, <2>5 DEF Leaving
  <2> QED
    BY <2>1, <2>2, <2>6, <2>7 DEF PlannedFacts
<1>7. RecoverInv' /\ UndoInv'
  BY <1>a, <1>d DEF RecoverInv, UndoInv
<1> QED
  BY <1>1, <1>2, <1>4, <1>5, <1>6, <1>7

\* What beginOperation does to the state the invariant speaks of.
LEMMA BeginKeeps ==
  ASSUME LifecycleInv, NEW request, NEW steps, Begin(request, steps),
         DOMAIN request = OpFields, request.kind \in Kind,
         request.acct \in Account, request.new \in Account,
         request.status \in Status, request.before \in Status,
         request.fallback \in Target, request.awaited \in Nat,
         request.plan = NoPlan, request.changed = NoPlan
  PROVE  /\ op' = request /\ todo' = steps /\ mode' = "run"
         /\ StateTypeOK' /\ GenInv' /\ RecoverInv' /\ UndoInv'
<1> USE DEF LifecycleInv
<1>1. op' = request /\ todo' = steps /\ mode' = "run"
  BY DEF Begin
<1>2. /\ minted' = minted /\ snap' = snap /\ catalog' = catalog /\ routes' = routes
      /\ loaded' = loaded /\ selection' = selection /\ edge' = edge /\ mv' = mv
  BY DEF Begin, pub, store, dataPlane
<1>3. NoPlan \in Routing
  BY DEF NoPlan, Routing, Target
<1>4. OpTypeOK'
  BY <1>1, <1>3 DEF OpTypeOK, Target
<1>5. JournalTypeOK'
  <2>1. journal' = [NoJournal EXCEPT !.kind = request.kind, !.acct = request.acct,
                                     !.new = request.new]
    BY DEF Begin
  <2>2. /\ DOMAIN journal' = JournalFields /\ journal'.kind = request.kind
        /\ journal'.acct = request.acct /\ journal'.new = request.new
        /\ journal'.evac = NoPlan
    BY <2>1 DEF NoJournal, JournalFields
  <2> QED
    BY <1>3, <2>2 DEF JournalTypeOK, Target
<1>6. StateTypeOK'
  BY <1>1, <1>2, <1>4, <1>5 DEF StateTypeOK, PublicationTypeOK, MoveTypeOK
<1>7. GenInv'
  BY <1>2 DEF GenInv
<1>8. RecoverInv' /\ UndoInv'
  BY <1>1 DEF RecoverInv, UndoInv
<1> QED
  BY <1>1, <1>6, <1>7, <1>8

\* The fields of a request for an account.
LEMMA RequestFields ==
  ASSUME StateTypeOK, NEW kind, NEW a \in Account
  PROVE  LET r == Request(kind, a) IN
         /\ DOMAIN r = OpFields /\ r.kind = kind /\ r.acct = a /\ r.new = a
         /\ r.status \in Status /\ r.before \in Status /\ r.fallback = NoAccount
         /\ r.plan = NoPlan /\ r.changed = NoPlan /\ r.awaited = 0 /\ r.repair = FALSE
  BY DEF Request, NoOp, OpFields, StateTypeOK, PublicationTypeOK

\* Starting a creation keeps the invariant.
LEMMA CreateKeeps ==
  ASSUME LifecycleInv, NEW a \in Account, NEW isCustom \in BOOLEAN, Create(a, isCustom)
  PROVE  LifecycleInv'
<1> DEFINE r == Request("create", a)
           request == [r EXCEPT !.custom = isCustom, !.key = isCustom, !.status = "enabled"]
<1>1. Begin(request, CreateSteps)
  BY DEF Create
<1>2. /\ DOMAIN r = OpFields /\ r.kind = "create" /\ r.acct = a /\ r.new = a
      /\ r.status \in Status /\ r.before \in Status /\ r.fallback = NoAccount
      /\ r.plan = NoPlan /\ r.changed = NoPlan /\ r.awaited = 0 /\ r.repair = FALSE
  BY RequestFields DEF LifecycleInv
<1> HIDE DEF r
<1>3. /\ DOMAIN request = OpFields /\ request.kind = "create"
      /\ request.acct = a /\ request.new = a
      /\ request.status = "enabled" /\ request.before \in Status
      /\ request.fallback = NoAccount /\ request.awaited = 0
      /\ request.plan = NoPlan /\ request.changed = NoPlan /\ request.repair = FALSE
  BY <1>2 DEF OpFields
<1> HIDE DEF request
<1>4. /\ op' = request /\ todo' = CreateSteps /\ mode' = "run"
      /\ StateTypeOK' /\ GenInv' /\ RecoverInv' /\ UndoInv'
  BY <1>1, <1>3, BeginKeeps DEF Kind, Status, Target
<1>5. IsTail(todo, Program)'
  BY <1>3, <1>4 DEF IsTail, Program, CreateSteps, Step, Phase
<1>6. RunInv'
  BY <1>3, <1>4, <1>5 DEF RunInv, RunFacts, Kind
<1>7. DeleteInv' /\ PlannedInv'
  BY <1>3, <1>4 DEF DeleteInv, PlannedInv, Planned
<1> QED
  BY <1>4, <1>6, <1>7 DEF LifecycleInv

\* Starting an update keeps the invariant.
LEMMA UpdateKeeps ==
  ASSUME LifecycleInv, NEW a \in Account, NEW new \in Account,
         NEW status \in {"enabled", "disabled"}, NEW proxy \in Proxies,
         Update(a, new, status, proxy)
  PROVE  LifecycleInv'
<1> DEFINE r == Request("update", a)
           request == [r EXCEPT !.new = new, !.status = status, !.custom = proxy.custom,
                                !.key = proxy.key]
<1>1. Begin(request, <<"plan">>)
  BY DEF Update
<1>2. /\ DOMAIN r = OpFields /\ r.kind = "update" /\ r.acct = a /\ r.new = a
      /\ r.status \in Status /\ r.before \in Status /\ r.fallback = NoAccount
      /\ r.plan = NoPlan /\ r.changed = NoPlan /\ r.awaited = 0 /\ r.repair = FALSE
  BY RequestFields DEF LifecycleInv
<1> HIDE DEF r
<1>3. /\ DOMAIN request = OpFields /\ request.kind = "update"
      /\ request.acct = a /\ request.new = new
      /\ request.status = status /\ request.before \in Status
      /\ request.fallback = NoAccount /\ request.awaited = 0
      /\ request.plan = NoPlan /\ request.changed = NoPlan /\ request.repair = FALSE
  BY <1>2 DEF OpFields
<1> HIDE DEF request
<1>4. /\ op' = request /\ todo' = <<"plan">> /\ mode' = "run"
      /\ StateTypeOK' /\ GenInv' /\ RecoverInv' /\ UndoInv'
  BY <1>1, <1>3, BeginKeeps DEF Kind, Status, Target
<1>5. Planning'
  BY <1>4 DEF Planning
<1>6. RunInv'
  BY <1>3, <1>4, <1>5 DEF RunInv, RunFacts, Kind
<1>7. DeleteInv' /\ PlannedInv'
  BY <1>3, <1>4, <1>5 DEF DeleteInv, PlannedInv, Planned
<1> QED
  BY <1>4, <1>6, <1>7 DEF LifecycleInv

\* Starting the repair of a proxy keeps the invariant.
LEMMA RepairKeeps ==
  ASSUME LifecycleInv, NEW a \in Account, Repair(a)
  PROVE  LifecycleInv'
<1> DEFINE r == Request("update", a)
           request == [r EXCEPT !.repair = TRUE, !.custom = TRUE, !.key = TRUE]
<1>1. Begin(request, PlainUpdate)
  BY DEF Repair, PlainUpdate
<1>2. /\ DOMAIN r = OpFields /\ r.kind = "update" /\ r.acct = a /\ r.new = a
      /\ r.status \in Status /\ r.before \in Status /\ r.fallback = NoAccount
      /\ r.plan = NoPlan /\ r.changed = NoPlan /\ r.awaited = 0 /\ r.repair = FALSE
  BY RequestFields DEF LifecycleInv
<1> HIDE DEF r
<1>3. /\ DOMAIN request = OpFields /\ request.kind = "update"
      /\ request.acct = a /\ request.new = a
      /\ request.status \in Status /\ request.before \in Status
      /\ request.fallback = NoAccount /\ request.awaited = 0
      /\ request.plan = NoPlan /\ request.changed = NoPlan /\ request.repair = TRUE
  BY <1>2 DEF OpFields
<1> HIDE DEF request
<1>4. /\ op' = request /\ todo' = PlainUpdate /\ mode' = "run"
      /\ StateTypeOK' /\ GenInv' /\ RecoverInv' /\ UndoInv'
  BY <1>1, <1>3, BeginKeeps DEF Kind, Target
<1>5. IsTail(todo, Program)'
  <2>1. IsTail(PlainUpdate, PlainUpdate)
    <3>1. PlainUpdate \in Seq(Step) /\ Len(PlainUpdate) >= 1
      BY ProgramLengths
    <3> QED
      BY <3>1, WholeProgram
  <2>2. (op.kind = "update" /\ op.plan = NoPlan => Program = PlainUpdate)'
    BY ProgramIs, PTL
  <2>3. Program' = todo'
    BY <1>3, <1>4, <2>2
  <2> QED
    BY <1>4, <2>1, <2>3 DEF IsTail
<1>6. RunInv'
  BY <1>3, <1>4, <1>5 DEF RunInv, RunFacts, Kind
<1>7. DeleteInv' /\ PlannedInv'
  BY <1>3, <1>4 DEF DeleteInv, PlannedInv, Planned
<1> QED
  BY <1>4, <1>6, <1>7 DEF LifecycleInv

\* Starting a deletion keeps the invariant.
LEMMA DeleteKeeps ==
  ASSUME LifecycleInv, NEW a \in Account, Delete(a)
  PROVE  LifecycleInv'
<1>0. PICK f \in Fallbacks(a) :
        Begin([Request("delete", a) EXCEPT !.fallback = f, !.status = "absent",
                                           !.custom = FALSE, !.key = FALSE], DeleteSteps)
  BY DEF Delete
<1> DEFINE r == Request("delete", a)
           request == [r EXCEPT !.fallback = f, !.status = "absent", !.custom = FALSE,
                                !.key = FALSE]
<1>1. Begin(request, DeleteSteps) /\ f \in Target
  BY <1>0 DEF Fallbacks, Target
<1>2. /\ DOMAIN r = OpFields /\ r.kind = "delete" /\ r.acct = a /\ r.new = a
      /\ r.status \in Status /\ r.before \in Status /\ r.fallback = NoAccount
      /\ r.plan = NoPlan /\ r.changed = NoPlan /\ r.awaited = 0 /\ r.repair = FALSE
  BY RequestFields DEF LifecycleInv
<1> HIDE DEF r
<1>3. /\ DOMAIN request = OpFields /\ request.kind = "delete"
      /\ request.acct = a /\ request.new = a
      /\ request.status = "absent" /\ request.before \in Status
      /\ request.fallback = f /\ request.awaited = 0
      /\ request.plan = NoPlan /\ request.changed = NoPlan /\ request.repair = FALSE
  BY <1>2 DEF OpFields
<1> HIDE DEF request
<1>4. /\ op' = request /\ todo' = DeleteSteps /\ mode' = "run"
      /\ StateTypeOK' /\ GenInv' /\ RecoverInv' /\ UndoInv'
  BY <1>1, <1>3, BeginKeeps DEF Kind, Status
<1>5. IsTail(todo, Program)' /\ Left' = 15
  BY <1>3, <1>4 DEF IsTail, Program, DeleteSteps, Step, Phase, Left
<1>6. RunInv'
  BY <1>3, <1>4, <1>5 DEF RunInv, RunFacts, Kind
<1>7. DeleteInv' /\ PlannedInv'
  BY <1>3, <1>4, <1>5 DEF DeleteInv, DeleteFacts, PlannedInv, Planned
<1> QED
  BY <1>4, <1>6, <1>7 DEF LifecycleInv

\* Starting to clear an account keeps the invariant.
LEMMA ClearAuthKeeps ==
  ASSUME LifecycleInv, NEW a \in Account, ClearAuth(a)
  PROVE  LifecycleInv'
<1> DEFINE r == Request("clear_auth", a)
<1>1. Begin(r, <<"plan">>)
  BY DEF ClearAuth
<1>2. /\ DOMAIN r = OpFields /\ r.kind = "clear_auth" /\ r.acct = a /\ r.new = a
      /\ r.status \in Status /\ r.before \in Status /\ r.fallback = NoAccount
      /\ r.plan = NoPlan /\ r.changed = NoPlan /\ r.awaited = 0 /\ r.repair = FALSE
  BY RequestFields DEF LifecycleInv
<1> HIDE DEF r
<1>3. /\ op' = r /\ todo' = <<"plan">> /\ mode' = "run"
      /\ StateTypeOK' /\ GenInv' /\ RecoverInv' /\ UndoInv'
  BY <1>1, <1>2, BeginKeeps DEF Kind, Target
<1>4. Planning'
  BY <1>3 DEF Planning
<1>5. RunInv'
  BY <1>2, <1>3, <1>4 DEF RunInv, RunFacts, Kind
<1>6. DeleteInv' /\ PlannedInv'
  BY <1>2, <1>3, <1>4 DEF DeleteInv, PlannedInv, Planned
<1> QED
  BY <1>3, <1>5, <1>6 DEF LifecycleInv

\* Admin is not at work after the step.
Ends ==
    /\ mode' \in {"idle", "down"}
    /\ op' \in {op, NoOp} /\ journal' \in {journal, NoJournal}
    /\ UNCHANGED <<store, pub, dataPlane, mv>>

\* An operation, a rollback or a recovery that ends keeps the invariant.
LEMMA EndsKeeps ==
  ASSUME LifecycleInv, Ends
  PROVE  LifecycleInv'
<1> USE DEF LifecycleInv
<1>1. /\ minted' = minted /\ snap' = snap /\ catalog' = catalog /\ routes' = routes
      /\ loaded' = loaded /\ selection' = selection /\ edge' = edge /\ mv' = mv
      /\ mode' \in {"idle", "down"}
  BY DEF Ends, pub, store, dataPlane
<1>2. NoPlan \in Routing /\ NoAccount \in Target
  BY DEF NoPlan, Routing, Target
<1>3. OpTypeOK'
  <2>1. CASE op' = op
    BY <2>1 DEF StateTypeOK, OpTypeOK
  <2>2. CASE op' = NoOp
    BY <1>2, <2>2 DEF OpTypeOK, NoOp, OpFields, Status
  <2> QED
    BY <2>1, <2>2 DEF Ends
<1>4. JournalTypeOK'
  <2>1. CASE journal' = journal
    BY <2>1 DEF StateTypeOK, JournalTypeOK
  <2>2. CASE journal' = NoJournal
    BY <1>2, <2>2 DEF JournalTypeOK, NoJournal, JournalFields
  <2> QED
    BY <2>1, <2>2 DEF Ends
<1>5. StateTypeOK'
  BY <1>1, <1>3, <1>4 DEF StateTypeOK, PublicationTypeOK, MoveTypeOK
<1>6. GenInv'
  BY <1>1 DEF GenInv
<1> QED
  BY <1>1, <1>5, <1>6 DEF RunInv, DeleteInv, PlannedInv, RecoverInv, UndoInv

\* A program of the rollback.
UndoShape(p) ==
    /\ p \in Seq(UndoStep) /\ p # <<>> /\ p[Len(p)] = "finish"
    /\ \A i \in 2..Len(p) : p[i] # "undo_files"
    /\ p[1] = "undo_files" /\ op.kind = "clear_auth" => Len(p) >= 3

\* Every rollback has the shape of one.
LEMMA UndoProgramShape ==
  ASSUME op.kind \in Kind, NEW step
  PROVE  UndoShape(UndoProgram(step))
<1>a. UndoShape(<<"undo_files", "undo_runtime", "undo_secrets", "undo_control", "render">> \o Republish)
  BY DEF UndoShape, UndoStep, Republish
<1>b. op.kind # "clear_auth" => UndoShape(<<"undo_files", "finish">>)
  BY DEF UndoShape, UndoStep, Republish
<1>c. UndoShape(<<"finish">>)
  BY DEF UndoShape, UndoStep, Republish
<1>d. UndoShape(<<"undo_files", "undo_runtime", "undo_secrets">> \o <<"undo_control">>
              \o <<"undo_routes", "render">> \o Republish)
  BY DEF UndoShape, UndoStep, Republish
<1>e. UndoShape(<<"undo_files", "undo_runtime", "undo_secrets">> \o <<>>
              \o <<"undo_routes", "render">> \o Republish)
  BY DEF UndoShape, UndoStep, Republish
<1>f. UndoShape(<<"undo_files", "restart">> \o <<"undo_routes">> \o <<"finish">>)
  BY DEF UndoShape, UndoStep, Republish
<1>g. UndoShape(<<"undo_files", "restart">> \o <<"undo_routes">> \o Republish)
  BY DEF UndoShape, UndoStep, Republish
<1>h. UndoShape(<<>> \o <<"undo_routes">> \o <<"finish">>)
  BY DEF UndoShape, UndoStep, Republish
<1>i. UndoShape(<<>> \o <<"undo_routes">> \o Republish)
  BY DEF UndoShape, UndoStep, Republish
<1>1. CASE op.kind \in {"create", "delete"} /\ "control" \in did
  <2>1. UndoProgram(step) = <<"undo_files", "undo_runtime", "undo_secrets", "undo_control", "render">> \o Republish
    BY <1>1 DEF UndoProgram
  <2> QED
    BY <1>a, <1>1, <2>1
<1>2. CASE op.kind \in {"create", "delete"} /\ "control" \notin did /\ "files" \in did
  <2>1. UndoProgram(step) = <<"undo_files", "finish">>
    BY <1>2 DEF UndoProgram
  <2> QED
    BY <1>b, <1>2, <2>1
<1>3. CASE op.kind \in {"create", "delete"} /\ "control" \notin did /\ "files" \notin did
  <2>1. UndoProgram(step) = <<"finish">>
    BY <1>3 DEF UndoProgram
  <2> QED
    BY <1>c, <1>3, <2>1
<1>4. CASE op.kind \in {"update", "clear_auth"}
             /\ ("routes_prepared" \notin did \/ step = "apply")
  <2>1. UndoProgram(step) = <<"finish">>
    BY <1>4 DEF UndoProgram
  <2> QED
    BY <1>c, <1>4, <2>1
<1>5. CASE /\ op.kind = "update" /\ "routes_evacuated" \in did
           /\ "routes_prepared" \in did /\ step # "apply" /\ "control" \in did
  <2>1. UndoProgram(step) = <<"undo_files", "undo_runtime", "undo_secrets">> \o <<"undo_control">>
              \o <<"undo_routes", "render">> \o Republish
    BY <1>5 DEF UndoProgram
  <2> QED
    BY <1>d, <1>5, <2>1
<1>6. CASE /\ op.kind = "update" /\ "routes_evacuated" \in did
           /\ "routes_prepared" \in did /\ step # "apply" /\ "control" \notin did
  <2>1. UndoProgram(step) = <<"undo_files", "undo_runtime", "undo_secrets">> \o <<>>
              \o <<"undo_routes", "render">> \o Republish
    BY <1>6 DEF UndoProgram
  <2> QED
    BY <1>e, <1>6, <2>1
<1>7. CASE /\ op.kind \in {"update", "clear_auth"}
           /\ "routes_prepared" \in did /\ step # "apply"
           /\ op.kind = "clear_auth" \/ "routes_evacuated" \notin did
           /\ "files" \in did /\ (Empty /\ op.kind = "clear_auth")
  <2>1. UndoProgram(step) = <<"undo_files", "restart">> \o <<"undo_routes">> \o <<"finish">>
    BY <1>7 DEF UndoProgram
  <2> QED
    BY <1>f, <1>7, <2>1
<1>8. CASE /\ op.kind \in {"update", "clear_auth"}
           /\ "routes_prepared" \in did /\ step # "apply"
           /\ op.kind = "clear_auth" \/ "routes_evacuated" \notin did
           /\ "files" \in did /\ ~(Empty /\ op.kind = "clear_auth")
  <2>1. UndoProgram(step) = <<"undo_files", "restart">> \o <<"undo_routes">> \o Republish
    BY <1>8 DEF UndoProgram
  <2> QED
    BY <1>g, <1>8, <2>1
<1>9. CASE /\ op.kind \in {"update", "clear_auth"}
           /\ "routes_prepared" \in did /\ step # "apply"
           /\ op.kind = "clear_auth" \/ "routes_evacuated" \notin did
           /\ "files" \notin did /\ (Empty /\ op.kind = "clear_auth")
  <2>1. UndoProgram(step) = <<>> \o <<"undo_routes">> \o <<"finish">>
    BY <1>9 DEF UndoProgram
  <2> QED
    BY <1>h, <1>9, <2>1
<1>10. CASE /\ op.kind \in {"update", "clear_auth"}
            /\ "routes_prepared" \in did /\ step # "apply"
            /\ op.kind = "clear_auth" \/ "routes_evacuated" \notin did
            /\ "files" \notin did /\ ~(Empty /\ op.kind = "clear_auth")
  <2>1. UndoProgram(step) = <<>> \o <<"undo_routes">> \o Republish
    BY <1>10 DEF UndoProgram
  <2> QED
    BY <1>i, <1>10, <2>1
<1> QED
  BY <1>1, <1>2, <1>3, <1>4, <1>5, <1>6, <1>7, <1>8, <1>9, <1>10 DEF Kind

\* A failed step starts the rollback and keeps the invariant.
LEMMA FailsIntoRollback ==
  ASSUME LifecycleInv, mode = "run", mode' = "undo", op' = op,
         todo' = UndoProgram(Head(todo)),
         UNCHANGED <<store, pub, dataPlane, mv, touched, journal>>
  PROVE  LifecycleInv'
<1> USE DEF LifecycleInv
<1>1. /\ minted' = minted /\ snap' = snap /\ catalog' = catalog /\ routes' = routes
      /\ loaded' = loaded /\ selection' = selection /\ edge' = edge /\ mv' = mv
      /\ journal' = journal
  BY DEF pub, store, dataPlane
<1>2. StateTypeOK' /\ GenInv'
  BY <1>1 DEF StateTypeOK, PublicationTypeOK, OpTypeOK, JournalTypeOK, MoveTypeOK, GenInv
<1>3. UndoShape(UndoProgram(Head(todo)))
  BY UndoProgramShape DEF RunInv, RunFacts
<1>4. UndoFacts'
  BY <1>3 DEF UndoShape, UndoFacts, Left
<1> QED
  BY <1>2, <1>4 DEF RunInv, DeleteInv, PlannedInv, RecoverInv, UndoInv

\* The tail of a rollback has the shape of one and restores no files.
LEMMA UndoTail ==
  ASSUME NEW s, UndoShape(s), Len(s) >= 2
  PROVE  UndoShape(Tail(s)) /\ Tail(s)[1] # "undo_files"
<1>1. /\ s \in Seq(UndoStep) /\ s # <<>> /\ s[Len(s)] = "finish"
      /\ \A i \in 2..Len(s) : s[i] # "undo_files"
  BY DEF UndoShape
<1>2. /\ Len(s) \in Nat /\ Tail(s) \in Seq(UndoStep) /\ Len(Tail(s)) = Len(s) - 1
      /\ \A i \in 1..Len(s) - 1 : Tail(s)[i] = s[i + 1]
  BY <1>1, TailShorter
<1>3. Tail(s)[Len(s) - 1] = "finish" /\ Tail(s) # <<>>
  BY <1>1, TailLast
<1>4. \A i \in 1..Len(s) - 1 : Tail(s)[i] # "undo_files"
  BY <1>1, <1>2
<1>5. Tail(s)[1] # "undo_files"
  <2>1. 1 \in 1..Len(s) - 1
    BY <1>2
  <2> QED
    BY <1>4, <2>1
<1>6. \A i \in 2..Len(Tail(s)) : Tail(s)[i] # "undo_files"
  BY <1>2, <1>4
<1>7. Tail(s)[Len(Tail(s))] = "finish"
  BY <1>2, <1>3
<1> QED
  BY <1>2, <1>3, <1>5, <1>6, <1>7 DEF UndoShape

\* A failed step of a rollback skips what needs it and keeps the invariant.
LEMMA RollbackGoesOn ==
  ASSUME LifecycleInv, mode = "undo", mode' = mode, op' = [op EXCEPT !.err = TRUE],
         Head(todo) # "finish", todo' = AfterUndoFailure(Head(todo)),
         UNCHANGED <<store, pub, dataPlane, mv, touched, journal>>
  PROVE  LifecycleInv'
<1> USE DEF LifecycleInv
<1>1. /\ minted' = minted /\ snap' = snap /\ catalog' = catalog /\ routes' = routes
      /\ loaded' = loaded /\ selection' = selection /\ edge' = edge /\ mv' = mv
      /\ journal' = journal
  BY DEF pub, store, dataPlane
<1>2. /\ op'.kind = op.kind /\ op'.acct = op.acct /\ op'.new = op.new
      /\ op'.status = op.status /\ op'.fallback = op.fallback
      /\ op'.plan = op.plan /\ op'.before = op.before /\ op'.changed = op.changed
      /\ op'.awaited = op.awaited /\ DOMAIN op' = OpFields
  BY DEF StateTypeOK, OpTypeOK, OpFields
<1>3. StateTypeOK' /\ GenInv'
  BY <1>1, <1>2 DEF StateTypeOK, PublicationTypeOK, OpTypeOK, JournalTypeOK, MoveTypeOK, GenInv
<1>4. UndoShape(todo)
  BY DEF UndoInv, UndoFacts, UndoShape, Left
<1>5. UndoShape(Tail(todo)) /\ Len(todo) \in Nat /\ Len(Tail(todo)) = Len(todo) - 1
  <2>1. todo \in Seq(UndoStep) /\ todo # <<>> /\ todo[Len(todo)] = "finish"
    BY <1>4 DEF UndoShape
  <2>2. /\ Len(todo) \in Nat /\ Len(todo) >= 1 /\ Head(todo) = todo[1]
        /\ Len(Tail(todo)) = Len(todo) - 1
    BY <2>1, TailShorter
  <2>3. Len(todo) >= 2
    BY <2>1, <2>2
  <2> QED
    BY <1>4, <2>2, <2>3, UndoTail
<1>6. ASSUME Head(todo) = "undo_files", op.kind = "clear_auth"
      PROVE  UndoShape(Tail(Tail(todo)))
  <2>1. Len(todo) >= 3
    BY <1>4, <1>6, TailShorter DEF UndoShape
  <2>2. Len(Tail(todo)) >= 2
    BY <1>5, <2>1
  <2> QED
    BY <1>5, <2>2, UndoTail
<1>7. UndoShape(<<"finish">>)
  BY DEF UndoShape, UndoStep
<1>8. UndoShape(todo')
  <2>1. CASE Head(todo) \in {"undo_control", "undo_routes", "render", "publish", "wait"}
    <3>1. todo' = <<"finish">>
      BY <2>1 DEF AfterUndoFailure
    <3> QED
      BY <1>7, <3>1
  <2>2. CASE Head(todo) = "undo_files" /\ op.kind = "clear_auth"
    <3>1. todo' = Tail(Tail(todo))
      BY <2>2 DEF AfterUndoFailure
    <3> QED
      BY <1>6, <2>2, <3>1
  <2>3. CASE /\ Head(todo) \notin {"undo_control", "undo_routes", "render", "publish", "wait"}
             /\ ~(Head(todo) = "undo_files" /\ op.kind = "clear_auth")
    <3>1. todo' = Tail(todo)
      BY <2>3 DEF AfterUndoFailure
    <3> QED
      BY <1>5, <3>1
  <2> QED
    BY <2>1, <2>2, <2>3
<1>9. UndoFacts'
  BY <1>2, <1>8 DEF UndoShape, UndoFacts, Left
<1> QED
  BY <1>3, <1>9 DEF RunInv, DeleteInv, PlannedInv, RecoverInv, UndoInv

\* A program of Recover.
LEMMA RecoverShape ==
  /\ RecoverProgram \in Seq(RecoverStep)
  /\ RecoverProgram # <<>> /\ RecoverProgram[Len(RecoverProgram)] = "finish"
<1> DEFINE Shape(p) == p \in Seq(RecoverStep) /\ p # <<>> /\ p[Len(p)] = "finish"
<1>1. Shape(<<"rec_files", "finish">>)
  BY DEF RecoverStep
<1>2. Shape(<<"finish">>)
  BY DEF RecoverStep
<1>3. Shape(<<"rec_routes">> \o Republish)
  BY DEF RecoverStep, Republish
<1>4. Shape(<<"rec_secrets", "render", "publish", "wait">> \o <<"drain">>
              \o <<"rec_stop", "rec_files", "finish">>)
  BY DEF RecoverStep
<1>5. Shape(<<"rec_secrets", "render", "publish", "wait">> \o <<>>
              \o <<"rec_stop", "rec_files", "finish">>)
  BY DEF RecoverStep
<1>6. Shape(<<"rec_secrets", "rec_files", "render", "rec_stop", "rec_start", "rec_routes">>
              \o Republish)
  BY DEF RecoverStep, Republish
<1> HIDE DEF Shape
<1>7. Shape(RecoverProgram)
  BY <1>1, <1>2, <1>3, <1>4, <1>5, <1>6 DEF RecoverProgram
<1> QED
  BY <1>7 DEF Shape

\* Starting a recovery keeps the invariant.
LEMMA StartKeeps ==
  ASSUME LifecycleInv, StartAdmin, journal # NoJournal
  PROVE  LifecycleInv'
<1> USE DEF LifecycleInv
<1>1. /\ minted' = minted /\ snap' = snap /\ catalog' = catalog /\ routes' = routes
      /\ loaded' = loaded /\ selection' = selection /\ edge' = edge /\ mv' = mv
      /\ journal' = journal /\ mode' = "recover" /\ todo' = RecoverProgram
  BY DEF StartAdmin, pub, store, dataPlane
<1>2. /\ op'.kind = journal.kind /\ op'.acct = journal.acct /\ op'.new = journal.new
      /\ op'.status = "absent" /\ op'.fallback = NoAccount
      /\ op'.plan = journal.evac /\ op'.before = "absent" /\ op'.changed = NoPlan
      /\ op'.awaited = 0 /\ DOMAIN op' = OpFields
  BY DEF StartAdmin, NoOp, OpFields
<1>3. NoPlan \in Routing /\ NoAccount \in Target
  BY DEF NoPlan, Routing, Target
<1>4. StateTypeOK' /\ GenInv'
  <2>1. OpTypeOK'
    BY <1>2, <1>3 DEF StateTypeOK, JournalTypeOK, OpTypeOK, Status
  <2> QED
    BY <1>1, <2>1 DEF StateTypeOK, PublicationTypeOK, JournalTypeOK, MoveTypeOK, GenInv
<1>5. (todo \in Seq(RecoverStep) /\ todo # <<>> /\ todo[Left] = "finish")'
  BY <1>1, RecoverShape DEF Left
<1>6. ASSUME DeleteRecovered' PROVE RecoverDeleteFacts' /\ IsTail(todo, RecoverDelete)'
  <2>1. journal.kind = "delete" /\ Desired = NoAccount
    BY <1>1, <1>2, <1>6 DEF DeleteRecovered, Desired, Exists
  <2>2. ~Unchanged
    BY <2>1, NoAccountNot DEF Unchanged, StateTypeOK, JournalTypeOK
  <2>3. todo' = <<"rec_secrets", "render", "publish", "wait">> \o <<"drain">>
                  \o <<"rec_stop", "rec_files", "finish">>
    BY <1>1, <2>1, <2>2 DEF RecoverProgram
  <2>4. Left' = 8 /\ IsTail(todo, RecoverDelete)'
    BY <2>3 DEF IsTail, RecoverDelete, Step, Phase, Left
  <2> QED
    BY <2>4 DEF RecoverDeleteFacts
<1>7. RecoverFacts'
  BY <1>1, <1>2, <1>5, <1>6 DEF RecoverFacts
<1> QED
  BY <1>1, <1>4, <1>7 DEF RunInv, DeleteInv, PlannedInv, RecoverInv, UndoInv

\* Gateways and the failover worker leave Admin and its operation alone.
Outside ==
    /\ op' = op /\ mode' = mode /\ todo' = todo /\ journal' = journal
    /\ catalog' = catalog /\ selection' = selection /\ edge' = edge
OutsideTypes ==
    /\ routes' \in Routing /\ minted' \in Nat /\ snap' \in Snapshot
    /\ loaded' \in [Slot -> Snapshot]
    /\ MoveTypeOK' /\ GenInv'

\* Nobody but the worker moves a user, and it notes whom it moves.
MovesNoted ==
    /\ touched \subseteq touched'
    /\ \A u \in User : routes'[u] = routes[u] \/ u \in touched'

\* A user whose route does not lead to an account that serves does not come
\* back to it by what happens outside of Admin.
StaysAway(u, a) ==
    /\ Published(u, a) => Published(u, a)'
    /\ Published(u, a) /\ Awaited /\ <<u, a>> \notin Counted => <<u, a>> \notin Counted'

\* A step of another process keeps the invariant if it notes the users it
\* moves and brings nobody back to an account they have left.
LEMMA OutsideKeeps ==
  ASSUME LifecycleInv, Outside, OutsideTypes, MovesNoted, Awaited => Awaited',
         \A u \in User, a \in Account :
             routes[u] # a \/ catalog[a] = "absent" => StaysAway(u, a)
  PROVE  LifecycleInv'
<1> USE DEF LifecycleInv
<1>a. /\ op' = op /\ mode' = mode /\ todo' = todo /\ journal' = journal
      /\ catalog' = catalog /\ Left' = Left /\ Program' = Program
      /\ (Planning' <=> Planning)
  BY DEF Outside, Left, Program, Empty, Planning
<1>b. ASSUME NEW u \in User, NEW a \in Account, routes[u] # a \/ catalog[a] = "absent"
      PROVE  /\ Published(u, a) => Published(u, a)'
             /\ Published(u, a) /\ Awaited /\ <<u, a>> \notin Counted
                   => <<u, a>> \notin Counted'
  BY <1>b DEF StaysAway
<1>1. StateTypeOK'
  BY DEF StateTypeOK, PublicationTypeOK, OpTypeOK, JournalTypeOK, Outside, OutsideTypes
<1>2. GenInv'
  BY DEF OutsideTypes
<1>3. RunInv'
  BY <1>a DEF RunInv, RunFacts, IsTail
<1>4. DeleteInv'
  <2> SUFFICES ASSUME mode = "run", op.kind = "delete" PROVE DeleteFacts'
    BY <1>a DEF DeleteInv
  <2>1. DeleteFacts /\ op.acct \in Account /\ Left \in Nat
    BY RunHead DEF DeleteInv, RunInv, RunFacts
  <2>2. ASSUME Left < 13, NEW u \in User
        PROVE  /\ Published(u, op.acct) => Published(u, op.acct)'
               /\ Published(u, op.acct) /\ Awaited /\ <<u, op.acct>> \notin Counted
                     => <<u, op.acct>> \notin Counted'
    <3>1. catalog[op.acct] = "absent"
      BY <2>1, <2>2 DEF DeleteFacts
    <3> QED
      BY <1>a, <1>b, <2>1, <3>1 DEF Published, Awaited
  <2>3. ASSUME Left < 7, NEW u \in User PROVE Published(u, op.acct)'
    <3>1. Left < 13 /\ Published(u, op.acct)
      BY <2>1, <2>3 DEF DeleteFacts
    <3> QED
      BY <2>2, <3>1
  <2>4. ASSUME Left < 4, op.changed # NoPlan, NEW u \in User
        PROVE  <<u, op.acct>> \notin Counted'
    BY <2>1, <2>2, <2>4 DEF DeleteFacts
  <2> QED
    BY <1>a, <2>1, <2>3, <2>4 DEF DeleteFacts
<1>5. PlannedInv'
  <2> SUFFICES ASSUME mode = "run", Planned' PROVE PlannedFacts'
    BY <1>a DEF PlannedInv
  <2>1. Planned /\ PlannedFacts /\ op.acct \in Account /\ Left \in Nat
    BY <1>a, RunHead DEF Planned, PlannedInv, RunInv, RunFacts
  <2>2. /\ StopAt \in Nat /\ StopAt' = StopAt /\ ApplyAt \in Nat /\ ApplyAt' = ApplyAt
    BY <1>a DEF StopAt, ApplyAt
  <2>3. ASSUME Left >= StopAt PROVE OldUsersMoved' /\ Leaving'
    <3>1. OldUsersMoved /\ Leaving
      BY <2>1, <2>3 DEF PlannedFacts
    <3>2. OldUsersMoved'
      BY <1>a, <2>2, <3>1 DEF OldUsersMoved, MovesNoted
    <3>3. ASSUME NEW u \in User, u \notin touched, Left < ApplyAt
          PROVE  /\ Published(u, op.acct) => Published(u, op.acct)'
                 /\ Published(u, op.acct) /\ Awaited /\ <<u, op.acct>> \notin Counted
                       => <<u, op.acct>> \notin Counted'
      <4>1. routes[u] # op.acct
        BY <2>1, <2>2, <3>1, <3>3 DEF OldUsersMoved
      <4> QED
        BY <1>a, <1>b, <2>1, <4>1 DEF Published, Awaited
    <3>4. Leaving'
      BY <1>a, <2>1, <2>2, <3>1, <3>3 DEF Leaving, MovesNoted
    <3> QED
      BY <3>2, <3>4
  <2> QED
    BY <1>a, <2>1, <2>2, <2>3 DEF PlannedFacts, Renames, MovesNoted
<1>6. RecoverInv'
  <2> SUFFICES ASSUME mode = "recover" PROVE RecoverFacts'
    BY <1>a DEF RecoverInv
  <2>1. DeleteRecovered' <=> DeleteRecovered
    BY <1>a DEF DeleteRecovered, Desired, Exists
  <2>2. ASSUME DeleteRecovered PROVE RecoverDeleteFacts'
    <3>1. op.acct \in Account /\ catalog[op.acct] = "absent"
      BY <2>2, RecoveredGone
    <3>2. ASSUME NEW u \in User
          PROVE  /\ Published(u, op.acct) => Published(u, op.acct)'
                 /\ Published(u, op.acct) /\ Awaited /\ <<u, op.acct>> \notin Counted
                       => <<u, op.acct>> \notin Counted'
      BY <1>a, <1>b, <2>2, <3>1 DEF Published, Awaited
    <3>3. RecoverDeleteFacts /\ Left \in Nat
      BY <2>2, RecoverDeleteHead DEF RecoverInv, RecoverFacts
    <3>5. ASSUME Left < 6, NEW u \in User PROVE Published(u, op.acct)'
      BY <3>2, <3>3, <3>5 DEF RecoverDeleteFacts
    <3>6. ASSUME Left < 4, NEW u \in User PROVE <<u, op.acct>> \notin Counted'
      BY <3>2, <3>3, <3>6 DEF RecoverDeleteFacts
    <3> QED
      BY <1>a, <3>3, <3>5, <3>6 DEF RecoverDeleteFacts
  <2> QED
    BY <1>a, <2>1, <2>2 DEF RecoverInv, RecoverFacts, IsTail
<1>7. UndoInv'
  BY <1>a DEF UndoInv, UndoFacts
<1> QED
  BY <1>1, <1>2, <1>3, <1>4, <1>5, <1>6, <1>7

\* Requests keep the invariant: one is authorized by the loaded snapshot and
\* counted once it is.
LEMMA TrafficKeeps ==
  ASSUME LifecycleInv,
         UNCHANGED <<store, pub, dataPlane, journal, mode, todo, op, late, mv, touched>>,
         \A u \in User, a \in Account : <<u, a>> \in pending' =>
             <<u, a>> \in pending \/ loaded[edge].view[u] = a,
         \A u \in User, a \in Account : <<u, a>> \in inflight' =>
             <<u, a>> \in inflight \/ <<u, a>> \in pending
  PROVE  LifecycleInv'
<1>1. /\ minted' = minted /\ snap' = snap /\ catalog' = catalog /\ routes' = routes
      /\ loaded' = loaded /\ selection' = selection /\ edge' = edge /\ mv' = mv
      /\ op' = op /\ mode' = mode /\ todo' = todo /\ journal' = journal
      /\ touched' = touched
  BY DEF pub, store, dataPlane
<1>2. Outside /\ MovesNoted
  BY <1>1 DEF Outside, MovesNoted
<1>3. OutsideTypes
  BY <1>1 DEF OutsideTypes, LifecycleInv, StateTypeOK, PublicationTypeOK, MoveTypeOK, GenInv
<1>4. Awaited' <=> Awaited
  BY <1>1 DEF Awaited
<1>5. \A u \in User, a \in Account : StaysAway(u, a)
  BY <1>1 DEF StaysAway, Published, Awaited, Waiting, Counted
<1> QED
  BY <1>2, <1>3, <1>4, <1>5, OutsideKeeps

\* The three steps of a request keep the invariant.
LEMMA RequestsKeep ==
  ASSUME LifecycleInv, Requests
  PROVE  LifecycleInv'
<1>1. CASE \E u \in User : Authorize(u)
  <2>1. PICK u \in User : Authorize(u)
    BY <1>1
  <2>2. /\ pending' = pending \cup {<<u, loaded[edge].view[u]>>} /\ inflight' = inflight
        /\ UNCHANGED <<store, pub, dataPlane, journal, mode, todo, op, late, mv, touched>>
    BY <2>1 DEF Authorize
  <2>3. \A v \in User, a \in Account : <<v, a>> \in pending' =>
             <<v, a>> \in pending \/ loaded[edge].view[v] = a
    BY <2>2
  <2> QED
    BY <2>2, <2>3, TrafficKeeps
<1>2. CASE \E r \in pending : CountRequest(r)
  <2>1. PICK r \in pending : CountRequest(r)
    BY <1>2
  <2>2. /\ pending' = pending \ {r} /\ inflight' = inflight \cup {r}
        /\ UNCHANGED <<store, pub, dataPlane, journal, mode, todo, op, late, mv, touched>>
    BY <2>1 DEF CountRequest
  <2> QED
    BY <2>2, TrafficKeeps
<1>3. CASE \E r \in inflight : RequestDone(r)
  <2>1. PICK r \in inflight : RequestDone(r)
    BY <1>3
  <2>2. /\ pending' = pending /\ inflight' = inflight \ {r}
        /\ UNCHANGED <<store, pub, dataPlane, journal, mode, todo, op, late, mv, touched>>
    BY <2>1 DEF RequestDone
  <2> QED
    BY <2>2, TrafficKeeps
<1> QED
  BY <1>1, <1>2, <1>3 DEF Requests

\* A gateway that loads the snapshot keeps the invariant: what it has
\* authorized and not counted is late from then on.
LEMMA ReloadKeeps ==
  ASSUME LifecycleInv, Reload
  PROVE  LifecycleInv'
<1>1. /\ minted' = minted /\ snap' = snap /\ catalog' = catalog /\ routes' = routes
      /\ selection' = selection /\ edge' = edge /\ mv' = mv
      /\ op' = op /\ mode' = mode /\ todo' = todo /\ journal' = journal
      /\ touched' = touched /\ pending' = pending /\ inflight' = inflight
  BY DEF Reload, Load, traffic
<1>2. late' = late \cup pending /\ loaded' = [loaded EXCEPT ![edge] = snap]
  BY DEF Reload, Load
<1>3. /\ loaded \in [Slot -> Snapshot] /\ edge \in Slot /\ snap \in Snapshot
      /\ op.awaited \in Nat /\ minted \in Nat
  BY DEF LifecycleInv, StateTypeOK, PublicationTypeOK, OpTypeOK
<1>4. loaded'[edge] = snap /\ loaded' \in [Slot -> Snapshot]
  BY <1>2, <1>3
<1>5. snap.gen \in Nat /\ loaded[edge].gen \in Nat /\ loaded[edge].gen <= snap.gen
  BY <1>3 DEF Snapshot, LifecycleInv, GenInv
<1>6. Outside /\ MovesNoted
  BY <1>1 DEF Outside, MovesNoted
<1>7. OutsideTypes
  BY <1>1, <1>3, <1>4, <1>5
     DEF OutsideTypes, LifecycleInv, StateTypeOK, PublicationTypeOK, MoveTypeOK, GenInv
<1>8. Awaited => Awaited'
  BY <1>1, <1>3, <1>4, <1>5 DEF Awaited
<1>9. \A u \in User, a \in Account : StaysAway(u, a)
  BY <1>1, <1>2, <1>4 DEF StaysAway, Published, Awaited, Waiting, Counted
<1> QED
  BY <1>6, <1>7, <1>8, <1>9, OutsideKeeps

\* The failover worker notes whom it moves and keeps the invariant.
LEMMA MovesKeep ==
  ASSUME LifecycleInv, MovesNoted, MoveTypeOK', routes' \in Routing, catalog' = catalog,
         UNCHANGED <<pub, dataPlane, traffic, journal, mode, todo, op>>
  PROVE  LifecycleInv'
<1>1. /\ minted' = minted /\ snap' = snap
      /\ loaded' = loaded /\ selection' = selection /\ edge' = edge
      /\ op' = op /\ mode' = mode /\ todo' = todo /\ journal' = journal
      /\ pending' = pending /\ late' = late /\ inflight' = inflight
  BY DEF pub, dataPlane, traffic
<1>2. Outside
  BY <1>1 DEF Outside
<1>3. OutsideTypes
  BY <1>1 DEF OutsideTypes, LifecycleInv, StateTypeOK, PublicationTypeOK, GenInv
<1>4. Awaited' <=> Awaited
  BY <1>1 DEF Awaited
<1>5. \A u \in User, a \in Account : StaysAway(u, a)
  BY <1>1 DEF StaysAway, Published, Awaited, Waiting, Counted
<1> QED
  BY <1>2, <1>3, <1>4, <1>5, OutsideKeeps

\* The publications of the failover worker keep the invariant.
LEMMA MovePublishedKeeps ==
  ASSUME LifecycleInv, WriteSnapshot, MoveTypeOK',
         UNCHANGED <<store, dataPlane, traffic, journal, mode, todo, op, touched>>
  PROVE  LifecycleInv'
<1>1. /\ catalog' = catalog /\ routes' = routes
      /\ loaded' = loaded /\ selection' = selection /\ edge' = edge
      /\ op' = op /\ mode' = mode /\ todo' = todo /\ journal' = journal
      /\ touched' = touched /\ pending' = pending /\ late' = late /\ inflight' = inflight
  BY DEF store, dataPlane, traffic
<1>2. minted' = minted + 1 /\ snap' = [gen |-> minted + 1, view |-> Build]
  BY DEF WriteSnapshot
<1>3. /\ minted \in Nat /\ snap.gen \in Nat /\ loaded[edge].gen \in Nat
      /\ loaded[edge].gen <= snap.gen /\ snap.gen <= minted /\ op.awaited \in Nat
      /\ catalog \in [Account -> Status] /\ Build \in Routing
  <2>1. Build \in Routing
    BY DEF Build, Served, Routing, Target
  <2>2. snap.gen \in Nat /\ loaded[edge].gen \in Nat
    BY DEF LifecycleInv, StateTypeOK, PublicationTypeOK, Snapshot
  <2> QED
    BY <2>1, <2>2 DEF LifecycleInv, StateTypeOK, PublicationTypeOK, OpTypeOK, GenInv
<1>4. snap'.gen = minted + 1 /\ snap'.view = Build /\ snap' \in Snapshot
  BY <1>2, <1>3 DEF Snapshot
<1>5. Outside /\ MovesNoted
  BY <1>1 DEF Outside, MovesNoted
<1>6. OutsideTypes
  BY <1>1, <1>2, <1>3, <1>4
     DEF OutsideTypes, LifecycleInv, StateTypeOK, PublicationTypeOK, GenInv
<1>7. Awaited' <=> Awaited
  BY <1>1 DEF Awaited
<1>8. ASSUME NEW u \in User, NEW a \in Account, routes[u] # a \/ catalog[a] = "absent"
      PROVE  StaysAway(u, a)
  <2>1. Build[u] # a
    BY <1>3, <1>8, NotServed
  <2> QED
    BY <1>1, <1>3, <1>4, <2>1 DEF StaysAway, Published, Awaited, Waiting, Counted
<1> QED
  BY <1>5, <1>6, <1>7, <1>8, OutsideKeeps

\* Every step of the failover worker keeps the invariant.
LEMMA WorkerKeeps ==
  ASSUME LifecycleInv, Worker
  PROVE  LifecycleInv'
<1> USE DEF MoverOnly
<1>0. /\ MoveTypeOK /\ routes \in Routing
      /\ NoMove.plan \in Routing /\ NoMove.from \in Routing /\ DOMAIN NoMove = MoveFields
  BY DEF LifecycleInv, StateTypeOK, PublicationTypeOK, NoMove, MoveFields, NoPlan, Routing, Target
<1>1. CASE \E u \in User, a \in Account : PlanMove(u, a)
  <2>1. PICK u \in User, a \in Account : PlanMove(u, a)
    BY <1>1
  <2>2. /\ mv' = [st |-> "planned", plan |-> [NoPlan EXCEPT ![u] = a], from |-> routes]
        /\ routes' = routes /\ catalog' = catalog /\ touched' = touched
    BY <2>1 DEF PlanMove, store
  <2>3. MoveTypeOK' /\ MovesNoted
    BY <1>0, <2>2 DEF MoveTypeOK, MoveFields, NoPlan, Routing, Target, MovesNoted
  <2>4. UNCHANGED <<pub, dataPlane, traffic, journal, mode, todo, op>>
    BY <2>1 DEF PlanMove
  <2> QED
    BY <1>0, <2>2, <2>3, <2>4, MovesKeep
<1>2. CASE ApplyMove
  <2>1. UNCHANGED <<pub, dataPlane, traffic, journal, mode, todo, op>>
    BY <1>2 DEF ApplyMove
  <2>2. CASE CanApply(mv.plan, mv.from)
    <3>1. /\ routes' = [u \in User |-> IF u \in InPlan(mv.plan) THEN mv.plan[u] ELSE routes[u]]
          /\ catalog' = catalog /\ touched' = touched \cup InPlan(mv.plan)
          /\ mv' = [mv EXCEPT !.st = "applied"]
      BY <1>2, <2>2 DEF ApplyMove, ApplyRoutesExpected, Moves
    <3>2. MoveTypeOK' /\ MovesNoted /\ routes' \in Routing
      BY <1>0, <3>1 DEF MoveTypeOK, MoveFields, Routing, MovesNoted, InPlan
    <3> QED
      BY <2>1, <3>1, <3>2, MovesKeep
  <2>3. CASE ~CanApply(mv.plan, mv.from)
    <3>1. mv' = NoMove /\ routes' = routes /\ catalog' = catalog /\ touched' = touched
      BY <1>2, <2>3 DEF ApplyMove, store
    <3>2. MoveTypeOK' /\ MovesNoted
      BY <1>0, <3>1 DEF MoveTypeOK, MovesNoted
    <3> QED
      BY <1>0, <2>1, <3>1, <3>2, MovesKeep
  <2> QED
    BY <2>2, <2>3
<1>3. CASE PublishMove
  <2>1. /\ WriteSnapshot /\ mv' = [mv EXCEPT !.st = "published"]
        /\ UNCHANGED <<store, dataPlane, traffic, journal, mode, todo, op, touched>>
    BY <1>3 DEF PublishMove
  <2>2. MoveTypeOK'
    BY <1>0, <2>1 DEF MoveTypeOK, MoveFields
  <2> QED
    BY <2>1, <2>2, MovePublishedKeeps
<1>4. CASE ConfirmMove
  <2>1. /\ mv' = NoMove /\ routes' = routes /\ catalog' = catalog /\ touched' = touched
        /\ UNCHANGED <<pub, dataPlane, traffic, journal, mode, todo, op>>
    BY <1>4 DEF ConfirmMove, store
  <2>2. MoveTypeOK' /\ MovesNoted
    BY <1>0, <2>1 DEF MoveTypeOK, MovesNoted
  <2> QED
    BY <1>0, <2>1, <2>2, MovesKeep
<1>5. CASE RestoreMove
  <2>1. UNCHANGED <<pub, dataPlane, traffic, journal, mode, todo, op>>
    BY <1>5 DEF RestoreMove
  <2>2. CASE CanRestore(mv.plan)
    <3>1. /\ routes' = [u \in User |-> IF u \in InPlan(mv.plan) THEN mv.from[u] ELSE routes[u]]
          /\ catalog' = catalog /\ touched' = touched \cup InPlan(mv.plan)
          /\ mv' = [mv EXCEPT !.st = "restored"]
      BY <1>5, <2>2 DEF RestoreMove, RestoreRoutesExpected, Moves
    <3>2. MoveTypeOK' /\ MovesNoted /\ routes' \in Routing
      BY <1>0, <3>1 DEF MoveTypeOK, MoveFields, Routing, MovesNoted, InPlan
    <3> QED
      BY <2>1, <3>1, <3>2, MovesKeep
  <2>3. CASE ~CanRestore(mv.plan)
    <3>1. mv' = NoMove /\ routes' = routes /\ catalog' = catalog /\ touched' = touched
      BY <1>5, <2>3 DEF RestoreMove, store
    <3>2. MoveTypeOK' /\ MovesNoted
      BY <1>0, <3>1 DEF MoveTypeOK, MovesNoted
    <3> QED
      BY <1>0, <2>1, <3>1, <3>2, MovesKeep
  <2> QED
    BY <2>2, <2>3
<1>6. CASE RepublishMove
  <2>1. /\ WriteSnapshot /\ mv' = NoMove
        /\ UNCHANGED <<store, dataPlane, traffic, journal, mode, todo, op, touched>>
    BY <1>6 DEF RepublishMove
  <2>2. MoveTypeOK'
    BY <1>0, <2>1 DEF MoveTypeOK
  <2> QED
    BY <2>1, <2>2, MovePublishedKeeps
<1> QED
  BY <1>1, <1>2, <1>3, <1>4, <1>5, <1>6 DEF Worker

\* A step on the host is quiet.
LEMMA HostStepKeeps ==
  ASSUME LifecycleInv, NEW step \in QuietStep, At(step), HostStep,
         inflight' \subseteq inflight,
         step = "wait" => Awaited, step = "drain" => DrainPasses
  PROVE  LifecycleInv'
<1>1. /\ Busy /\ todo # <<>> /\ Head(todo) = step /\ todo' = Tail(todo)
      /\ mode' = mode /\ op' = op /\ journal' = journal /\ Still
  BY DEF At, HostStep, Done, Kept, Still, store, pub, dataPlane
<1>2. Advances
  BY <1>1 DEF Advances, QuietStep
<1>3. DOMAIN journal' = JournalFields /\ journal'.evac \in Routing
  BY <1>1 DEF LifecycleInv, StateTypeOK, JournalTypeOK
<1> QED
  BY <1>1, <1>2, <1>3, QuietKeeps DEF Quiet

\* A journal record is a quiet step.
LEMMA AdvanceOperationKeeps ==
  ASSUME LifecycleInv, AdvanceOperation
  PROVE  LifecycleInv'
<1>1. /\ Busy /\ todo # <<>> /\ Head(todo) \in Phase /\ todo' = Tail(todo)
      /\ mode' = mode /\ op' = op /\ inflight' = inflight /\ Still
      /\ journal' = [journal EXCEPT !.phase = Head(todo), !.evac = op.plan]
  BY DEF AdvanceOperation, Done, Kept, Still, store, pub, dataPlane
<1>2. /\ DOMAIN journal' = JournalFields /\ journal'.evac = op.plan
      /\ journal'.kind = journal.kind /\ journal'.acct = journal.acct
      /\ journal'.new = journal.new
  BY <1>1 DEF LifecycleInv, StateTypeOK, JournalTypeOK, JournalFields
<1>3. Head(todo) \in QuietStep /\ Head(todo) \notin {"wait", "drain"}
  BY <1>1 DEF QuietStep, Step, Phase
<1>4. Advances
  BY <1>1, <1>2, <1>3 DEF Advances, QuietStep
<1>5. op.plan \in Routing
  BY DEF LifecycleInv, StateTypeOK, OpTypeOK
<1> QED
  BY <1>1, <1>2, <1>3, <1>4, <1>5, QuietKeeps DEF Quiet

\* The steps that move routes back.
LEMMA RevertsCases ==
  ASSUME LifecycleInv,
         RestoreRoutes \/ UndoRoutes \/ UndoControl \/ RecoverEvacuatedRoutes
  PROVE  LifecycleInv'
<1>0. /\ catalog \in [Account -> Status] /\ routes \in Routing
      /\ op.acct \in Target /\ op.new \in Target /\ op.fallback \in Target
      /\ op.before \in Status
  BY DEF LifecycleInv, StateTypeOK, PublicationTypeOK, OpTypeOK
<1>1. ASSUME NEW t \in Target, RestoreTo(t) PROVE routes' \in Routing /\ catalog' = catalog
  BY <1>0, <1>1 DEF RestoreTo, Routing
<1>2. CASE RestoreRoutes
  <2>1. routes' \in Routing /\ catalog' = catalog
    BY <1>0, <1>1, <1>2 DEF RestoreRoutes, store
  <2>2. Advances /\ Head(todo) = "restore" /\ op' = op
    BY <1>2 DEF RestoreRoutes, At, Done, Kept, Advances
  <2>3. UNCHANGED <<pub, dataPlane, pending, inflight, late, mv, touched, journal>>
    BY <1>2 DEF RestoreRoutes, Kept
  <2> QED
    BY <1>0, <2>1, <2>2, <2>3, RevertsKeeps DEF Reverts
<1>3. CASE UndoRoutes
  <2>1. UndoTarget \in Target
    BY <1>0 DEF UndoTarget
  <2>2. routes' \in Routing /\ catalog' = catalog
    BY <1>1, <1>3, <2>1 DEF UndoRoutes
  <2>3. Advances /\ Head(todo) = "undo_routes" /\ op' = op
    BY <1>3 DEF UndoRoutes, At, Done, Kept, Advances
  <2>4. UNCHANGED <<pub, dataPlane, pending, inflight, late, mv, touched, journal>>
    BY <1>3 DEF UndoRoutes, Kept
  <2> QED
    BY <1>0, <2>2, <2>3, <2>4, RevertsKeeps DEF Reverts
<1>4. CASE UndoControl
  <2>1. catalog' \in [Account -> Status]
    BY <1>0, <1>4 DEF UndoControl, Status
  <2>2. routes' \in Routing
    BY <1>0, <1>4 DEF UndoControl, Routing
  <2>3. Advances /\ Head(todo) = "undo_control" /\ op' = op
    BY <1>4 DEF UndoControl, At, Done, Kept, Advances
  <2>4. UNCHANGED <<pub, dataPlane, pending, inflight, late, mv, touched, journal>>
    BY <1>4 DEF UndoControl, Kept
  <2> QED
    BY <2>1, <2>2, <2>3, <2>4, RevertsKeeps DEF Reverts
<1>5. CASE RecoverEvacuatedRoutes
  <2>1. Desired \in Target
    BY DEF Desired, Target, LifecycleInv, StateTypeOK, JournalTypeOK
  <2>2. routes' \in Routing /\ catalog' = catalog
    BY <1>0, <1>5, <2>1 DEF RecoverEvacuatedRoutes, Routing
  <2>3. Advances /\ Head(todo) = "rec_routes" /\ op' = op
    BY <1>5 DEF RecoverEvacuatedRoutes, At, Done, Kept, Advances
  <2>4. UNCHANGED <<pub, dataPlane, pending, inflight, late, mv, touched, journal>>
    BY <1>5 DEF RecoverEvacuatedRoutes, Kept
  <2> QED
    BY <1>0, <2>2, <2>3, <2>4, RevertsKeeps DEF Reverts
<1> QED
  BY <1>2, <1>3, <1>4, <1>5

\* A failure keeps the invariant, in an operation, a rollback or a recovery.
LEMMA FailureKeeps ==
  ASSUME LifecycleInv, Busy, Head(todo) # "finish", AfterFailure,
         UNCHANGED <<store, pub, dataPlane, journal, mv, touched>>
  PROVE  LifecycleInv'
<1>1. CASE mode = "run"
  <2>1. mode' = "undo" /\ todo' = UndoProgram(Head(todo)) /\ op' = op
    BY <1>1 DEF AfterFailure
  <2> QED
    BY <1>1, <2>1, FailsIntoRollback
<1>2. CASE mode = "undo"
  <2>1. mode' = mode /\ todo' = AfterUndoFailure(Head(todo)) /\ op' = [op EXCEPT !.err = TRUE]
    BY <1>2 DEF AfterFailure
  <2> QED
    BY <1>2, <2>1, RollbackGoesOn
<1>3. CASE mode = "recover"
  <2>1. mode' = "down" /\ op' = NoOp
    BY <1>3 DEF AfterFailure
  <2> QED
    BY <2>1, EndsKeeps DEF Ends
<1> QED
  BY <1>1, <1>2, <1>3 DEF Busy

\* Every step on the host keeps the invariant.
LEMMA HostStepsKeep ==
  ASSUME LifecycleInv,
         \/ WaitForGeneration \/ WaitAccountDrained
         \/ SecretsBegun \/ ApplySecrets \/ UndoSecrets
         \/ RenderProjection \/ PrepareFiles \/ RemoveFiles \/ UndoFiles
         \/ StartContainer \/ StopContainer \/ RestartAccount \/ UndoRuntime
         \/ RecoverSecrets \/ RecoverFiles \/ RecoverStop \/ RecoverStart
  PROVE  LifecycleInv'
<1> DEFINE Harmless == {"secrets_begun", "secrets", "undo_secrets", "render", "files",
                        "remove_files", "undo_files", "start", "stop", "restart",
                        "undo_runtime", "rec_secrets", "rec_files", "rec_stop", "rec_start"}
<1>1. Harmless \subseteq QuietStep /\ Harmless \cap {"wait", "drain"} = {}
  BY DEF QuietStep, Step
<1>2. "wait" \in QuietStep /\ "drain" \in QuietStep
  BY DEF QuietStep, Step
<1>3. ASSUME NEW step \in Harmless, At(step), HostStep, inflight' \subseteq inflight
      PROVE  LifecycleInv'
  BY <1>1, <1>3, HostStepKeeps
<1> HIDE DEF Harmless
<1>4. CASE WaitForGeneration
  <2>1. op.awaited \in Nat
    BY DEF LifecycleInv, StateTypeOK, OpTypeOK
  <2>2. At("wait") /\ Awaited /\ HostStep /\ inflight' = inflight
    BY <1>4, <2>1 DEF WaitForGeneration, Awaited
  <2> QED
    BY <1>2, <2>2, HostStepKeeps
<1>5. CASE WaitAccountDrained
  <2>1. At("drain") /\ DrainPasses /\ HostStep /\ inflight' = inflight
    BY <1>5 DEF WaitAccountDrained
  <2> QED
    BY <1>2, <2>1, HostStepKeeps
<1>6. CASE SecretsBegun
  BY <1>3, <1>6 DEF SecretsBegun, Harmless
<1>7. CASE ApplySecrets
  BY <1>3, <1>7 DEF ApplySecrets, Harmless
<1>8. CASE UndoSecrets
  BY <1>3, <1>8 DEF UndoSecrets, Harmless
<1>9. CASE RenderProjection
  BY <1>3, <1>9 DEF RenderProjection, Harmless
<1>10. CASE PrepareFiles
  BY <1>3, <1>10 DEF PrepareFiles, Harmless
<1>11. CASE RemoveFiles
  BY <1>3, <1>11 DEF RemoveFiles, Harmless
<1>12. CASE UndoFiles
  BY <1>3, <1>12 DEF UndoFiles, Harmless
<1>13. CASE StartContainer
  BY <1>3, <1>13 DEF StartContainer, Harmless
<1>14. CASE StopContainer
  BY <1>3, <1>14 DEF StopContainer, Without, Harmless
<1>15. CASE RestartAccount
  BY <1>3, <1>15 DEF RestartAccount, Without, Harmless
<1>16. CASE UndoRuntime
  BY <1>3, <1>16 DEF UndoRuntime, Unserved, Without, Harmless
<1>17. CASE RecoverSecrets
  BY <1>3, <1>17 DEF RecoverSecrets, Harmless
<1>18. CASE RecoverFiles
  BY <1>3, <1>18 DEF RecoverFiles, Harmless
<1>19. CASE RecoverStop
  BY <1>3, <1>19 DEF RecoverStop, Harmless
<1>20. CASE RecoverStart
  BY <1>3, <1>20 DEF RecoverStart, Harmless
<1> QED
  BY <1>4, <1>5, <1>6, <1>7, <1>8, <1>9, <1>10, <1>11, <1>12, <1>13, <1>14, <1>15,
     <1>16, <1>17, <1>18, <1>19, <1>20

\* Ends, failures, crashes and restarts keep the invariant.
LEMMA OthersKeep ==
  ASSUME LifecycleInv,
         \/ Finish \/ FinishFails \/ StepRefused \/ RecreateFails \/ StepFails \/ Crash
         \/ Restart \/ StartAdmin
  PROVE  LifecycleInv'
<1>1. CASE Finish
  BY <1>1, EndsKeeps DEF Finish, Ends
<1>2. CASE FinishFails
  BY <1>2, EndsKeeps DEF FinishFails, Ends
<1>3. CASE StepRefused
  <2>1. Head(todo) # "finish"
    BY <1>3 DEF StepRefused, Blocked
  <2>2. /\ Busy /\ AfterFailure
        /\ UNCHANGED <<store, pub, dataPlane, journal, mv, touched>>
    BY <1>3 DEF StepRefused
  <2> QED
    BY <2>1, <2>2, FailureKeeps
<1>4. CASE StepFails
  <2>1. /\ Busy /\ AfterFailure /\ Head(todo) # "finish"
        /\ UNCHANGED <<store, pub, dataPlane, journal, mv, touched>>
    BY <1>4 DEF StepFails
  <2> QED
    BY <2>1, FailureKeeps
<1>5. CASE Crash
  BY <1>5, EndsKeeps DEF Crash, Ends
<1>6. CASE Restart
  BY <1>6, EndsKeeps DEF Restart, Ends
<1>7. CASE StartAdmin /\ journal = NoJournal
  BY <1>7, EndsKeeps DEF StartAdmin, Ends
<1>8. CASE StartAdmin /\ journal # NoJournal
  BY <1>8, StartKeeps
<1>9. CASE RecreateFails
  <2>1. /\ Busy /\ AfterFailure /\ Head(todo) # "finish"
        /\ UNCHANGED <<store, pub, dataPlane, journal, mv, touched>>
    BY <1>9 DEF RecreateFails, At
  <2> QED
    BY <2>1, FailureKeeps
<1> QED
  BY <1>1, <1>2, <1>3, <1>4, <1>5, <1>6, <1>7, <1>8, <1>9

\* The invariant holds initially.
LEMMA LifecycleInitially ==
  ASSUME Init
  PROVE  LifecycleInv
<1>1. NoPlan \in Routing /\ NoAccount \in Target
  BY DEF NoPlan, Routing, Target
<1>2. OpTypeOK
  BY <1>1 DEF Init, OpTypeOK, NoOp, OpFields, Status
<1>3. JournalTypeOK
  BY <1>1 DEF Init, JournalTypeOK, NoJournal, JournalFields
<1>4. MoveTypeOK
  BY <1>1 DEF Init, MoveTypeOK, NoMove, MoveFields
<1>5. snap \in Snapshot /\ snap.gen = 1 /\ loaded = [s \in Slot |-> snap]
  <2>1. Build \in Routing
    BY DEF Build, Served, Routing, Target
  <2> QED
    BY <2>1 DEF Init, Snapshot
<1>6. PublicationTypeOK
  BY <1>5, LifecycleAssumption DEF Init, PublicationTypeOK
<1>7. GenInv
  BY <1>5 DEF Init, GenInv
<1>8. mode = "idle"
  BY DEF Init
<1> QED
  BY <1>2, <1>3, <1>4, <1>6, <1>7, <1>8
     DEF LifecycleInv, StateTypeOK, RunInv, DeleteInv, PlannedInv, RecoverInv, UndoInv

\* Every step keeps the invariant.
LEMMA LifecycleStep ==
  ASSUME LifecycleInv, [Next]_vars
  PROVE  LifecycleInv'
<1>1. CASE Operations
  BY <1>1, CreateKeeps, UpdateKeeps, RepairKeeps, DeleteKeeps, ClearAuthKeeps DEF Operations
<1>2. CASE AdminStep
  BY <1>2, PlanKeeps, AdvanceOperationKeeps, ApplyEvacuationKeeps, RevertsCases,
     PublishKeeps, ControlKeeps, HostStepsKeep, OthersKeep DEF AdminStep
<1>3. CASE FinishFails \/ StepFails \/ Crash \/ Restart
  BY <1>3, OthersKeep
<1>4. CASE Requests
  BY <1>4, RequestsKeep
<1>5. CASE Reload
  BY <1>5, ReloadKeeps
<1>6. CASE Worker
  BY <1>6, WorkerKeeps
<1>7. CASE UNCHANGED vars
  BY <1>7, TrafficKeeps DEF vars, store, pub, dataPlane
<1> QED
  BY <1>1, <1>2, <1>3, <1>4, <1>5, <1>6, <1>7 DEF Next

\* The invariant implies that a stop or a restart is drained: its position in
\* the program is behind the drain.
LEMMA DrainedByInvariant ==
  ASSUME LifecycleInv
  PROVE  DrainedBeforeStop
<1> USE DEF LifecycleInv
<1>1. ASSUME mode = "run", At("stop") \/ At("restart")
      PROVE  Requested(op.acct) \cap Moved \subseteq touched
  <2> SUFFICES ASSUME NEW u \in User, u \in Requested(op.acct), u \in Moved, u \notin touched
               PROVE  FALSE
    BY DEF Requested
  <2>1. /\ RunFacts /\ op.plan \in Routing /\ op.changed \in Routing
        /\ Head(todo) \in {"stop", "restart"}
        /\ <<u, op.acct>> \in (pending \cup inflight) \ late
    BY <1>1 DEF RunInv, At, Requested, StateTypeOK, OpTypeOK
  <2>2. ~Planning
    BY <2>1 DEF Planning
  <2>3. IsTail(todo, Program) /\ op.kind \in Kind
    BY <2>1, <2>2 DEF RunFacts
  <2>4. \/ op.plan[u] # NoAccount
        \/ ~Renames /\ ~op.repair /\ op.changed[u] # NoAccount
    BY DEF Moved, InPlan
  <2>5. NoPlan[u] = NoAccount
    BY DEF NoPlan
  <2>6. CASE op.kind = "create"
    BY <2>1, <2>3, <2>6, CreateHead DEF Program
  <2>7. CASE op.kind = "delete"
    <3>1. IsTail(todo, DeleteSteps) /\ DeleteFacts
      BY <1>1, <2>3, <2>7 DEF Program, DeleteInv
    <3>2. Left = 3
      BY <2>1, <3>1, DeleteHead
    <3>3. Published(u, op.acct) /\ Awaited
      BY <3>1, <3>2 DEF DeleteFacts
    <3>4. op.changed # NoPlan
      BY <2>4, <2>5, <3>1 DEF DeleteFacts
    <3>5. <<u, op.acct>> \notin Counted
      BY <3>1, <3>2, <3>4 DEF DeleteFacts
    <3> QED
      BY <2>1, <3>3, <3>5 DEF Published, Waiting, Counted
  <2>8. CASE op.kind \in {"update", "clear_auth"} /\ op.repair
    BY <2>1, <2>4, <2>5, <2>8 DEF RunFacts
  <2>9. CASE op.kind \in {"update", "clear_auth"} /\ ~op.repair
    <3>1. PlannedFacts
      BY <1>1, <2>2, <2>9 DEF PlannedInv, Planned
    <3>2. op.plan[u] # NoAccount
      BY <2>4, <3>1 DEF PlannedFacts
    <3>3. op.plan # NoPlan
      BY <2>5, <3>2
    <3>4. Left >= StopAt /\ Left < ApplyAt - 3
      <4>1. CASE op.kind = "update"
        BY <2>1, <2>3, <3>3, <4>1, ProgramIs, UpdateHead DEF StopAt, ApplyAt
      <4>2. CASE op.kind = "clear_auth"
        BY <2>1, <2>3, <3>3, <4>2, ProgramIs, ClearHead DEF StopAt, ApplyAt
      <4> QED
        BY <2>9, <4>1, <4>2
    <3>5. Left \in Nat /\ ApplyAt \in Nat
      BY <1>1, <2>3, RunHead DEF ApplyAt
    <3>6. Leaving
      BY <3>1, <3>4 DEF PlannedFacts
    <3>7. Left < ApplyAt - 1 /\ Left < ApplyAt - 2
      BY <3>4, <3>5
    <3>8. Published(u, op.acct) /\ Awaited /\ <<u, op.acct>> \notin Counted
      BY <3>2, <3>4, <3>6, <3>7 DEF Leaving
    <3> QED
      BY <2>1, <3>8 DEF Published, Waiting, Counted
  <2> QED
    BY <2>3, <2>6, <2>7, <2>8, <2>9 DEF Kind
<1>2. ASSUME At("rec_stop"), op.kind = "delete", Desired = NoAccount
      PROVE  Requested(op.acct) = {}
  <2>1. Busy /\ todo # <<>> /\ Head(todo) = "rec_stop"
    BY <1>2 DEF At
  <2>2. mode # "run"
    <3>1. ASSUME mode = "run" PROVE FALSE
      <4>1. Planning => Head(todo) = "plan"
        BY DEF Planning
      <4>2. op.kind \in Kind /\ IsTail(todo, Program)
        BY <2>1, <3>1, <4>1 DEF RunInv, RunFacts
      <4> QED
        BY <2>1, <3>1, <4>2, RunHead
    <3> QED
      BY <3>1
  <2>3. mode # "undo"
    BY <2>1, TailShorter DEF UndoInv, UndoFacts, UndoStep
  <2>4. mode = "recover" /\ RecoverDeleteFacts /\ IsTail(todo, RecoverDelete)
    BY <1>2, <2>1, <2>2, <2>3 DEF Busy, RecoverInv, RecoverFacts, DeleteRecovered
  <2>5. Left = 3
    BY <2>1, <2>4, RecoverDeleteHead
  <2>6. ASSUME NEW u \in User
        PROVE  <<u, op.acct>> \notin Waiting /\ <<u, op.acct>> \notin Counted
    BY <2>4, <2>5 DEF RecoverDeleteFacts, Published
  <2> QED
    BY <2>6 DEF Requested, Waiting, Counted
<1> QED
  BY <1>1, <1>2 DEF DrainedBeforeStop

\* The invariant of account operations, with any number of users, accounts,
\* operations, moves, requests, failures and crashes: how far an operation has
\* come tells whom it has moved, published, waited for and drained.
THEOREM LifecycleInvariant == Spec => []LifecycleInv
<1>1. Init => LifecycleInv
  BY LifecycleInitially
<1>2. LifecycleInv /\ [Next]_vars => LifecycleInv'
  BY LifecycleStep
<1> QED
  BY <1>1, <1>2, PTL DEF Spec

\* A container is stopped or restarted only when no request of the users the
\* operation has moved off it is left, by any number of users, accounts,
\* operations, moves, requests, failures and crashes; the exception is a
\* request a gateway had authorized and not yet counted when it loaded the
\* snapshot, which WaitAccountDrained cannot see.
THEOREM StopsAreDrained == Spec => []DrainedBeforeStop
<1>1. LifecycleInv => DrainedBeforeStop
  BY DrainedByInvariant
<1>2. Spec => []LifecycleInv
  BY LifecycleInvariant
<1> QED
  BY <1>1, <1>2, PTL

-----------------------------------------------------------------------------
(***************************************************************************)
(* The places an operation changes: the account rows, the proxy secrets,   *)
(* the account directories and the containers.                             *)
(***************************************************************************)

\* The four places agree about account a.
Clean(a) ==
    /\ Exists(a) <=> docker[a] # "none"
    /\ Exists(a) <=> disk[a] # "none"
    /\ a \in secret => Exists(a)
    /\ a \in custom => a \in secret

\* They agree about every account but the ones the journal names.
FrameInv == \A a \in Account \ {journal.acct, journal.new} : Clean(a)

\* The types of what an operation changes
HostTypeOK ==
    /\ custom \subseteq Account /\ secret \subseteq Account
    /\ disk \in [Account -> Disk] /\ backup \in Disk
    /\ docker \in [Account -> Container] /\ op.had \in Container

\* A journal names an operation, and users only when its routes are planned.
JournalInv ==
    /\ journal.kind = "none" => journal = NoJournal
    /\ journal.phase = "accepted" => journal.evac = NoPlan

\* The journal has not come further than the planned routes.
Early == journal.phase \in {"accepted", "routes_prepared"}

\* What the operation read before it began; what it means to write.
OriginFacts ==
    /\ op.kind \in Kind
    /\ op.kind = journal.kind /\ op.acct = journal.acct /\ op.new = journal.new
    /\ op.kind # "update" => op.new = op.acct
    /\ op.proxied => op.keyed
    /\ op.keyed => op.before # "absent"
    /\ op.had # "none" <=> op.before # "absent"
    /\ op.kind # "create" => op.before # "absent"
    /\ op.kind = "delete" => op.status = "absent" /\ ~op.custom /\ ~op.key
    /\ op.kind # "clear_auth" /\ op.custom => op.key
    /\ op.kind # "delete" => op.status # "absent"

\* The order in which an operation works
OrderFacts ==
    /\ \/ "secrets" \in did \/ "secrets_begun" \in did \/ "start" \in did \/ "stop" \in did
       \/ "remove_files" \in did
       => "control" \in did
    /\ "control" \in did => "files" \in did /\ op.kind # "clear_auth"
    /\ op.kind \in {"update", "clear_auth"} /\ "files" \in did => "routes_evacuated" \in did
    /\ "start" \in did /\ op.kind = "update" => "stop" \in did
    /\ op.kind = "create" => "stop" \notin did
    /\ op.kind = "create" /\ "files" \in did => op.before = "absent"
    /\ op.kind = "delete" => "start" \notin did
    /\ Early => ("files_prepared" \notin did /\ "routes_evacuated" \notin did /\ "control" \notin did)
    /\ journal.phase = "accepted" => ("routes_prepared" \notin did /\ "apply" \notin did)

\* The account rows: as the operation means them, or as it found them
RowWritten == "control" \in did /\ "undo_control" \notin did
RowFacts ==
    /\ RowWritten =>
          /\ catalog[op.new] = op.status
          /\ op.new \in custom <=> op.custom
          /\ Renames => ~Exists(op.acct) /\ op.acct \notin custom
    /\ ~RowWritten =>
          /\ catalog[op.acct] = op.before
          /\ op.acct \in custom <=> op.proxied
          /\ Renames => op.new \notin custom
          /\ Renames /\ "files" \in did => ~Exists(op.new)

\* The secrets likewise; in between they may be half written.
SecretsWritten == "secrets" \in did /\ "undo_secrets" \notin did
SecretsAsBefore == "undo_secrets" \in did \/ ("secrets" \notin did /\ "secrets_begun" \notin did)
SecretFacts ==
    /\ SecretsWritten =>
          /\ op.new \in secret <=> op.key
          /\ Renames => op.acct \notin secret
    /\ SecretsAsBefore =>
          /\ op.acct \in secret <=> op.keyed
          /\ Renames => op.new \notin secret
    /\ Renames /\ op.new \in secret => op.key

\* The account directories
FilesMoved == "files" \in did /\ "undo_files" \notin did
DiskFacts ==
    /\ op.kind = "create" =>
          (disk[op.acct] # "none" <=> FilesMoved \/ op.before # "absent")
    /\ op.kind = "delete" =>
          (disk[op.acct] = "none" <=> "remove_files" \in did /\ "undo_files" \notin did)
    /\ op.kind \in {"delete", "clear_auth"} /\ "files" \in did => backup # "none"
    /\ op.kind = "clear_auth" => disk[op.acct] # "none"
    /\ op.kind = "update" /\ ~Renames => disk[op.acct] # "none"
    /\ Renames => (disk[op.acct] = "none" <=> FilesMoved)
    /\ Renames /\ "files" \in did => (disk[op.new] # "none" <=> FilesMoved)

\* The containers
Started == "start" \in did /\ "undo_runtime" \notin did
DockerFacts ==
    /\ Started => docker[op.new] # "none"
    /\ Renames /\ "files" \in did /\ ~Started => docker[op.new] = "none"
    /\ "stop" \in did /\ "undo_runtime" \notin did /\ (Renames \/ ~Started) =>
          docker[op.acct] = "none"
    /\ "undo_runtime" \in did \/ ("start" \notin did /\ "stop" \notin did) =>
          (docker[op.acct] # "none" <=> op.before # "absent")

\* An operation or its rollback, as far as its steps have succeeded; a step of
\* the rollback that fails may leave secrets and containers half done.
WorkFacts ==
    /\ OriginFacts /\ OrderFacts /\ RowFacts /\ DiskFacts
    /\ ~op.err \/ Early => SecretFacts /\ DockerFacts
    /\ Renames /\ "files" \notin did => Clean(op.new) /\ op.new \notin secret
WorkInv == mode \in {"run", "undo"} => WorkFacts

\* In an operation the steps done are the ones of the program before the rest.
Past(P) == {P[i] : i \in 1..Len(P) - Left}
RunDidInv == mode = "run" =>
    /\ ~op.err
    /\ Planning => did = {}
    /\ ~Planning => did = Past(Program)

\* A step is still to come.
Ahead(s) == \E i \in 1..Left : todo[i] = s

\* The rollback has ahead of it what it must undo, publishes what it moves,
\* and leaves the host alone when the operation has not come to it.
UndoWorkFacts ==
    /\ \A i \in 1..Left : todo[i] = "finish" => i = Left
    /\ todo[1] = "undo_files" => "undo_files" \notin did
    /\ ~op.err /\ "control" \in did =>
          \A s \in {"undo_control", "undo_secrets", "undo_runtime"} : s \in did \/ Ahead(s)
    /\ ~op.err /\ "files" \in did => "undo_files" \in did \/ Ahead("undo_files")
    /\ \A i \in 1..Left :
          todo[i] = "undo_control" \/ (todo[i] = "undo_routes" /\ ~Empty) =>
             i < Left - 2 /\ todo[Left - 2] = "publish"
    /\ Ahead("undo_control") => "control" \in did
    /\ Early => \A i \in 1..Left :
          todo[i] \in {"undo_files", "undo_routes", "publish", "wait", "finish"}
    /\ journal.phase = "accepted" => \A i \in 1..Left : todo[i] \in {"undo_files", "finish"}
UndoWorkInv == mode = "undo" => UndoWorkFacts

\* What a recovery may rely on, whatever went before it.
Spared ==
    /\ Unchanged
    /\ \/ journal.phase = "accepted"
       \/ journal.phase = "routes_prepared" /\ journal.kind \in {"update", "clear_auth"}
RestFacts ==
    /\ journal.kind # "update" => journal.new = journal.acct
    /\ \A a \in {journal.acct, journal.new} : a \in custom => Exists(a)
    /\ journal.kind = "clear_auth" => disk[journal.acct] # "none"
    /\ journal.new # journal.acct /\ Exists(journal.acct) /\ Exists(journal.new) =>
          disk[journal.acct] # "none" /\ disk[journal.new] # "none"
    /\ Spared => IF journal.kind = "create"
               THEN docker[journal.acct] = "none" /\ journal.acct \notin secret
               ELSE Clean(journal.acct) /\ Clean(journal.new)
RestInv == mode \notin {"run", "undo"} /\ journal # NoJournal => RestFacts

\* The recovery of a creation that has come to nothing, and of an account that
\* is there
RecoverCreate ==
    <<"rec_secrets", "render", "publish", "wait", "rec_stop", "rec_files", "finish">>
RecoverAll ==
    <<"rec_secrets", "rec_files", "render", "rec_stop", "rec_start", "rec_routes">>
        \o Republish

\* How far a recovery has come, by the steps it has left.
RecoverAllFacts ==
    /\ IsTail(todo, RecoverAll)
    /\ Left < 9 => (Other # Desired => Other \notin secret)
    /\ Left < 8 => /\ disk[Desired] # "none"
                   /\ Other # Desired => disk[Other] = "none" /\ ~Exists(Other)
    /\ Left < 7 => custom \subseteq secret
    /\ Left = 5 => docker[op.acct] = "none" /\ docker[op.new] = "none"
    /\ Left < 5 => /\ docker[Desired] # "none"
                   /\ Other # Desired => docker[Other] = "none"
RecoverCreateFacts ==
    /\ IsTail(todo, RecoverCreate)
    /\ Left < 7 => op.acct \notin secret
    /\ Left < 6 => custom \subseteq secret
    /\ Left < 3 => docker[op.acct] = "none"
    /\ Left < 2 => disk[op.acct] = "none"
RecoverGoneFacts ==
    /\ Left < 8 => op.acct \notin secret
    /\ Left < 7 => custom \subseteq secret
    /\ Left < 3 => docker[op.acct] = "none"
    /\ Left < 2 => disk[op.acct] = "none"
RecoverSparedFacts ==
    /\ \A i \in 1..Left :
          /\ todo[i] \in {"rec_files", "rec_routes", "publish", "wait", "finish"}
          /\ todo[i] = "rec_files" => op.kind = "create"
          /\ todo[i] = "rec_routes" => i < Left - 2 /\ todo[Left - 2] = "publish"
          /\ todo[i] = "finish" => i = Left
    /\ op.kind = "create" => disk[op.acct] = "none" \/ Ahead("rec_files")
RecoverWorkFacts ==
    /\ journal.kind # "none" /\ op.plan = journal.evac
    /\ Spared => RecoverSparedFacts
    /\ ~Spared /\ Desired # NoAccount => RecoverAllFacts
    /\ ~Spared /\ Desired = NoAccount =>
          /\ op.kind = "create" => RecoverCreateFacts
          /\ op.kind # "create" => op.kind = "delete" /\ RecoverGoneFacts
RecoverWorkInv == mode = "recover" => RecoverWorkFacts

\* Who still has to publish: the failover worker, or Admin, which comes to it
\* by the rest of its program or by a recovery.
Fresh == snap.view = Build
MoverOwes ==
    \/ mv.st = "restored"
    \/ mv.st = "applied" /\ CanRestore(mv.plan)
AdminOwes ==
    /\ journal.phase # "accepted"
    /\ mode = "run" => ("apply" \in did \/ "control" \in did) /\ Ahead("publish")
    /\ mode = "undo" => Ahead("publish") \/ op.err
    /\ mode = "recover" => Ahead("publish")
SnapInv == Fresh \/ MoverOwes \/ AdminOwes

PlacesInv ==
    /\ HostTypeOK /\ FrameInv /\ JournalInv
    /\ WorkInv /\ RunDidInv /\ UndoWorkInv /\ RestInv /\ RecoverWorkInv
    /\ SnapInv

\* Which steps of a creation lie behind it.
LEMMA CreateDid ==
  ASSUME IsTail(todo, CreateSteps), did = Past(CreateSteps)
  PROVE  /\ Left \in 1..13
         /\ Head(todo) = "files" <=> Left = 13
         /\ Head(todo) = "control" <=> Left = 11
         /\ Head(todo) = "secrets" <=> Left = 10
         /\ Head(todo) = "start" <=> Left = 6
         /\ Head(todo) = "finish" <=> Left = 1
         /\ Head(todo) \notin {"secrets_begun", "stop", "remove_files", "restart", "apply",
              "restore", "routes_prepared", "accepted", "plan"}
         /\ "files" \in did <=> Left < 13
         /\ "files_prepared" \in did <=> Left < 12
         /\ "control" \in did <=> Left < 11
         /\ "secrets" \in did <=> Left < 10
         /\ "start" \in did <=> Left < 6
         /\ "secrets_begun" \notin did  /\ "stop" \notin did  /\ "remove_files" \notin did
         /\ "apply" \notin did  /\ "routes_prepared" \notin did  /\ "routes_evacuated" \notin did
         /\ "undo_files" \notin did  /\ "undo_runtime" \notin did  /\ "undo_secrets" \notin did
         /\ "undo_control" \notin did
         /\ Left > 4 => todo[Left - 3] = "publish"
<1>1. Len(CreateSteps) = 13 /\ CreateSteps \in Seq(Step)
  BY DEF CreateSteps, Step, Phase
<1>2. /\ Left \in 1..13 /\ Head(todo) = CreateSteps[14 - Left]
      /\ \A i \in 1..Left : todo[i] = CreateSteps[13 - Left + i]
  <2>1. Left \in 1..Len(CreateSteps) /\ Head(todo) = CreateSteps[Len(CreateSteps) + 1 - Left]
    BY <1>1, HeadAt
  <2>2. \A i \in 1..Len(todo) : todo[i] = CreateSteps[Len(CreateSteps) - Len(todo) + i]
    BY DEF IsTail
  <2> QED
    BY <1>1, <2>1, <2>2 DEF Left
<1>3. \A n \in 1..13 :
         /\ CreateSteps[14 - n] = "files" <=> n = 13
         /\ CreateSteps[14 - n] = "control" <=> n = 11
         /\ CreateSteps[14 - n] = "secrets" <=> n = 10
         /\ CreateSteps[14 - n] = "start" <=> n = 6
         /\ CreateSteps[14 - n] = "finish" <=> n = 1
         /\ CreateSteps[14 - n] \notin {"secrets_begun", "stop", "remove_files", "restart", "apply",
              "restore", "routes_prepared", "accepted", "plan"}
  BY DEF CreateSteps
<1>4. \A i \in 1..13 :
         /\ CreateSteps[i] = "files" <=> i = 1
         /\ CreateSteps[i] = "files_prepared" <=> i = 2
         /\ CreateSteps[i] = "control" <=> i = 3
         /\ CreateSteps[i] = "secrets" <=> i = 4
         /\ CreateSteps[i] = "start" <=> i = 8
         /\ CreateSteps[i] \notin {"secrets_begun", "stop", "remove_files", "apply", "routes_prepared",
              "routes_evacuated", "undo_files", "undo_runtime", "undo_secrets", "undo_control"}
  BY DEF CreateSteps
<1>5. \A s : s \in did <=> \E i \in 1..13 - Left : CreateSteps[i] = s
  BY <1>1 DEF Past
<1>6. Left \in Nat /\ \A i \in 1..13 - Left : i \in 1..13
  BY <1>2
<1>7. "files" \in did <=> Left < 13
  BY <1>2, <1>4, <1>5, <1>6
<1>8. "files_prepared" \in did <=> Left < 12
  BY <1>2, <1>4, <1>5, <1>6
<1>9. "control" \in did <=> Left < 11
  BY <1>2, <1>4, <1>5, <1>6
<1>10. "secrets" \in did <=> Left < 10
  BY <1>2, <1>4, <1>5, <1>6
<1>11. "start" \in did <=> Left < 6
  BY <1>2, <1>4, <1>5, <1>6
<1>12. \A s \in {"secrets_begun", "stop", "remove_files", "apply", "routes_prepared",
              "routes_evacuated", "undo_files", "undo_runtime", "undo_secrets", "undo_control"} : s \notin did
  BY <1>4, <1>5, <1>6
<1>13. Left > 4 => todo[Left - 3] = "publish"
  <2>1. CreateSteps[10] = "publish"
    BY DEF CreateSteps
  <2> QED
    BY <1>2, <2>1
<1> QED
  BY <1>2, <1>3, <1>7, <1>8, <1>9, <1>10, <1>11, <1>12, <1>13

\* Which steps of a deletion lie behind it.
LEMMA DeleteDid ==
  ASSUME IsTail(todo, DeleteSteps), did = Past(DeleteSteps)
  PROVE  /\ Left \in 1..15
         /\ Head(todo) = "files" <=> Left = 15
         /\ Head(todo) = "control" <=> Left = 13
         /\ Head(todo) = "secrets" <=> Left = 12
         /\ Head(todo) = "stop" <=> Left = 3
         /\ Head(todo) = "remove_files" <=> Left = 2
         /\ Head(todo) = "finish" <=> Left = 1
         /\ Head(todo) \notin {"secrets_begun", "start", "restart", "apply", "restore",
              "routes_prepared", "accepted", "plan"}
         /\ "files" \in did <=> Left < 15
         /\ "files_prepared" \in did <=> Left < 14
         /\ "control" \in did <=> Left < 13
         /\ "secrets" \in did <=> Left < 12
         /\ "stop" \in did <=> Left < 3
         /\ "remove_files" \in did <=> Left < 2
         /\ "secrets_begun" \notin did  /\ "start" \notin did  /\ "apply" \notin did
         /\ "routes_prepared" \notin did  /\ "routes_evacuated" \notin did  /\ "undo_files" \notin did
         /\ "undo_runtime" \notin did  /\ "undo_secrets" \notin did  /\ "undo_control" \notin did
         /\ Left > 7 => todo[Left - 6] = "publish"
<1>1. Len(DeleteSteps) = 15 /\ DeleteSteps \in Seq(Step)
  BY DEF DeleteSteps, Step, Phase
<1>2. /\ Left \in 1..15 /\ Head(todo) = DeleteSteps[16 - Left]
      /\ \A i \in 1..Left : todo[i] = DeleteSteps[15 - Left + i]
  <2>1. Left \in 1..Len(DeleteSteps) /\ Head(todo) = DeleteSteps[Len(DeleteSteps) + 1 - Left]
    BY <1>1, HeadAt
  <2>2. \A i \in 1..Len(todo) : todo[i] = DeleteSteps[Len(DeleteSteps) - Len(todo) + i]
    BY DEF IsTail
  <2> QED
    BY <1>1, <2>1, <2>2 DEF Left
<1>3. \A n \in 1..15 :
         /\ DeleteSteps[16 - n] = "files" <=> n = 15
         /\ DeleteSteps[16 - n] = "control" <=> n = 13
         /\ DeleteSteps[16 - n] = "secrets" <=> n = 12
         /\ DeleteSteps[16 - n] = "stop" <=> n = 3
         /\ DeleteSteps[16 - n] = "remove_files" <=> n = 2
         /\ DeleteSteps[16 - n] = "finish" <=> n = 1
         /\ DeleteSteps[16 - n] \notin {"secrets_begun", "start", "restart", "apply", "restore",
              "routes_prepared", "accepted", "plan"}
  BY DEF DeleteSteps
<1>4. \A i \in 1..15 :
         /\ DeleteSteps[i] = "files" <=> i = 1
         /\ DeleteSteps[i] = "files_prepared" <=> i = 2
         /\ DeleteSteps[i] = "control" <=> i = 3
         /\ DeleteSteps[i] = "secrets" <=> i = 4
         /\ DeleteSteps[i] = "stop" <=> i = 13
         /\ DeleteSteps[i] = "remove_files" <=> i = 14
         /\ DeleteSteps[i] \notin {"secrets_begun", "start", "apply", "routes_prepared", "routes_evacuated",
              "undo_files", "undo_runtime", "undo_secrets", "undo_control"}
  BY DEF DeleteSteps
<1>5. \A s : s \in did <=> \E i \in 1..15 - Left : DeleteSteps[i] = s
  BY <1>1 DEF Past
<1>6. Left \in Nat /\ \A i \in 1..15 - Left : i \in 1..15
  BY <1>2
<1>7. "files" \in did <=> Left < 15
  BY <1>2, <1>4, <1>5, <1>6
<1>8. "files_prepared" \in did <=> Left < 14
  BY <1>2, <1>4, <1>5, <1>6
<1>9. "control" \in did <=> Left < 13
  BY <1>2, <1>4, <1>5, <1>6
<1>10. "secrets" \in did <=> Left < 12
  BY <1>2, <1>4, <1>5, <1>6
<1>11. "stop" \in did <=> Left < 3
  BY <1>2, <1>4, <1>5, <1>6
<1>12. "remove_files" \in did <=> Left < 2
  BY <1>2, <1>4, <1>5, <1>6
<1>13. \A s \in {"secrets_begun", "start", "apply", "routes_prepared", "routes_evacuated",
              "undo_files", "undo_runtime", "undo_secrets", "undo_control"} : s \notin did
  BY <1>4, <1>5, <1>6
<1>14. Left > 7 => todo[Left - 6] = "publish"
  <2>1. DeleteSteps[9] = "publish"
    BY DEF DeleteSteps
  <2> QED
    BY <1>2, <2>1
<1> QED
  BY <1>2, <1>3, <1>7, <1>8, <1>9, <1>10, <1>11, <1>12, <1>13, <1>14

\* Which steps of an update that moves users lie behind it.
LEMMA UpdateDid ==
  ASSUME IsTail(todo, MovingUpdate), did = Past(MovingUpdate)
  PROVE  /\ Left \in 1..22
         /\ Head(todo) = "files" <=> Left = 16
         /\ Head(todo) = "control" <=> Left = 14
         /\ Head(todo) = "secrets" <=> Left = 12
         /\ Head(todo) = "secrets_begun" <=> Left = 13
         /\ Head(todo) = "start" <=> Left = 7
         /\ Head(todo) = "stop" <=> Left = 8
         /\ Head(todo) = "apply" <=> Left = 21
         /\ Head(todo) = "restore" <=> Left = 5
         /\ Head(todo) = "routes_prepared" <=> Left = 22
         /\ Head(todo) = "finish" <=> Left = 1
         /\ Head(todo) \notin {"remove_files", "restart", "accepted", "plan"}
         /\ "files" \in did <=> Left < 16
         /\ "files_prepared" \in did <=> Left < 15
         /\ "control" \in did <=> Left < 14
         /\ "secrets" \in did <=> Left < 12
         /\ "secrets_begun" \in did <=> Left < 13
         /\ "start" \in did <=> Left < 7
         /\ "stop" \in did <=> Left < 8
         /\ "apply" \in did <=> Left < 21
         /\ "routes_prepared" \in did <=> Left < 22
         /\ "routes_evacuated" \in did <=> Left < 17
         /\ "remove_files" \notin did  /\ "undo_files" \notin did  /\ "undo_runtime" \notin did
         /\ "undo_secrets" \notin did  /\ "undo_control" \notin did
         /\ Left > 4 => todo[Left - 3] = "publish"
<1>1. Len(MovingUpdate) = 22 /\ MovingUpdate \in Seq(Step)
  BY DEF MovingUpdate, AfterPlan, Evacuation, UpdateSteps, Step, Phase
<1>2. /\ Left \in 1..22 /\ Head(todo) = MovingUpdate[23 - Left]
      /\ \A i \in 1..Left : todo[i] = MovingUpdate[22 - Left + i]
  <2>1. Left \in 1..Len(MovingUpdate) /\ Head(todo) = MovingUpdate[Len(MovingUpdate) + 1 - Left]
    BY <1>1, HeadAt
  <2>2. \A i \in 1..Len(todo) : todo[i] = MovingUpdate[Len(MovingUpdate) - Len(todo) + i]
    BY DEF IsTail
  <2> QED
    BY <1>1, <2>1, <2>2 DEF Left
<1>3. \A n \in 1..22 :
         /\ MovingUpdate[23 - n] = "files" <=> n = 16
         /\ MovingUpdate[23 - n] = "control" <=> n = 14
         /\ MovingUpdate[23 - n] = "secrets" <=> n = 12
         /\ MovingUpdate[23 - n] = "secrets_begun" <=> n = 13
         /\ MovingUpdate[23 - n] = "start" <=> n = 7
         /\ MovingUpdate[23 - n] = "stop" <=> n = 8
         /\ MovingUpdate[23 - n] = "apply" <=> n = 21
         /\ MovingUpdate[23 - n] = "restore" <=> n = 5
         /\ MovingUpdate[23 - n] = "routes_prepared" <=> n = 22
         /\ MovingUpdate[23 - n] = "finish" <=> n = 1
         /\ MovingUpdate[23 - n] \notin {"remove_files", "restart", "accepted", "plan"}
  BY DEF MovingUpdate, AfterPlan, Evacuation, UpdateSteps
<1>4. \A i \in 1..22 :
         /\ MovingUpdate[i] = "files" <=> i = 7
         /\ MovingUpdate[i] = "files_prepared" <=> i = 8
         /\ MovingUpdate[i] = "control" <=> i = 9
         /\ MovingUpdate[i] = "secrets" <=> i = 11
         /\ MovingUpdate[i] = "secrets_begun" <=> i = 10
         /\ MovingUpdate[i] = "start" <=> i = 16
         /\ MovingUpdate[i] = "stop" <=> i = 15
         /\ MovingUpdate[i] = "apply" <=> i = 2
         /\ MovingUpdate[i] = "routes_prepared" <=> i = 1
         /\ MovingUpdate[i] = "routes_evacuated" <=> i = 6
         /\ MovingUpdate[i] \notin {"remove_files", "undo_files", "undo_runtime", "undo_secrets", "undo_control"}
  BY DEF MovingUpdate, AfterPlan, Evacuation, UpdateSteps
<1>5. \A s : s \in did <=> \E i \in 1..22 - Left : MovingUpdate[i] = s
  BY <1>1 DEF Past
<1>6. Left \in Nat /\ \A i \in 1..22 - Left : i \in 1..22
  BY <1>2
<1>7. "files" \in did <=> Left < 16
  BY <1>2, <1>4, <1>5, <1>6
<1>8. "files_prepared" \in did <=> Left < 15
  BY <1>2, <1>4, <1>5, <1>6
<1>9. "control" \in did <=> Left < 14
  BY <1>2, <1>4, <1>5, <1>6
<1>10. "secrets" \in did <=> Left < 12
  BY <1>2, <1>4, <1>5, <1>6
<1>11. "secrets_begun" \in did <=> Left < 13
  BY <1>2, <1>4, <1>5, <1>6
<1>12. "start" \in did <=> Left < 7
  BY <1>2, <1>4, <1>5, <1>6
<1>13. "stop" \in did <=> Left < 8
  BY <1>2, <1>4, <1>5, <1>6
<1>14. "apply" \in did <=> Left < 21
  BY <1>2, <1>4, <1>5, <1>6
<1>15. "routes_prepared" \in did <=> Left < 22
  BY <1>2, <1>4, <1>5, <1>6
<1>16. "routes_evacuated" \in did <=> Left < 17
  BY <1>2, <1>4, <1>5, <1>6
<1>17. \A s \in {"remove_files", "undo_files", "undo_runtime", "undo_secrets", "undo_control"} : s \notin did
  BY <1>4, <1>5, <1>6
<1>18. Left > 4 => todo[Left - 3] = "publish"
  <2>1. MovingUpdate[19] = "publish"
    BY DEF MovingUpdate, AfterPlan, Evacuation, UpdateSteps
  <2> QED
    BY <1>2, <2>1
<1> QED
  BY <1>2, <1>3, <1>7, <1>8, <1>9, <1>10, <1>11, <1>12, <1>13, <1>14, <1>15, <1>16, <1>17, <1>18

\* Which steps of an update that moves nobody lie behind it.
LEMMA PlainUpdateDid ==
  ASSUME IsTail(todo, PlainUpdate), did = Past(PlainUpdate)
  PROVE  /\ Left \in 1..18
         /\ Head(todo) = "files" <=> Left = 16
         /\ Head(todo) = "control" <=> Left = 14
         /\ Head(todo) = "secrets" <=> Left = 12
         /\ Head(todo) = "secrets_begun" <=> Left = 13
         /\ Head(todo) = "start" <=> Left = 7
         /\ Head(todo) = "stop" <=> Left = 8
         /\ Head(todo) = "restore" <=> Left = 5
         /\ Head(todo) = "routes_prepared" <=> Left = 18
         /\ Head(todo) = "finish" <=> Left = 1
         /\ Head(todo) \notin {"remove_files", "restart", "apply", "accepted", "plan"}
         /\ "files" \in did <=> Left < 16
         /\ "files_prepared" \in did <=> Left < 15
         /\ "control" \in did <=> Left < 14
         /\ "secrets" \in did <=> Left < 12
         /\ "secrets_begun" \in did <=> Left < 13
         /\ "start" \in did <=> Left < 7
         /\ "stop" \in did <=> Left < 8
         /\ "routes_prepared" \in did <=> Left < 18
         /\ "routes_evacuated" \in did <=> Left < 17
         /\ "remove_files" \notin did  /\ "apply" \notin did  /\ "undo_files" \notin did
         /\ "undo_runtime" \notin did  /\ "undo_secrets" \notin did  /\ "undo_control" \notin did
         /\ Left > 4 => todo[Left - 3] = "publish"
<1>1. Len(PlainUpdate) = 18 /\ PlainUpdate \in Seq(Step)
  BY DEF PlainUpdate, AfterPlan, Evacuation, UpdateSteps, Step, Phase
<1>2. /\ Left \in 1..18 /\ Head(todo) = PlainUpdate[19 - Left]
      /\ \A i \in 1..Left : todo[i] = PlainUpdate[18 - Left + i]
  <2>1. Left \in 1..Len(PlainUpdate) /\ Head(todo) = PlainUpdate[Len(PlainUpdate) + 1 - Left]
    BY <1>1, HeadAt
  <2>2. \A i \in 1..Len(todo) : todo[i] = PlainUpdate[Len(PlainUpdate) - Len(todo) + i]
    BY DEF IsTail
  <2> QED
    BY <1>1, <2>1, <2>2 DEF Left
<1>3. \A n \in 1..18 :
         /\ PlainUpdate[19 - n] = "files" <=> n = 16
         /\ PlainUpdate[19 - n] = "control" <=> n = 14
         /\ PlainUpdate[19 - n] = "secrets" <=> n = 12
         /\ PlainUpdate[19 - n] = "secrets_begun" <=> n = 13
         /\ PlainUpdate[19 - n] = "start" <=> n = 7
         /\ PlainUpdate[19 - n] = "stop" <=> n = 8
         /\ PlainUpdate[19 - n] = "restore" <=> n = 5
         /\ PlainUpdate[19 - n] = "routes_prepared" <=> n = 18
         /\ PlainUpdate[19 - n] = "finish" <=> n = 1
         /\ PlainUpdate[19 - n] \notin {"remove_files", "restart", "apply", "accepted", "plan"}
  BY DEF PlainUpdate, AfterPlan, Evacuation, UpdateSteps
<1>4. \A i \in 1..18 :
         /\ PlainUpdate[i] = "files" <=> i = 3
         /\ PlainUpdate[i] = "files_prepared" <=> i = 4
         /\ PlainUpdate[i] = "control" <=> i = 5
         /\ PlainUpdate[i] = "secrets" <=> i = 7
         /\ PlainUpdate[i] = "secrets_begun" <=> i = 6
         /\ PlainUpdate[i] = "start" <=> i = 12
         /\ PlainUpdate[i] = "stop" <=> i = 11
         /\ PlainUpdate[i] = "routes_prepared" <=> i = 1
         /\ PlainUpdate[i] = "routes_evacuated" <=> i = 2
         /\ PlainUpdate[i] \notin {"remove_files", "apply", "undo_files", "undo_runtime", "undo_secrets",
              "undo_control"}
  BY DEF PlainUpdate, AfterPlan, Evacuation, UpdateSteps
<1>5. \A s : s \in did <=> \E i \in 1..18 - Left : PlainUpdate[i] = s
  BY <1>1 DEF Past
<1>6. Left \in Nat /\ \A i \in 1..18 - Left : i \in 1..18
  BY <1>2
<1>7. "files" \in did <=> Left < 16
  BY <1>2, <1>4, <1>5, <1>6
<1>8. "files_prepared" \in did <=> Left < 15
  BY <1>2, <1>4, <1>5, <1>6
<1>9. "control" \in did <=> Left < 14
  BY <1>2, <1>4, <1>5, <1>6
<1>10. "secrets" \in did <=> Left < 12
  BY <1>2, <1>4, <1>5, <1>6
<1>11. "secrets_begun" \in did <=> Left < 13
  BY <1>2, <1>4, <1>5, <1>6
<1>12. "start" \in did <=> Left < 7
  BY <1>2, <1>4, <1>5, <1>6
<1>13. "stop" \in did <=> Left < 8
  BY <1>2, <1>4, <1>5, <1>6
<1>14. "routes_prepared" \in did <=> Left < 18
  BY <1>2, <1>4, <1>5, <1>6
<1>15. "routes_evacuated" \in did <=> Left < 17
  BY <1>2, <1>4, <1>5, <1>6
<1>16. \A s \in {"remove_files", "apply", "undo_files", "undo_runtime", "undo_secrets",
              "undo_control"} : s \notin did
  BY <1>4, <1>5, <1>6
<1>17. Left > 4 => todo[Left - 3] = "publish"
  <2>1. PlainUpdate[15] = "publish"
    BY DEF PlainUpdate, AfterPlan, Evacuation, UpdateSteps
  <2> QED
    BY <1>2, <2>1
<1> QED
  BY <1>2, <1>3, <1>7, <1>8, <1>9, <1>10, <1>11, <1>12, <1>13, <1>14, <1>15, <1>16, <1>17

\* Which steps of clearing an account that moves users lie behind it.
LEMMA ClearDid ==
  ASSUME IsTail(todo, MovingClear), did = Past(MovingClear)
  PROVE  /\ Left \in 1..14
         /\ Head(todo) = "files" <=> Left = 8
         /\ Head(todo) = "restart" <=> Left = 6
         /\ Head(todo) = "apply" <=> Left = 13
         /\ Head(todo) = "restore" <=> Left = 4
         /\ Head(todo) = "routes_prepared" <=> Left = 14
         /\ Head(todo) = "finish" <=> Left = 1
         /\ Head(todo) \notin {"control", "secrets", "secrets_begun", "start", "stop",
              "remove_files", "accepted", "plan"}
         /\ "files" \in did <=> Left < 8
         /\ "files_prepared" \in did <=> Left < 7
         /\ "apply" \in did <=> Left < 13
         /\ "routes_prepared" \in did <=> Left < 14
         /\ "routes_evacuated" \in did <=> Left < 9
         /\ "control" \notin did  /\ "secrets" \notin did  /\ "secrets_begun" \notin did
         /\ "start" \notin did  /\ "stop" \notin did  /\ "remove_files" \notin did
         /\ "undo_files" \notin did  /\ "undo_runtime" \notin did  /\ "undo_secrets" \notin did
         /\ "undo_control" \notin did
         /\ Left > 3 => todo[Left - 2] = "publish"
<1>1. Len(MovingClear) = 14 /\ MovingClear \in Seq(Step)
  BY DEF MovingClear, AfterPlan, Evacuation, ClearAuthSteps, Step, Phase
<1>2. /\ Left \in 1..14 /\ Head(todo) = MovingClear[15 - Left]
      /\ \A i \in 1..Left : todo[i] = MovingClear[14 - Left + i]
  <2>1. Left \in 1..Len(MovingClear) /\ Head(todo) = MovingClear[Len(MovingClear) + 1 - Left]
    BY <1>1, HeadAt
  <2>2. \A i \in 1..Len(todo) : todo[i] = MovingClear[Len(MovingClear) - Len(todo) + i]
    BY DEF IsTail
  <2> QED
    BY <1>1, <2>1, <2>2 DEF Left
<1>3. \A n \in 1..14 :
         /\ MovingClear[15 - n] = "files" <=> n = 8
         /\ MovingClear[15 - n] = "restart" <=> n = 6
         /\ MovingClear[15 - n] = "apply" <=> n = 13
         /\ MovingClear[15 - n] = "restore" <=> n = 4
         /\ MovingClear[15 - n] = "routes_prepared" <=> n = 14
         /\ MovingClear[15 - n] = "finish" <=> n = 1
         /\ MovingClear[15 - n] \notin {"control", "secrets", "secrets_begun", "start", "stop",
              "remove_files", "accepted", "plan"}
  BY DEF MovingClear, AfterPlan, Evacuation, ClearAuthSteps
<1>4. \A i \in 1..14 :
         /\ MovingClear[i] = "files" <=> i = 7
         /\ MovingClear[i] = "files_prepared" <=> i = 8
         /\ MovingClear[i] = "apply" <=> i = 2
         /\ MovingClear[i] = "routes_prepared" <=> i = 1
         /\ MovingClear[i] = "routes_evacuated" <=> i = 6
         /\ MovingClear[i] \notin {"control", "secrets", "secrets_begun", "start", "stop",
              "remove_files", "undo_files", "undo_runtime", "undo_secrets", "undo_control"}
  BY DEF MovingClear, AfterPlan, Evacuation, ClearAuthSteps
<1>5. \A s : s \in did <=> \E i \in 1..14 - Left : MovingClear[i] = s
  BY <1>1 DEF Past
<1>6. Left \in Nat /\ \A i \in 1..14 - Left : i \in 1..14
  BY <1>2
<1>7. "files" \in did <=> Left < 8
  BY <1>2, <1>4, <1>5, <1>6
<1>8. "files_prepared" \in did <=> Left < 7
  BY <1>2, <1>4, <1>5, <1>6
<1>9. "apply" \in did <=> Left < 13
  BY <1>2, <1>4, <1>5, <1>6
<1>10. "routes_prepared" \in did <=> Left < 14
  BY <1>2, <1>4, <1>5, <1>6
<1>11. "routes_evacuated" \in did <=> Left < 9
  BY <1>2, <1>4, <1>5, <1>6
<1>12. \A s \in {"control", "secrets", "secrets_begun", "start", "stop",
              "remove_files", "undo_files", "undo_runtime", "undo_secrets", "undo_control"} : s \notin did
  BY <1>4, <1>5, <1>6
<1>13. Left > 3 => todo[Left - 2] = "publish"
  <2>1. MovingClear[12] = "publish"
    BY DEF MovingClear, AfterPlan, Evacuation, ClearAuthSteps
  <2> QED
    BY <1>2, <2>1
<1> QED
  BY <1>2, <1>3, <1>7, <1>8, <1>9, <1>10, <1>11, <1>12, <1>13

\* Which steps of clearing an account that moves nobody lie behind it.
LEMMA PlainClearDid ==
  ASSUME IsTail(todo, PlainClear), did = Past(PlainClear)
  PROVE  /\ Left \in 1..8
         /\ Head(todo) = "files" <=> Left = 6
         /\ Head(todo) = "restart" <=> Left = 4
         /\ Head(todo) = "restore" <=> Left = 2
         /\ Head(todo) = "routes_prepared" <=> Left = 8
         /\ Head(todo) = "finish" <=> Left = 1
         /\ Head(todo) \notin {"control", "secrets", "secrets_begun", "start", "stop",
              "remove_files", "apply", "accepted", "plan"}
         /\ "files" \in did <=> Left < 6
         /\ "files_prepared" \in did <=> Left < 5
         /\ "routes_prepared" \in did <=> Left < 8
         /\ "routes_evacuated" \in did <=> Left < 7
         /\ "control" \notin did  /\ "secrets" \notin did  /\ "secrets_begun" \notin did
         /\ "start" \notin did  /\ "stop" \notin did  /\ "remove_files" \notin did
         /\ "apply" \notin did  /\ "undo_files" \notin did  /\ "undo_runtime" \notin did
         /\ "undo_secrets" \notin did  /\ "undo_control" \notin did
<1>1. Len(PlainClear) = 8 /\ PlainClear \in Seq(Step)
  BY DEF PlainClear, AfterPlan, Evacuation, ClearAuthSteps, Step, Phase
<1>2. /\ Left \in 1..8 /\ Head(todo) = PlainClear[9 - Left]
      /\ \A i \in 1..Left : todo[i] = PlainClear[8 - Left + i]
  <2>1. Left \in 1..Len(PlainClear) /\ Head(todo) = PlainClear[Len(PlainClear) + 1 - Left]
    BY <1>1, HeadAt
  <2>2. \A i \in 1..Len(todo) : todo[i] = PlainClear[Len(PlainClear) - Len(todo) + i]
    BY DEF IsTail
  <2> QED
    BY <1>1, <2>1, <2>2 DEF Left
<1>3. \A n \in 1..8 :
         /\ PlainClear[9 - n] = "files" <=> n = 6
         /\ PlainClear[9 - n] = "restart" <=> n = 4
         /\ PlainClear[9 - n] = "restore" <=> n = 2
         /\ PlainClear[9 - n] = "routes_prepared" <=> n = 8
         /\ PlainClear[9 - n] = "finish" <=> n = 1
         /\ PlainClear[9 - n] \notin {"control", "secrets", "secrets_begun", "start", "stop",
              "remove_files", "apply", "accepted", "plan"}
  BY DEF PlainClear, AfterPlan, Evacuation, ClearAuthSteps
<1>4. \A i \in 1..8 :
         /\ PlainClear[i] = "files" <=> i = 3
         /\ PlainClear[i] = "files_prepared" <=> i = 4
         /\ PlainClear[i] = "routes_prepared" <=> i = 1
         /\ PlainClear[i] = "routes_evacuated" <=> i = 2
         /\ PlainClear[i] \notin {"control", "secrets", "secrets_begun", "start", "stop",
              "remove_files", "apply", "undo_files", "undo_runtime", "undo_secrets",
              "undo_control"}
  BY DEF PlainClear, AfterPlan, Evacuation, ClearAuthSteps
<1>5. \A s : s \in did <=> \E i \in 1..8 - Left : PlainClear[i] = s
  BY <1>1 DEF Past
<1>6. Left \in Nat /\ \A i \in 1..8 - Left : i \in 1..8
  BY <1>2
<1>7. "files" \in did <=> Left < 6
  BY <1>2, <1>4, <1>5, <1>6
<1>8. "files_prepared" \in did <=> Left < 5
  BY <1>2, <1>4, <1>5, <1>6
<1>9. "routes_prepared" \in did <=> Left < 8
  BY <1>2, <1>4, <1>5, <1>6
<1>10. "routes_evacuated" \in did <=> Left < 7
  BY <1>2, <1>4, <1>5, <1>6
<1>11. \A s \in {"control", "secrets", "secrets_begun", "start", "stop",
              "remove_files", "apply", "undo_files", "undo_runtime", "undo_secrets",
              "undo_control"} : s \notin did
  BY <1>4, <1>5, <1>6
<1> QED
  BY <1>2, <1>3, <1>7, <1>8, <1>9, <1>10, <1>11

\* What lies behind and ahead of the next step of an operation
RunPlaceFacts ==
    /\ ("undo_files" \notin did /\ "undo_runtime" \notin did /\ "undo_secrets" \notin did /\ "undo_control" \notin did)
    /\ Head(todo) \notin {"accepted", "plan"} /\ Left \in Nat /\ Left >= 1
    /\ Head(todo) = "files" =>
          /\ ("files" \notin did /\ "control" \notin did /\ "remove_files" \notin did)
          /\ op.kind \in {"update", "clear_auth"} => "routes_evacuated" \in did
    /\ Head(todo) = "control" =>
          "files" \in did /\ "files_prepared" \in did /\ "control" \notin did
             /\ op.kind # "clear_auth"
    /\ Head(todo) \in {"secrets", "secrets_begun"} => "control" \in did
    /\ Head(todo) = "secrets_begun" => "secrets" \notin did
    /\ Head(todo) = "stop" =>
          "control" \in did /\ "start" \notin did /\ op.kind \in {"update", "delete"}
    /\ Head(todo) = "start" =>
          "control" \in did /\ op.kind \in {"create", "update"}
             /\ (op.kind = "update" => "stop" \in did)
    /\ Head(todo) = "remove_files" => op.kind = "delete" /\ "control" \in did
    /\ Head(todo) = "restart" => op.kind = "clear_auth"
    /\ Head(todo) = "routes_prepared" =>
          ("files_prepared" \notin did /\ "routes_evacuated" \notin did /\ "control" \notin did)
    /\ Head(todo) = "apply" =>
          /\ "routes_prepared" \in did
          /\ ("files" \notin did /\ "control" \notin did /\ "routes_evacuated" \notin did /\ "apply" \notin did)
          /\ op.kind \in {"update", "clear_auth"} /\ ~Empty
    /\ Head(todo) = "restore" =>
          \/ Empty /\ op.kind = "clear_auth"
          \/ ("apply" \in did \/ "control" \in did) /\ "routes_prepared" \in did
    /\ ("apply" \in did \/ "routes_evacuated" \in did) => "routes_prepared" \in did
    /\ "apply" \in did => op.kind \in {"update", "clear_auth"} /\ ~Empty
    /\ Head(todo) = "finish" =>
          /\ Left = 1
          /\ op.kind = "create" => "files" \in did /\ "control" \in did /\ "secrets" \in did /\ "start" \in did
          /\ op.kind = "delete" => "control" \in did /\ "secrets" \in did /\ "stop" \in did /\ "remove_files" \in did
          /\ op.kind = "update" => "files" \in did /\ "control" \in did /\ "secrets" \in did /\ "start" \in did /\ "stop" \in did

\* A step that changes the store is followed by a publication.
PublishFollows ==
    \/ Head(todo) \in {"apply", "control"}
    \/ Head(todo) = "restore" /\ ~(Empty /\ op.kind = "clear_auth")
  => \E k \in 2..Left : todo[k] = "publish"

\* The steps behind an operation and its next one, whatever its program.
LEMMA RunPlace ==
  ASSUME mode = "run", op.kind \in Kind, IsTail(todo, Program), did = Past(Program)
  PROVE  RunPlaceFacts /\ PublishFollows
<1>1. CASE op.kind = "create"
  <2>1. IsTail(todo, CreateSteps) /\ did = Past(CreateSteps)
    BY <1>1 DEF Program
  <2> HIDE DEF Empty, Left
  <2>2. RunPlaceFacts
    BY <1>1, <2>1, CreateDid DEF RunPlaceFacts
  <2>3. ASSUME Left > 4 PROVE \E i \in 2..Left : todo[i] = "publish"
    <3>1. Left - 3 \in 2..Left /\ todo[Left - 3] = "publish"
      BY <2>1, <2>3, CreateDid
    <3> QED
      BY <3>1
  <2>4. PublishFollows
    BY <1>1, <2>1, <2>3, CreateDid DEF PublishFollows
  <2> QED
    BY <2>2, <2>4
<1>2. CASE op.kind = "delete"
  <2>1. IsTail(todo, DeleteSteps) /\ did = Past(DeleteSteps)
    BY <1>2 DEF Program
  <2> HIDE DEF Empty, Left
  <2>2. RunPlaceFacts
    BY <1>2, <2>1, DeleteDid DEF RunPlaceFacts
  <2>3. ASSUME Left > 7 PROVE \E i \in 2..Left : todo[i] = "publish"
    <3>1. Left - 6 \in 2..Left /\ todo[Left - 6] = "publish"
      BY <2>1, <2>3, DeleteDid
    <3> QED
      BY <3>1
  <2>4. PublishFollows
    BY <1>2, <2>1, <2>3, DeleteDid DEF PublishFollows
  <2> QED
    BY <2>2, <2>4
<1>3. CASE op.kind = "update" /\ Empty
  <2>1. IsTail(todo, PlainUpdate) /\ did = Past(PlainUpdate)
    BY <1>3 DEF Program
  <2> HIDE DEF Empty, Left
  <2>2. RunPlaceFacts
    BY <1>3, <2>1, PlainUpdateDid DEF RunPlaceFacts
  <2>3. ASSUME Left > 4 PROVE \E i \in 2..Left : todo[i] = "publish"
    <3>1. Left - 3 \in 2..Left /\ todo[Left - 3] = "publish"
      BY <2>1, <2>3, PlainUpdateDid
    <3> QED
      BY <3>1
  <2>4. PublishFollows
    BY <1>3, <2>1, <2>3, PlainUpdateDid DEF PublishFollows
  <2> QED
    BY <2>2, <2>4
<1>4. CASE op.kind = "update" /\ ~Empty
  <2>1. IsTail(todo, MovingUpdate) /\ did = Past(MovingUpdate)
    BY <1>4 DEF Program
  <2> HIDE DEF Empty, Left
  <2>2. RunPlaceFacts
    BY <1>4, <2>1, UpdateDid DEF RunPlaceFacts
  <2>3. ASSUME Left > 4 PROVE \E i \in 2..Left : todo[i] = "publish"
    <3>1. Left - 3 \in 2..Left /\ todo[Left - 3] = "publish"
      BY <2>1, <2>3, UpdateDid
    <3> QED
      BY <3>1
  <2>4. PublishFollows
    BY <1>4, <2>1, <2>3, UpdateDid DEF PublishFollows
  <2> QED
    BY <2>2, <2>4
<1>5. CASE op.kind = "clear_auth" /\ Empty
  <2>1. IsTail(todo, PlainClear) /\ did = Past(PlainClear)
    BY <1>5 DEF Program
  <2> HIDE DEF Empty, Left
  <2>2. RunPlaceFacts
    BY <1>5, <2>1, PlainClearDid DEF RunPlaceFacts
  <2>4. PublishFollows
    BY <1>5, <2>1, PlainClearDid DEF PublishFollows
  <2> QED
    BY <2>2, <2>4
<1>6. CASE op.kind = "clear_auth" /\ ~Empty
  <2>1. IsTail(todo, MovingClear) /\ did = Past(MovingClear)
    BY <1>6 DEF Program
  <2> HIDE DEF Empty, Left
  <2>2. RunPlaceFacts
    BY <1>6, <2>1, ClearDid DEF RunPlaceFacts
  <2>3. ASSUME Left > 3 PROVE \E i \in 2..Left : todo[i] = "publish"
    <3>1. Left - 2 \in 2..Left /\ todo[Left - 2] = "publish"
      BY <2>1, <2>3, ClearDid
    <3> QED
      BY <3>1
  <2>4. PublishFollows
    BY <1>6, <2>1, <2>3, ClearDid DEF PublishFollows
  <2> QED
    BY <2>2, <2>4
<1> QED
  BY <1>1, <1>2, <1>3, <1>4, <1>5, <1>6 DEF Kind

\* A step is done: it is behind the operation, whose request stays.
SameRequest ==
    /\ op'.kind = op.kind /\ op'.acct = op.acct /\ op'.new = op.new
    /\ op'.status = op.status /\ op'.custom = op.custom /\ op'.key = op.key /\ op'.repair = op.repair
    /\ op'.plan = op.plan /\ op'.before = op.before /\ op'.proxied = op.proxied
    /\ op'.keyed = op.keyed /\ op'.had = op.had /\ op'.err = op.err
\* A step of an operation or a rollback is done.
StepDone ==
    /\ Advances /\ SameRequest
    /\ did' = did \cup {Head(todo)}
    /\ journal'.phase = IF Head(todo) \in Phase THEN Head(todo) ELSE journal.phase

\* What the parts of the invariant look at has not changed.
SameMarks(S) == \A s \in S : s \in did' <=> s \in did
OrderMarks ==
    {"files", "files_prepared", "control", "secrets", "secrets_begun", "start", "stop",
     "remove_files", "routes_prepared", "routes_evacuated", "apply"}

\* What does not depend on a step stays as it is.
LEMMA MarksStay ==
  ASSUME StepDone, NEW S, Head(todo) \notin S
  PROVE  SameMarks(S)
  BY DEF StepDone, SameMarks

\* What the operation read stays as it was.
LEMMA OriginStays ==
  ASSUME OriginFacts, SameRequest, journal'.kind = journal.kind,
         journal'.acct = journal.acct, journal'.new = journal.new
  PROVE  OriginFacts'
  BY DEF OriginFacts, SameRequest

\* The rows stay right under a step on other places.
LEMMA RowStays ==
  ASSUME RowFacts, SameRequest, catalog' = catalog, custom' = custom,
         SameMarks({"control", "undo_control", "files"})
  PROVE  RowFacts'
  BY DEF RowFacts, RowWritten, SameRequest, SameMarks, Renames, Exists

\* The secrets stay right under a step on other places.
LEMMA SecretStays ==
  ASSUME SecretFacts, SameRequest, secret' = secret,
         SameMarks({"secrets", "secrets_begun", "undo_secrets"})
  PROVE  SecretFacts'
  BY DEF SecretFacts, SecretsWritten, SecretsAsBefore, SameRequest, SameMarks, Renames

\* The directories stay right under a step on other places.
LEMMA DiskStays ==
  ASSUME DiskFacts, SameRequest, disk' = disk, backup' = backup,
         SameMarks({"files", "remove_files", "undo_files"})
  PROVE  DiskFacts'
  BY DEF DiskFacts, FilesMoved, SameRequest, SameMarks, Renames

\* The containers stay right under a step on other places.
LEMMA DockerStays ==
  ASSUME DockerFacts, SameRequest, docker' = docker,
         SameMarks({"files", "start", "stop", "undo_runtime"})
  PROVE  DockerFacts'
  BY DEF DockerFacts, Started, SameRequest, SameMarks, Renames

\* The order of the steps holds under a step it does not speak of.
LEMMA OrderStays ==
  ASSUME OrderFacts, SameRequest, journal'.phase = journal.phase, SameMarks(OrderMarks)
  PROVE  OrderFacts'
  BY DEF OrderFacts, SameRequest, SameMarks, OrderMarks, Early

\* A renamed account leaves its new name alone until its files are moved.
NewUntaken == Renames /\ "files" \notin did => Clean(op.new) /\ op.new \notin secret

\* The places of account a do not change.
Same(a) ==
    /\ catalog'[a] = catalog[a] /\ docker'[a] = docker[a] /\ disk'[a] = disk[a]
    /\ a \in secret' <=> a \in secret
    /\ a \in custom' <=> a \in custom

\* An account nothing happens to stays in order.
LEMMA CleanStays ==
  ASSUME NEW a, Same(a), Clean(a)
  PROVE  Clean(a)'
  BY DEF Same, Clean, Exists

\* A step that touches only the journal's accounts leaves the others in order.
LEMMA FrameStays ==
  ASSUME FrameInv, journal'.acct = journal.acct, journal'.new = journal.new,
         \A a \in Account \ {journal.acct, journal.new} : Same(a)
  PROVE  FrameInv'
<1>1. \A a \in Account \ {journal.acct, journal.new} : Clean(a)'
  BY CleanStays DEF FrameInv
<1> QED
  BY <1>1 DEF FrameInv

\* The new name of an account stays free until its files are moved.
LEMMA NewStays ==
  ASSUME NewUntaken, SameRequest, Renames /\ "files" \notin did => Same(op.new),
         "files" \in did => "files" \in did'
  PROVE  NewUntaken'
<1>1. Renames' <=> Renames
  BY DEF Renames, SameRequest
<1>2. ASSUME Renames, "files" \notin did
      PROVE  (Clean(op.new) /\ op.new \notin secret)'
  <2>1. Clean(op.new) /\ op.new \notin secret /\ Same(op.new) /\ op'.new = op.new
    BY <1>2 DEF NewUntaken, SameRequest
  <2> QED
    BY <2>1 DEF Clean, Same, Exists
<1> QED
  BY <1>1, <1>2 DEF NewUntaken

\* An operation that has planned knows what lies behind its next step.
LEMMA PlaceNow ==
  ASSUME LifecycleInv, RunDidInv, mode = "run", Head(todo) # "plan"
  PROVE  /\ RunPlaceFacts /\ PublishFollows /\ ~op.err
         /\ op.kind \in Kind /\ IsTail(todo, Program) /\ did = Past(Program) /\ ~Planning
<1>1. RunFacts
  BY DEF LifecycleInv, RunInv
<1>2. ~Planning
  BY DEF Planning
<1>3. op.kind \in Kind /\ IsTail(todo, Program)
  BY <1>1, <1>2 DEF RunFacts
<1>4. did = Past(Program) /\ ~op.err
  BY <1>2 DEF RunDidInv
<1> QED
  BY <1>2, <1>3, <1>4, RunPlace

\* A step of an operation is added to the ones done.
LEMMA RunDidStep ==
  ASSUME LifecycleInv, RunDidInv, StepDone
  PROVE  RunDidInv'
<1> SUFFICES ASSUME mode = "run" PROVE RunDidInv'
  BY DEF StepDone, Advances, RunDidInv
<1>1. Head(todo) # "plan" /\ Advances /\ mode' = "run" /\ op'.err = op.err
  BY DEF StepDone, Advances, SameRequest
<1>2. /\ IsTail(todo, Program) /\ did = Past(Program) /\ op.kind \in Kind /\ ~op.err
  BY <1>1, PlaceNow
<1>3. /\ Program' = Program /\ Left \in Nat /\ Left' = Left - 1
      /\ RunFacts' /\ IsTail(todo, Program)'
  BY <1>1, AdvanceRun
<1>4. ~Planning'
  <2>1. (mode = "run" /\ op.kind \in Kind /\ IsTail(todo, Program))'
    BY <1>1, <1>3 DEF RunFacts
  <2>2. (mode = "run" /\ op.kind \in Kind /\ IsTail(todo, Program) => ~Planning)'
    BY RunHead, PTL
  <2> QED
    BY <2>1, <2>2
<1>5. Program \in Seq(Step) /\ Left \in 1..Len(Program) /\ Len(Program) \in Nat
  BY <1>2, ProgramSeq DEF IsTail, Left
<1>6. Head(todo) = Program[Len(Program) + 1 - Left]
  BY <1>2, <1>5, HeadAt
<1>7. did' = {Program[i] : i \in 1..Len(Program) - (Left - 1)}
  <2>1. did' = {Program[i] : i \in 1..Len(Program) - Left} \cup {Program[Len(Program) + 1 - Left]}
    BY <1>2, <1>6 DEF StepDone, Past
  <2>2. \A i : i \in 1..Len(Program) - (Left - 1) <=>
               i \in 1..Len(Program) - Left \/ i = Len(Program) + 1 - Left
    BY <1>5
  <2> QED
    BY <2>1, <2>2
<1>8. did' = Past(Program)'
  BY <1>3, <1>7 DEF Past
<1> QED
  BY <1>1, <1>2, <1>4, <1>8 DEF RunDidInv

\* An operation works in order.
LEMMA OrderRuns ==
  ASSUME LifecycleInv, RunDidInv, WorkInv, StepDone, mode = "run",
         op.kind = "create" /\ Head(todo) = "files" => op.before = "absent"
  PROVE  OrderFacts'
<1>1. RunPlaceFacts /\ op.kind \in Kind
  BY PlaceNow DEF StepDone, Advances
<1>2. OrderFacts
  BY DEF WorkInv, WorkFacts
<1>3. /\ op'.kind = op.kind /\ op'.before = op.before
      /\ \A s : s \in did' <=> s \in did \/ s = Head(todo)
  BY DEF StepDone, SameRequest
<1>4. CASE Head(todo) \in Phase
  <2>1. journal'.phase = Head(todo)
    BY <1>4 DEF StepDone
  <2> QED
    BY <1>1, <1>2, <1>3, <1>4, <2>1 DEF OrderFacts, RunPlaceFacts, Early, Phase, Kind
<1>5. CASE Head(todo) \notin Phase
  <2>1. journal'.phase = journal.phase
    BY <1>5 DEF StepDone
  <2> QED
    BY <1>1, <1>2, <1>3, <1>5, <2>1 DEF OrderFacts, RunPlaceFacts, Early, Phase, Kind
<1> QED
  BY <1>4, <1>5

\* A rollback takes steps of a rollback only.
LEMMA UndoHead ==
  ASSUME LifecycleInv, mode = "undo"
  PROVE  /\ todo # <<>> /\ Head(todo) \in UndoStep /\ Head(todo) = todo[1]
         /\ Left \in Nat /\ Left >= 1 /\ Left = Len(todo)
         /\ Tail(todo) \in Seq(UndoStep) /\ Len(Tail(todo)) = Left - 1
         /\ \A i \in 1..Left - 1 : Tail(todo)[i] = todo[i + 1]
<1>1. todo \in Seq(UndoStep) /\ todo # <<>>
  BY DEF LifecycleInv, UndoInv, UndoFacts
<1> QED
  BY <1>1, TailShorter DEF Left

\* What is left of a rollback after any number of its steps.
Shorter(k) ==
    /\ k \in Nat /\ k >= 1 /\ Left \in Nat /\ Left' \in Nat /\ Left' = Left - k /\ Left' >= 1
    /\ \A i \in 1..Left' : todo'[i] = todo[i + k]
    /\ todo'[1] # "undo_files"
    /\ journal'.phase = journal.phase /\ op'.plan = op.plan
    /\ "control" \in did' <=> "control" \in did

\* A rollback that goes on has ahead of it what it must still undo.
LEMMA UndoSuffix ==
  ASSUME UndoWorkFacts, NEW k, Shorter(k),
         ~op'.err /\ "control" \in did' =>
            \A s \in {"undo_control", "undo_secrets", "undo_runtime"} : s \in did' \/ Ahead(s)',
         ~op'.err /\ "files" \in did' => "undo_files" \in did' \/ Ahead("undo_files")'
  PROVE  UndoWorkFacts'
<1>1. /\ k \in Nat /\ k >= 1 /\ Left \in Nat /\ Left' \in Nat /\ Left' = Left - k /\ Left' >= 1
      /\ \A i \in 1..Left' : todo'[i] = todo[i + k] /\ i + k \in 1..Left
  BY DEF Shorter
<1>2. (Empty' <=> Empty) /\ (Early' <=> Early) /\ journal'.phase = journal.phase
  BY DEF Shorter, Empty, Early
<1>3. (\A i \in 1..Left : todo[i] = "finish" => i = Left)'
  <2>1. ASSUME NEW i \in 1..Left', todo'[i] = "finish" PROVE i = Left'
    <3>1. i + k \in 1..Left /\ todo[i + k] = "finish" /\ i \in Nat
      BY <1>1, <2>1
    <3>2. i + k = Left
      BY <3>1 DEF UndoWorkFacts
    <3> QED
      BY <1>1, <3>1, <3>2
  <2> QED
    BY <2>1
<1>4. (\A i \in 1..Left :
          todo[i] = "undo_control" \/ (todo[i] = "undo_routes" /\ ~Empty) =>
             i < Left - 2 /\ todo[Left - 2] = "publish")'
  <2>1. ASSUME NEW i \in 1..Left',
               todo'[i] = "undo_control" \/ (todo'[i] = "undo_routes" /\ ~Empty')
        PROVE  i < Left' - 2 /\ todo'[Left' - 2] = "publish"
    <3>1. /\ i + k \in 1..Left /\ i \in Nat
          /\ todo[i + k] = "undo_control" \/ (todo[i + k] = "undo_routes" /\ ~Empty)
      BY <1>1, <1>2, <2>1
    <3>2. i + k < Left - 2 /\ todo[Left - 2] = "publish"
      BY <3>1 DEF UndoWorkFacts
    <3>3. i < Left' - 2 /\ Left' - 2 \in 1..Left' /\ (Left' - 2) + k = Left - 2
      BY <1>1, <3>1, <3>2
    <3>4. todo'[Left' - 2] = todo[(Left' - 2) + k]
      BY <1>1, <3>3
    <3> QED
      BY <3>2, <3>3, <3>4
  <2> QED
    BY <2>1
<1>5. (Ahead("undo_control") => "control" \in did)'
  <2>1. ASSUME Ahead("undo_control")' PROVE "control" \in did'
    <3>1. PICK i \in 1..Left' : todo'[i] = "undo_control"
      BY <2>1 DEF Ahead
    <3>2. i + k \in 1..Left /\ todo[i + k] = "undo_control"
      BY <1>1, <3>1
    <3>3. Ahead("undo_control")
      BY <3>2 DEF Ahead
    <3> QED
      BY <3>3 DEF UndoWorkFacts, Shorter
  <2> QED
    BY <2>1
<1>6. (Early => \A i \in 1..Left :
          todo[i] \in {"undo_files", "undo_routes", "publish", "wait", "finish"})'
  <2>1. ASSUME Early', NEW i \in 1..Left'
        PROVE  todo'[i] \in {"undo_files", "undo_routes", "publish", "wait", "finish"}
    <3>1. i + k \in 1..Left /\ todo'[i] = todo[i + k] /\ Early
      BY <1>1, <1>2, <2>1
    <3> QED
      BY <3>1 DEF UndoWorkFacts
  <2> QED
    BY <2>1
<1>7. (journal.phase = "accepted" =>
          \A i \in 1..Left : todo[i] \in {"undo_files", "finish"})'
  <2>1. ASSUME journal'.phase = "accepted", NEW i \in 1..Left'
        PROVE  todo'[i] \in {"undo_files", "finish"}
    <3>1. i + k \in 1..Left /\ todo'[i] = todo[i + k] /\ journal.phase = "accepted"
      BY <1>1, <1>2, <2>1
    <3> QED
      BY <3>1 DEF UndoWorkFacts
  <2> QED
    BY <2>1
<1>8. (todo[1] = "undo_files" => "undo_files" \notin did)'
  BY DEF Shorter
<1> QED
  BY <1>3, <1>4, <1>5, <1>6, <1>7, <1>8 DEF UndoWorkFacts

\* What is ahead of a rollback is ahead of it or behind it after a step.
LEMMA UndoWorkStep ==
  ASSUME LifecycleInv, UndoWorkInv, StepDone
  PROVE  UndoWorkInv'
<1> SUFFICES ASSUME mode = "undo" PROVE UndoWorkFacts'
  BY DEF StepDone, Advances, UndoWorkInv
<1>1. UndoWorkFacts /\ Head(todo) # "finish" /\ todo' = Tail(todo)
  BY DEF UndoWorkInv, StepDone, Advances
<1>2. /\ Head(todo) \in UndoStep /\ Head(todo) = todo[1] /\ Left \in Nat /\ Left >= 1
      /\ Left' = Left - 1 /\ \A i \in 1..Left - 1 : todo'[i] = todo[i + 1]
  BY <1>1, UndoHead DEF Left
<1>3. /\ op'.err = op.err
      /\ \A s : s \in did' <=> s \in did \/ s = Head(todo)
  BY <1>2 DEF StepDone, SameRequest
<1>4. todo[Left] = "finish" /\ \A i \in 2..Left : todo[i] # "undo_files"
  BY DEF LifecycleInv, UndoInv, UndoFacts
<1>5. Left >= 2
  BY <1>1, <1>2, <1>4
<1>6. ASSUME NEW s, Ahead(s) PROVE s \in did' \/ Ahead(s)'
  <2>1. PICK i \in 1..Left : todo[i] = s
    BY <1>6 DEF Ahead
  <2>2. CASE i = 1
    BY <1>2, <1>3, <2>1, <2>2
  <2>3. CASE i # 1
    <3>1. i - 1 \in 1..Left' /\ i - 1 \in 1..Left - 1 /\ (i - 1) + 1 = i
      BY <1>2, <2>1, <2>3
    <3>2. todo'[i - 1] = s
      BY <1>2, <2>1, <3>1
    <3> QED
      BY <3>1, <3>2 DEF Ahead
  <2> QED
    BY <2>2, <2>3
<1>9. "control" \in did' <=> "control" \in did
  BY <1>2, <1>3 DEF UndoStep
<1>10. "files" \in did' => "files" \in did
  BY <1>2, <1>3 DEF UndoStep
<1>11. ~op'.err /\ "control" \in did' =>
          \A s \in {"undo_control", "undo_secrets", "undo_runtime"} : s \in did' \/ Ahead(s)'
  <2>1. ASSUME ~op'.err, "control" \in did',
               NEW s \in {"undo_control", "undo_secrets", "undo_runtime"}
        PROVE  s \in did' \/ Ahead(s)'
    <3>1. s \in did \/ Ahead(s)
      BY <1>1, <1>3, <1>9, <2>1 DEF UndoWorkFacts
    <3> QED
      BY <1>3, <1>6, <3>1
  <2> QED
    BY <2>1
<1>12. ~op'.err /\ "files" \in did' => "undo_files" \in did' \/ Ahead("undo_files")'
  BY <1>1, <1>3, <1>6, <1>10 DEF UndoWorkFacts
<1>13. todo'[1] # "undo_files"
  <2>1. 1 \in 1..Left - 1 /\ 2 \in 2..Left /\ todo'[1] = todo[1 + 1]
    BY <1>2, <1>5
  <2> QED
    BY <1>4, <2>1
<1>14. journal'.phase = journal.phase /\ op'.plan = op.plan
  BY <1>2 DEF StepDone, SameRequest, UndoStep, Phase
<1>15. \A i \in 1..Left' : todo'[i] = todo[i + 1]
  BY <1>2
<1>16. Shorter(1)
  BY <1>2, <1>5, <1>9, <1>13, <1>14, <1>15 DEF Shorter
<1> QED
  BY <1>1, <1>11, <1>12, <1>16, UndoSuffix

-----------------------------------------------------------------------------
(* The steps of an operation and of its rollback keep the places in order. *)

\* The next step of an operation or of its rollback is done.
WorkStep ==
    /\ LifecycleInv /\ HostTypeOK /\ FrameInv /\ WorkInv /\ RunDidInv /\ UndoWorkInv
    /\ StepDone /\ mode \in {"run", "undo"}

\* What is known of a step of an operation or a rollback
LEMMA WorkParts ==
  ASSUME WorkStep
  PROVE  /\ WorkFacts /\ OriginFacts /\ OrderFacts /\ RowFacts /\ DiskFacts /\ NewUntaken
         /\ SameRequest /\ op.acct \in Account /\ op.new \in Account /\ op.kind \in Kind
         /\ journal'.acct = journal.acct /\ journal'.new = journal.new
         /\ journal'.kind = journal.kind
         /\ \A s : s \in did' <=> s \in did \/ s = Head(todo)
<1>1. WorkFacts
  BY DEF WorkStep, WorkInv
<1>2. OriginFacts
  BY <1>1 DEF WorkFacts
<1>3. op.acct \in Account /\ op.new \in Account /\ op.kind \in Kind
  <2>1. JournalTypeOK /\ OpTypeOK
    BY DEF WorkStep, LifecycleInv, StateTypeOK
  <2>2. op.kind \in Kind /\ op.kind = journal.kind /\ op.kind # "none"
    BY <1>2 DEF OriginFacts, Kind
  <2> QED
    BY <1>2, <2>1, <2>2 DEF JournalTypeOK, OriginFacts
<1> QED
  BY <1>1, <1>2, <1>3 DEF WorkStep, WorkFacts, NewUntaken, StepDone, Advances

\* A step of the host is done.
LEMMA HostDone ==
  ASSUME LifecycleInv, NEW step, At(step), HostStep,
         step \notin {"plan", "finish"} \cup Phase
  PROVE  StepDone /\ op' = op /\ journal' = journal /\ Head(todo) = step
<1>1. /\ Busy /\ todo # <<>> /\ Head(todo) = step /\ todo' = Tail(todo)
      /\ mode' = mode /\ op' = op /\ journal' = journal /\ did' = did \cup {Head(todo)}
  BY DEF At, HostStep, Done, Kept
<1>2. Advances /\ SameRequest
  BY <1>1 DEF Advances, SameRequest
<1> QED
  BY <1>1, <1>2 DEF StepDone

\* An operation and its rollback keep their order.
LEMMA OrderAdvances ==
  ASSUME WorkStep, op.kind = "create" /\ Head(todo) = "files" => op.before = "absent"
  PROVE  OrderFacts' /\ (~op'.err \/ Early' => ~op.err \/ Early)
<1>1. CASE mode = "run"
  <2>1. ~op.err
    BY <1>1, PlaceNow DEF WorkStep, StepDone, Advances
  <2> QED
    BY <1>1, <2>1, OrderRuns DEF WorkStep
<1>2. CASE mode = "undo"
  <2>1. Head(todo) \in UndoStep
    BY <1>2, UndoHead DEF WorkStep
  <2>2. SameRequest /\ OrderFacts /\ \A s : s \in did' <=> s \in did \/ s = Head(todo)
    BY WorkParts
  <2>3. SameMarks(OrderMarks)
    BY <2>1, <2>2 DEF SameMarks, OrderMarks, UndoStep
  <2>4. journal'.phase = journal.phase
    BY <2>1 DEF WorkStep, StepDone, UndoStep, Phase
  <2>5. OrderFacts'
    BY <2>2, <2>3, <2>4, OrderStays
  <2> QED
    BY <2>2, <2>4, <2>5 DEF SameRequest, Early
<1> QED
  BY <1>1, <1>2 DEF WorkStep

\* What there is to show for a step
LEMMA WorkAssembled ==
  ASSUME WorkStep, op.kind = "create" /\ Head(todo) = "files" => op.before = "absent",
         RowFacts', DiskFacts', NewUntaken',
         SecretFacts /\ DockerFacts => SecretFacts' /\ DockerFacts'
  PROVE  WorkInv'
<1>1. OriginFacts'
  BY WorkParts, OriginStays
<1>2. OrderFacts' /\ (~op'.err \/ Early' => ~op.err \/ Early)
  BY OrderAdvances
<1>3. ~op.err \/ Early => SecretFacts /\ DockerFacts
  BY WorkParts DEF WorkFacts
<1>4. ~op'.err \/ Early' => SecretFacts' /\ DockerFacts'
  BY <1>2, <1>3
<1> QED
  BY <1>1, <1>2, <1>4 DEF WorkInv, WorkFacts, NewUntaken

\* Steps that do not touch the host
SameHost ==
    /\ catalog' = catalog /\ custom' = custom /\ secret' = secret /\ disk' = disk
    /\ backup' = backup /\ docker' = docker
\* The steps that change the store's rows or the host
HostMarks ==
    {"files", "control", "secrets", "secrets_begun", "start", "stop", "remove_files",
     "undo_files", "undo_runtime", "undo_secrets", "undo_control"}

\* A step that changes no place keeps what is known of the places.
LEMMA SameHostKeeps ==
  ASSUME WorkStep, SameHost, Head(todo) \notin HostMarks
  PROVE  HostTypeOK' /\ FrameInv' /\ WorkInv'
<1>1. HostTypeOK'
  BY DEF WorkStep, HostTypeOK, SameHost, StepDone, SameRequest
<1>2. FrameInv'
  BY WorkParts, FrameStays DEF WorkStep, SameHost, Same
<1>3. /\ SameMarks({"control", "undo_control", "files"})
      /\ SameMarks({"secrets", "secrets_begun", "undo_secrets"})
      /\ SameMarks({"files", "remove_files", "undo_files"})
      /\ SameMarks({"files", "start", "stop", "undo_runtime"})
  BY WorkParts DEF SameMarks, HostMarks
<1>4. RowFacts' /\ DiskFacts'
  BY <1>3, WorkParts, RowStays, DiskStays DEF SameHost
<1>5. SecretFacts /\ DockerFacts => SecretFacts' /\ DockerFacts'
  BY <1>3, WorkParts, SecretStays, DockerStays DEF SameHost
<1>6. NewUntaken'
  BY WorkParts, NewStays DEF SameHost, Same
<1> QED
  BY <1>1, <1>2, <1>4, <1>5, <1>6, WorkAssembled DEF HostMarks

\* A step that no rollback takes is one of an operation.
LEMMA InRun ==
  ASSUME WorkStep, Head(todo) \notin UndoStep
  PROVE  mode = "run" /\ RunPlaceFacts /\ ~op.err
<1>1. mode = "run"
  BY UndoHead DEF WorkStep
<1> QED
  BY <1>1, PlaceNow DEF WorkStep, StepDone, Advances

\* Preparing the files: the directory is made, moved, emptied or copied.
LEMMA PrepareFilesPlaces ==
  ASSUME WorkStep, PrepareFiles
  PROVE  HostTypeOK' /\ FrameInv' /\ WorkInv'
<1>1. /\ Head(todo) = "files" /\ op' = op /\ ~FilesTargetTaken
      /\ catalog' = catalog
      /\ custom' = custom /\ secret' = secret /\ docker' = docker
      /\ backup' = (IF op.kind = "create" \/ (op.kind = "update" /\ ~Renames)
                    THEN backup ELSE AtLeastEmpty(disk[op.acct]))
      /\ disk' = CASE op.kind \in {"create", "clear_auth"} -> [disk EXCEPT ![op.acct] = "empty"]
                   [] Renames -> [disk EXCEPT ![op.acct] = "none",
                                              ![op.new] = AtLeastEmpty(disk[op.acct])]
                   [] OTHER -> disk
  BY DEF PrepareFiles, At, HostStep, Kept, store
<1>2. RunPlaceFacts
  BY <1>1, InRun DEF UndoStep
<1>3. /\ "files" \notin did /\ "control" \notin did /\ "remove_files" \notin did
      /\ "undo_files" \notin did /\ "undo_control" \notin did /\ "undo_runtime" \notin did
  BY <1>1, <1>2 DEF RunPlaceFacts
<1>4. /\ op.acct \in Account /\ op.new \in Account /\ op.kind \in Kind
      /\ \A s : s \in did' <=> s \in did \/ s = "files"
      /\ op.kind # "update" => op.new = op.acct
      /\ journal'.acct = op.acct /\ journal'.new = op.new
      /\ journal.acct = op.acct /\ journal.new = op.new
  BY <1>1, WorkParts DEF OriginFacts
<1>5. disk \in [Account -> Disk] /\ AtLeastEmpty(disk[op.acct]) \in Disk \ {"none"}
  BY <1>4 DEF WorkStep, HostTypeOK, Disk, AtLeastEmpty
<1>6. CASE op.kind \in {"create", "clear_auth"}
  <2>1. disk' = [disk EXCEPT ![op.acct] = "empty"] /\ ~Renames
    BY <1>1, <1>4, <1>6 DEF Renames
  <2>2. /\ disk' \in [Account -> Disk] /\ disk'[op.acct] = "empty"
        /\ \A a \in Account \ {op.acct} : disk'[a] = disk[a]
    BY <1>4, <1>5, <2>1 DEF Disk
  <2>3. op.kind = "create" => disk[op.acct] = "none" /\ op.before = "absent"
    <3>1. DiskFacts
      BY WorkParts
    <3> QED
      BY <1>1, <1>3, <3>1 DEF FilesTargetTaken, DiskFacts, FilesMoved
  <2>4. HostTypeOK'
    BY <1>1, <1>5, <2>2 DEF WorkStep, HostTypeOK
  <2>5. FrameInv'
    BY <1>1, <1>4, <2>2, FrameStays DEF WorkStep, Same
  <2>6. RowFacts'
    BY <1>1, <1>3, <1>4, <2>1, WorkParts DEF RowFacts, RowWritten, Renames, Exists
  <2>7. DiskFacts'
    BY <1>1, <1>3, <1>4, <1>5, <1>6, <2>1, <2>2 DEF DiskFacts, FilesMoved, Renames
  <2>8. SecretFacts /\ DockerFacts => SecretFacts' /\ DockerFacts'
    BY <1>1, <1>3, <1>4, <2>1
       DEF SecretFacts, SecretsWritten, SecretsAsBefore, DockerFacts, Started, Renames
  <2>9. NewUntaken'
    BY <1>4 DEF NewUntaken
  <2> QED
    BY <2>3, <2>4, <2>5, <2>6, <2>7, <2>8, <2>9, WorkAssembled
<1>7. CASE Renames
  <2>1. op.kind = "update" /\ op.new # op.acct
    BY <1>4, <1>7 DEF Renames
  <2>2. disk' = [disk EXCEPT ![op.acct] = "none", ![op.new] = AtLeastEmpty(disk[op.acct])]
    BY <1>1, <1>7, <2>1
  <2>3. /\ disk' \in [Account -> Disk] /\ disk'[op.acct] = "none" /\ disk'[op.new] # "none"
        /\ \A a \in Account \ {op.acct, op.new} : disk'[a] = disk[a]
    BY <1>4, <1>5, <2>1, <2>2 DEF Disk
  <2>4. /\ ~Exists(op.new) /\ docker[op.new] = "none"
    <3>1. Clean(op.new) /\ disk[op.new] = "none"
      BY <1>1, <1>3, <1>7, WorkParts DEF NewUntaken, FilesTargetTaken
    <3> QED
      BY <3>1 DEF Clean
  <2>5. HostTypeOK'
    BY <1>1, <1>5, <2>3 DEF WorkStep, HostTypeOK
  <2>6. FrameInv'
    BY <1>1, <1>4, <2>3, FrameStays DEF WorkStep, Same
  <2>7. RowFacts'
    BY <1>1, <1>3, <1>4, <2>4, WorkParts DEF RowFacts, RowWritten, Renames, Exists
  <2>8. DiskFacts'
    BY <1>1, <1>3, <1>4, <1>5, <1>7, <2>1, <2>3 DEF DiskFacts, FilesMoved, Renames
  <2>9. SecretFacts /\ DockerFacts => SecretFacts' /\ DockerFacts'
    BY <1>1, <1>3, <1>4, <2>1, <2>4
       DEF SecretFacts, SecretsWritten, SecretsAsBefore, DockerFacts, Started, Renames
  <2>10. NewUntaken'
    BY <1>4 DEF NewUntaken
  <2> QED
    BY <2>1, <2>5, <2>6, <2>7, <2>8, <2>9, <2>10, WorkAssembled
<1>8. CASE op.kind \in {"delete", "update"} /\ ~Renames
  <2>1. disk' = disk
    BY <1>1, <1>8
  <2>2. HostTypeOK'
    BY <1>1, <1>5, <2>1 DEF WorkStep, HostTypeOK
  <2>3. FrameInv'
    BY <1>1, <1>4, <2>1, FrameStays DEF WorkStep, Same
  <2>4. RowFacts'
    BY <1>1, <1>3, <1>4, <1>8, WorkParts DEF RowFacts, RowWritten, Renames, Exists
  <2>5. DiskFacts'
    BY <1>1, <1>3, <1>4, <1>5, <1>8, <2>1, WorkParts DEF DiskFacts, FilesMoved, Renames
  <2>6. SecretFacts /\ DockerFacts => SecretFacts' /\ DockerFacts'
    BY <1>1, <1>3, <1>4, <1>8
       DEF SecretFacts, SecretsWritten, SecretsAsBefore, DockerFacts, Started, Renames
  <2>7. NewUntaken'
    BY <1>4 DEF NewUntaken
  <2> QED
    BY <1>8, <2>2, <2>3, <2>4, <2>5, <2>6, <2>7, WorkAssembled
<1> QED
  BY <1>4, <1>6, <1>7, <1>8 DEF Kind

\* Writing the row: afterwards it is the one the operation means.
LEMMA ApplyControlPlaces ==
  ASSUME WorkStep, ApplyControl
  PROVE  HostTypeOK' /\ FrameInv' /\ WorkInv'
<1>1. /\ Head(todo) = "control" /\ CanApplyControl
      /\ catalog' = [catalog EXCEPT ![op.acct] = "absent", ![op.new] = op.status]
      /\ custom' = (custom \ {op.acct}) \cup (IF op.custom THEN {op.new} ELSE {})
      /\ secret' = secret /\ docker' = docker /\ disk' = disk /\ backup' = backup
  BY DEF ApplyControl, At
<1>2. RunPlaceFacts
  BY <1>1, InRun DEF UndoStep
<1>3. /\ "files" \in did /\ "control" \notin did /\ "undo_control" \notin did
  BY <1>1, <1>2 DEF RunPlaceFacts
<1>4. /\ op.acct \in Account /\ op.new \in Account /\ op.kind \in Kind
      /\ \A s : s \in did' <=> s \in did \/ s = "control"
      /\ journal'.acct = op.acct /\ journal'.new = op.new
      /\ journal.acct = op.acct /\ journal.new = op.new
      /\ SameRequest
  BY <1>1, WorkParts DEF OriginFacts
<1>5. /\ catalog'[op.new] = op.status
      /\ Renames => catalog'[op.acct] = "absent"
      /\ \A a \in Account \ {op.acct, op.new} : catalog'[a] = catalog[a]
  BY <1>1, <1>4 DEF Renames, LifecycleInv, StateTypeOK, PublicationTypeOK, WorkStep
<1>6. HostTypeOK'
  BY <1>1, <1>4 DEF WorkStep, HostTypeOK, SameRequest
<1>7. FrameInv'
  BY <1>1, <1>4, <1>5, FrameStays DEF WorkStep, Same
<1>8. RowFacts'
  <2>1. Renames => op.acct \notin custom'
    BY <1>1 DEF Renames
  <2>2. op.new \in custom' <=> op.custom
    <3>1. Renames => op.new \notin custom
      BY <1>3, WorkParts DEF RowFacts, RowWritten
    <3> QED
      BY <1>1, <3>1 DEF Renames
  <2> QED
    BY <1>3, <1>4, <1>5, <2>1, <2>2 DEF RowFacts, RowWritten, Renames, Exists, SameRequest
<1>9. DiskFacts'
  BY <1>1, <1>4, WorkParts, DiskStays DEF SameMarks
<1>10. SecretFacts /\ DockerFacts => SecretFacts' /\ DockerFacts'
  BY <1>1, <1>4, SecretStays, DockerStays DEF SameMarks
<1>11. NewUntaken'
  BY <1>3, <1>4 DEF NewUntaken
<1> QED
  BY <1>1, <1>6, <1>7, <1>8, <1>9, <1>10, <1>11, WorkAssembled

\* The step changes nothing but the secrets, the directories or the containers.
LEMMA SecretsOnly ==
  ASSUME WorkStep, Head(todo) \in {"secrets", "secrets_begun", "undo_secrets"},
         catalog' = catalog, custom' = custom, disk' = disk, backup' = backup,
         docker' = docker, secret' \subseteq Account,
         \A a \in Account \ {op.acct, op.new} : a \in secret' <=> a \in secret,
         Renames => "files" \in did,
         SecretFacts => SecretFacts'
  PROVE  HostTypeOK' /\ FrameInv' /\ WorkInv'
<1>1. HostTypeOK'
  BY DEF WorkStep, HostTypeOK, StepDone, SameRequest
<1>2. FrameInv'
  BY WorkParts, FrameStays DEF WorkStep, Same, OriginFacts
<1>3. /\ SameMarks({"control", "undo_control", "files"})
      /\ SameMarks({"files", "remove_files", "undo_files"})
      /\ SameMarks({"files", "start", "stop", "undo_runtime"})
  BY WorkParts DEF SameMarks
<1>4. RowFacts' /\ DiskFacts' /\ (DockerFacts => DockerFacts')
  BY <1>3, WorkParts, RowStays, DiskStays, DockerStays
<1>5. NewUntaken'
  BY WorkParts DEF NewUntaken, Renames, SameRequest
<1> QED
  BY <1>1, <1>2, <1>4, <1>5, WorkAssembled

\* A step on the containers leaves the other places right.
LEMMA DockerOnly ==
  ASSUME WorkStep, Head(todo) \in {"start", "stop", "restart", "undo_runtime"},
         catalog' = catalog, custom' = custom, disk' = disk, backup' = backup,
         secret' = secret, docker' \in [Account -> Container],
         \A a \in Account \ {op.acct, op.new} : docker'[a] = docker[a],
         Renames /\ "files" \notin did => docker'[op.new] = docker[op.new],
         SecretFacts /\ DockerFacts => DockerFacts'
  PROVE  HostTypeOK' /\ FrameInv' /\ WorkInv'
<1>1. HostTypeOK'
  BY DEF WorkStep, HostTypeOK, StepDone, SameRequest
<1>2. FrameInv'
  BY WorkParts, FrameStays DEF WorkStep, Same, OriginFacts
<1>3. /\ SameMarks({"control", "undo_control", "files"})
      /\ SameMarks({"files", "remove_files", "undo_files"})
      /\ SameMarks({"secrets", "secrets_begun", "undo_secrets"})
  BY WorkParts DEF SameMarks
<1>4. RowFacts' /\ DiskFacts' /\ (SecretFacts => SecretFacts')
  BY <1>3, WorkParts, RowStays, DiskStays, SecretStays
<1>5. NewUntaken'
  BY WorkParts, NewStays DEF Same
<1> QED
  BY <1>1, <1>2, <1>4, <1>5, WorkAssembled

\* A step on the directories leaves the other places right.
LEMMA DiskOnly ==
  ASSUME WorkStep, Head(todo) \in {"remove_files", "undo_files"},
         catalog' = catalog, custom' = custom, docker' = docker, backup' = backup,
         secret' = secret, disk' \in [Account -> Disk],
         \A a \in Account \ {op.acct, op.new} : disk'[a] = disk[a],
         Renames /\ "files" \notin did => disk'[op.new] = disk[op.new],
         DiskFacts'
  PROVE  HostTypeOK' /\ FrameInv' /\ WorkInv'
<1>1. HostTypeOK'
  BY DEF WorkStep, HostTypeOK, StepDone, SameRequest
<1>2. FrameInv'
  BY WorkParts, FrameStays DEF WorkStep, Same, OriginFacts
<1>3. /\ SameMarks({"control", "undo_control", "files"})
      /\ SameMarks({"files", "start", "stop", "undo_runtime"})
      /\ SameMarks({"secrets", "secrets_begun", "undo_secrets"})
  BY WorkParts DEF SameMarks
<1>4. RowFacts' /\ (SecretFacts => SecretFacts') /\ (DockerFacts => DockerFacts')
  BY <1>3, WorkParts, RowStays, SecretStays, DockerStays
<1>5. NewUntaken'
  BY WorkParts, NewStays DEF Same
<1> QED
  BY <1>1, <1>2, <1>4, <1>5, WorkAssembled

\* The secrets of an operation, in one step or, for a rename, in two
LEMMA RunSecretsPlaces ==
  ASSUME WorkStep, SecretsBegun \/ ApplySecrets
  PROVE  HostTypeOK' /\ FrameInv' /\ WorkInv'
<1>1. /\ Head(todo) \in {"secrets", "secrets_begun"} /\ op' = op
      /\ catalog' = catalog /\ custom' = custom /\ disk' = disk /\ backup' = backup
      /\ docker' = docker
  BY DEF SecretsBegun, ApplySecrets, At, HostStep, Kept, store
<1>2. RunPlaceFacts
  BY <1>1, InRun DEF UndoStep
<1>3. "control" \in did /\ "files" \in did /\ "undo_secrets" \notin did
  BY <1>1, <1>2, WorkParts DEF RunPlaceFacts, OrderFacts
<1>4. /\ op.acct \in Account /\ op.new \in Account
      /\ \A s : s \in did' <=> s \in did \/ s = Head(todo)
      /\ op.kind # "update" => op.new = op.acct
  BY <1>1, WorkParts DEF OriginFacts
<1>5. secret \subseteq Account
  BY DEF WorkStep, HostTypeOK
<1>6. NewSecret \subseteq {op.new} /\ (op.new \in NewSecret <=> op.key)
  BY DEF NewSecret
<1>7. CASE SecretsBegun
  <2>1. /\ Head(todo) = "secrets_begun" /\ "secrets" \notin did
        /\ secret' = secret \/ secret' = secret \ {op.acct} \/ secret' = secret \cup NewSecret
    BY <1>2, <1>7 DEF SecretsBegun, At, RunPlaceFacts
  <2>2. secret' \subseteq Account /\ \A a \in Account \ {op.acct, op.new} : a \in secret' <=> a \in secret
    BY <1>4, <1>5, <1>6, <2>1
  <2>3. SecretFacts => SecretFacts'
    <3>1. ASSUME SecretFacts PROVE SecretFacts'
      BY <1>1, <1>3, <1>4, <1>6, <2>1, <3>1 DEF SecretFacts, SecretsWritten, SecretsAsBefore, Renames
    <3> QED
      BY <3>1
  <2> QED
    BY <1>1, <1>3, <2>2, <2>3, SecretsOnly
<1>8. CASE ApplySecrets
  <2>1. Head(todo) = "secrets" /\ secret' = (secret \ {op.acct}) \cup NewSecret
    BY <1>8 DEF ApplySecrets, At
  <2>2. secret' \subseteq Account /\ \A a \in Account \ {op.acct, op.new} : a \in secret' <=> a \in secret
    BY <1>4, <1>5, <1>6, <2>1
  <2>3. SecretFacts /\ Renames => op.acct \notin secret'
    BY <1>6, <2>1 DEF Renames
  <2>4. \/ op.new \in secret' <=> op.key
        \/ Renames /\ op.new \in secret
    BY <1>6, <2>1 DEF Renames
  <2>5. ASSUME Renames, op.new \in secret, SecretFacts
        PROVE  op.new \in secret' <=> op.key
    BY <1>4, <1>6, <2>1, <2>5 DEF SecretFacts, Renames
  <2>6. SecretFacts => SecretFacts'
    BY <1>1, <1>3, <1>4, <2>1, <2>3, <2>4, <2>5 DEF SecretFacts, SecretsWritten, SecretsAsBefore, Renames
  <2> QED
    BY <1>1, <1>3, <2>2, <2>6, SecretsOnly
<1> QED
  BY <1>7, <1>8

\* The containers of an operation
LEMMA RunContainersPlaces ==
  ASSUME WorkStep, StartContainer \/ StopContainer
  PROVE  HostTypeOK' /\ FrameInv' /\ WorkInv'
<1>1. /\ Head(todo) \in {"start", "stop"} /\ op' = op
      /\ catalog' = catalog /\ custom' = custom /\ disk' = disk /\ backup' = backup
      /\ secret' = secret
  BY DEF StartContainer, StopContainer, At, HostStep, Kept, store
<1>2. RunPlaceFacts
  BY <1>1, InRun DEF UndoStep
<1>3. "control" \in did /\ "files" \in did /\ "undo_runtime" \notin did
  BY <1>1, <1>2, WorkParts DEF RunPlaceFacts, OrderFacts
<1>4. /\ op.acct \in Account /\ op.new \in Account
      /\ \A s : s \in did' <=> s \in did \/ s = Head(todo)
      /\ op.kind # "update" => op.new = op.acct
  BY <1>1, WorkParts DEF OriginFacts
<1>5. docker \in [Account -> Container]
  BY DEF WorkStep, HostTypeOK
<1>6. CASE StartContainer
  <2>1. Head(todo) = "start" /\ docker' = [docker EXCEPT ![op.new] = "running"]
    BY <1>6 DEF StartContainer, At
  <2>2. /\ docker' \in [Account -> Container] /\ docker'[op.new] = "running"
        /\ \A a \in Account \ {op.new} : docker'[a] = docker[a]
    BY <1>4, <1>5, <2>1 DEF Container
  <2>3. DockerFacts => DockerFacts'
    <3>1. "stop" \in did /\ ~Started /\ DockerFacts => docker[op.acct] = "none"
      BY <1>3 DEF DockerFacts
    <3>2. Renames => "stop" \in did
      BY <1>2, <1>4, <2>1 DEF RunPlaceFacts, Renames
    <3> QED
      BY <1>1, <1>3, <1>4, <2>1, <2>2, <3>2 DEF DockerFacts, Started, Renames
  <2> QED
    BY <1>1, <1>3, <2>2, <2>3, DockerOnly
<1>7. CASE StopContainer
  <2>1. /\ Head(todo) = "stop" /\ docker' = [docker EXCEPT ![op.acct] = "none"]
        /\ "start" \notin did
    BY <1>2, <1>7 DEF StopContainer, At, RunPlaceFacts
  <2>2. /\ docker' \in [Account -> Container] /\ docker'[op.acct] = "none"
        /\ \A a \in Account \ {op.acct} : docker'[a] = docker[a]
    BY <1>4, <1>5, <2>1 DEF Container
  <2>3. DockerFacts => DockerFacts'
    BY <1>1, <1>3, <1>4, <2>1, <2>2 DEF DockerFacts, Started, Renames
  <2> QED
    BY <1>1, <1>3, <2>2, <2>3, DockerOnly
<1> QED
  BY <1>6, <1>7

\* Restarting a container keeps it.
LEMMA RestartPlaces ==
  ASSUME WorkStep, RestartAccount
  PROVE  HostTypeOK' /\ FrameInv' /\ WorkInv'
<1>1. /\ Head(todo) = "restart" /\ op' = op
      /\ catalog' = catalog /\ custom' = custom /\ disk' = disk /\ backup' = backup
      /\ secret' = secret
      /\ docker[op.acct] # "none" /\ docker' = [docker EXCEPT ![op.acct] = "running"]
  BY DEF RestartAccount, At, HostStep, Kept, store
<1>2. /\ op.acct \in Account /\ op.new \in Account
      /\ \A s : s \in did' <=> s \in did \/ s = "restart"
  BY <1>1, WorkParts
<1>3. docker \in [Account -> Container]
  BY DEF WorkStep, HostTypeOK
<1>4. /\ docker' \in [Account -> Container] /\ docker'[op.acct] # "none"
      /\ \A a \in Account \ {op.acct} : docker'[a] = docker[a]
  BY <1>1, <1>2, <1>3 DEF Container
<1>5. DockerFacts => DockerFacts'
  BY <1>1, <1>2, <1>4 DEF DockerFacts, Started, Renames
<1>6. Renames => docker'[op.new] = docker[op.new]
  BY <1>2, <1>4 DEF Renames
<1> QED
  BY <1>1, <1>2, <1>4, <1>5, <1>6, DockerOnly

\* A deletion removes the directory last.
LEMMA RemoveFilesPlaces ==
  ASSUME WorkStep, RemoveFiles
  PROVE  HostTypeOK' /\ FrameInv' /\ WorkInv'
<1>1. /\ Head(todo) = "remove_files" /\ op' = op
      /\ catalog' = catalog /\ custom' = custom /\ docker' = docker /\ backup' = backup
      /\ secret' = secret /\ disk' = [disk EXCEPT ![op.acct] = "none"]
  BY DEF RemoveFiles, At, HostStep, Kept, store
<1>2. op.kind = "delete" /\ "undo_files" \notin did
  BY <1>1, InRun DEF UndoStep, RunPlaceFacts
<1>3. /\ op.acct \in Account /\ op.new = op.acct
      /\ \A s : s \in did' <=> s \in did \/ s = "remove_files"
  BY <1>1, <1>2, WorkParts DEF OriginFacts
<1>4. disk \in [Account -> Disk]
  BY DEF WorkStep, HostTypeOK
<1>5. /\ disk' \in [Account -> Disk] /\ disk'[op.acct] = "none"
      /\ \A a \in Account \ {op.acct} : disk'[a] = disk[a]
  BY <1>1, <1>3, <1>4 DEF Disk
<1>6. DiskFacts'
  <2>1. DiskFacts
    BY WorkParts
  <2>2. "files" \in did /\ backup # "none"
    BY <1>1, <1>2, <2>1, InRun, WorkParts DEF UndoStep, RunPlaceFacts, OrderFacts, DiskFacts
  <2> QED
    BY <1>1, <1>2, <1>3, <1>5, <2>1, <2>2 DEF DiskFacts, FilesMoved, Renames
<1> QED
  BY <1>1, <1>3, <1>5, <1>6, DiskOnly DEF Renames

\* A rollback step that only a rollback takes
LEMMA InUndo ==
  ASSUME WorkStep,
         Head(todo) \in {"undo_files", "undo_runtime", "undo_secrets", "undo_control", "undo_routes"}
  PROVE  mode = "undo" /\ UndoWorkFacts /\ Head(todo) = todo[1] /\ Left \in Nat /\ Left >= 1
<1>1. mode = "undo"
  <2>1. ASSUME mode = "run" PROVE FALSE
    <3>1. op.kind \in Kind /\ IsTail(todo, Program)
      BY <2>1, PlaceNow DEF WorkStep
    <3> QED
      BY <2>1, <3>1, RunHead
  <2> QED
    BY <2>1 DEF WorkStep
<1> QED
  BY <1>1, UndoHead DEF WorkStep, UndoWorkInv

\* A rollback gives the directory back.
LEMMA UndoFilesPlaces ==
  ASSUME WorkStep, UndoFiles
  PROVE  HostTypeOK' /\ FrameInv' /\ WorkInv'
<1>1. /\ Head(todo) = "undo_files" /\ op' = op
      /\ catalog' = catalog /\ custom' = custom /\ docker' = docker /\ backup' = backup
      /\ secret' = secret
      /\ disk' = IF "files" \notin did THEN disk
                 ELSE CASE op.kind = "create" -> [disk EXCEPT ![op.acct] = "none"]
                        [] op.kind \in {"delete", "clear_auth"} -> [disk EXCEPT ![op.acct] = backup]
                        [] Renames -> [disk EXCEPT ![op.new] = "none", ![op.acct] = disk[op.new]]
                        [] OTHER -> disk
  BY DEF UndoFiles, At, HostStep, Kept, store
<1>2. "undo_files" \notin did
  BY <1>1, InUndo DEF UndoWorkFacts
<1>3. /\ op.acct \in Account /\ op.new \in Account /\ op.kind \in Kind
      /\ op.kind # "update" => op.new = op.acct
      /\ op.kind = "create" /\ "files" \in did => op.before = "absent"
      /\ \A s : s \in did' <=> s \in did \/ s = "undo_files"
      /\ DiskFacts
  BY <1>1, WorkParts DEF OriginFacts, OrderFacts
<1>4. disk \in [Account -> Disk] /\ backup \in Disk
  BY DEF WorkStep, HostTypeOK
<1>5. CASE "files" \notin did
  <2>1. disk' = disk
    BY <1>1, <1>5
  <2>2. "remove_files" \notin did
    BY <1>5, WorkParts DEF OrderFacts
  <2>3. DiskFacts'
    BY <1>1, <1>2, <1>3, <1>5, <2>1, <2>2 DEF DiskFacts, FilesMoved, Renames
  <2> QED
    BY <1>1, <1>4, <2>1, <2>3, DiskOnly
<1>6. CASE "files" \in did /\ op.kind = "create"
  <2>0. ~Renames /\ op.new = op.acct
    BY <1>3, <1>6 DEF Renames
  <2>1. disk' = [disk EXCEPT ![op.acct] = "none"] /\ op.new = op.acct
    BY <1>1, <1>6, <2>0
  <2>2. /\ disk' \in [Account -> Disk] /\ disk'[op.acct] = "none"
        /\ \A a \in Account \ {op.acct} : disk'[a] = disk[a]
    BY <1>3, <1>4, <2>1 DEF Disk
  <2>3. DiskFacts'
    BY <1>1, <1>2, <1>3, <1>6, <2>1, <2>2 DEF DiskFacts, FilesMoved, Renames
  <2> QED
    BY <1>1, <1>6, <2>2, <2>3, DiskOnly
<1>7. CASE "files" \in did /\ op.kind \in {"delete", "clear_auth"}
  <2>1. disk' = [disk EXCEPT ![op.acct] = backup] /\ op.new = op.acct /\ backup # "none"
    BY <1>1, <1>3, <1>7 DEF DiskFacts
  <2>2. /\ disk' \in [Account -> Disk] /\ disk'[op.acct] = backup
        /\ \A a \in Account \ {op.acct} : disk'[a] = disk[a]
    BY <1>3, <1>4, <2>1 DEF Disk
  <2>3. DiskFacts'
    BY <1>1, <1>2, <1>3, <1>7, <2>1, <2>2 DEF DiskFacts, FilesMoved, Renames
  <2> QED
    BY <1>1, <1>7, <2>2, <2>3, DiskOnly
<1>8. CASE "files" \in did /\ Renames
  <2>1. op.kind = "update" /\ op.new # op.acct
    BY <1>3, <1>8 DEF Renames
  <2>2. disk' = [disk EXCEPT ![op.new] = "none", ![op.acct] = disk[op.new]] /\ disk[op.new] # "none"
    BY <1>1, <1>2, <1>3, <1>8, <2>1 DEF DiskFacts, FilesMoved
  <2>3. /\ disk' \in [Account -> Disk] /\ disk'[op.new] = "none" /\ disk'[op.acct] = disk[op.new]
        /\ \A a \in Account \ {op.acct, op.new} : disk'[a] = disk[a]
    BY <1>3, <1>4, <2>1, <2>2 DEF Disk
  <2>4. DiskFacts'
    BY <1>1, <1>2, <1>3, <1>8, <2>1, <2>2, <2>3 DEF DiskFacts, FilesMoved, Renames
  <2> QED
    BY <1>1, <1>8, <2>3, <2>4, DiskOnly
<1>9. CASE "files" \in did /\ op.kind = "update" /\ ~Renames
  <2>1. disk' = disk
    BY <1>1, <1>9
  <2>2. DiskFacts'
    BY <1>1, <1>2, <1>3, <1>9, <2>1 DEF DiskFacts, FilesMoved, Renames
  <2> QED
    BY <1>1, <1>4, <2>1, <2>2, DiskOnly
<1> QED
  BY <1>3, <1>5, <1>6, <1>7, <1>8, <1>9 DEF Kind, Renames

\* A rollback gives the containers back.
LEMMA UndoRuntimePlaces ==
  ASSUME WorkStep, UndoRuntime
  PROVE  HostTypeOK' /\ FrameInv' /\ WorkInv'
<1>1. /\ Head(todo) = "undo_runtime" /\ op' = op
      /\ catalog' = catalog /\ custom' = custom /\ disk' = disk /\ backup' = backup
      /\ secret' = secret
      /\ docker' = IF "stop" \in did \/ op.kind = "delete"
                   THEN [Unstarted EXCEPT ![op.acct] = op.had] ELSE Unstarted
  BY DEF UndoRuntime, At, HostStep, Kept, store
<1>2. /\ op.acct \in Account /\ op.new \in Account /\ op.kind \in Kind
      /\ op.kind # "update" => op.new = op.acct
      /\ \A s : s \in did' <=> s \in did \/ s = "undo_runtime"
      /\ op.had # "none" <=> op.before # "absent"
  BY <1>1, WorkParts DEF OriginFacts
<1>3. docker \in [Account -> Container] /\ op.had \in Container
  BY DEF WorkStep, HostTypeOK
<1>4. /\ "start" \in did => "control" \in did /\ "files" \in did
      /\ "start" \in did /\ op.kind = "update" => "stop" \in did
      /\ op.kind = "create" /\ "files" \in did => op.before = "absent"
      /\ op.kind = "delete" => "start" \notin did
      /\ "control" \in did => op.kind # "clear_auth"
  BY WorkParts DEF OrderFacts
<1>5. /\ Unstarted \in [Account -> Container]
      /\ "start" \in did => Unstarted[op.new] = "none"
      /\ "start" \notin did => Unstarted = docker
      /\ \A a \in Account \ {op.new} : Unstarted[a] = docker[a]
  BY <1>2, <1>3 DEF Unstarted, Container
<1>6. /\ docker' \in [Account -> Container]
      /\ \A a \in Account \ {op.acct, op.new} : docker'[a] = docker[a]
      /\ Renames => docker'[op.new] = Unstarted[op.new]
      /\ "stop" \in did \/ op.kind = "delete" => docker'[op.acct] = op.had
      /\ "stop" \notin did /\ op.kind # "delete" => docker' = Unstarted
  BY <1>1, <1>2, <1>3, <1>5 DEF Renames
<1> HIDE DEF Unstarted
<1>7. ASSUME DockerFacts PROVE DockerFacts'
  <2>1. docker'[op.acct] # "none" <=> op.before # "absent"
    <3>1. CASE "stop" \in did \/ op.kind = "delete"
      BY <1>2, <1>6, <3>1
    <3>2. CASE "stop" \notin did /\ op.kind # "delete" /\ "start" \in did
      BY <1>2, <1>4, <1>5, <1>6, <3>2 DEF Kind
    <3>3. CASE "stop" \notin did /\ op.kind # "delete" /\ "start" \notin did
      BY <1>5, <1>6, <1>7, <3>3 DEF DockerFacts
    <3> QED
      BY <3>1, <3>2, <3>3
  <2>2. Renames /\ "files" \in did => docker'[op.new] = "none"
    BY <1>5, <1>6, <1>7 DEF DockerFacts, Started
  <2> QED
    BY <1>1, <1>2, <2>1, <2>2 DEF DockerFacts, Started, Renames
<1>8. Renames /\ "files" \notin did => docker'[op.new] = docker[op.new]
  BY <1>4, <1>5, <1>6
<1> QED
  BY <1>1, <1>6, <1>7, <1>8, DockerOnly

\* A rollback gives the secrets back.
LEMMA UndoSecretsPlaces ==
  ASSUME WorkStep, UndoSecrets
  PROVE  HostTypeOK' /\ FrameInv' /\ WorkInv'
<1>1. /\ Head(todo) = "undo_secrets" /\ op' = op
      /\ catalog' = catalog /\ custom' = custom /\ disk' = disk /\ backup' = backup
      /\ docker' = docker /\ secret' = (secret \ {op.acct, op.new}) \cup OldSecret
  BY DEF UndoSecrets, At, HostStep, Kept, store
<1>2. /\ op.acct \in Account /\ op.new \in Account
      /\ \A s : s \in did' <=> s \in did \/ s = "undo_secrets"
  BY <1>1, WorkParts
<1>3. secret \subseteq Account /\ OldSecret \subseteq {op.acct} /\ (op.acct \in OldSecret <=> op.keyed)
  BY DEF WorkStep, HostTypeOK, OldSecret
<1>4. secret' \subseteq Account /\ \A a \in Account \ {op.acct, op.new} : a \in secret' <=> a \in secret
  BY <1>1, <1>2, <1>3
<1>5. (op.acct \in secret' <=> op.keyed) /\ (Renames => op.new \notin secret')
  BY <1>1, <1>3 DEF Renames
<1>6. SecretFacts'
  BY <1>1, <1>2, <1>5 DEF SecretFacts, SecretsWritten, SecretsAsBefore, Renames
<1> HIDE DEF SecretFacts
<1>7. HostTypeOK'
  BY <1>1, <1>4 DEF WorkStep, HostTypeOK
<1>8. FrameInv'
  BY <1>1, <1>4, WorkParts, FrameStays DEF WorkStep, Same, OriginFacts
<1>9. /\ SameMarks({"control", "undo_control", "files"})
      /\ SameMarks({"files", "remove_files", "undo_files"})
      /\ SameMarks({"files", "start", "stop", "undo_runtime"})
  BY <1>2 DEF SameMarks
<1>10. RowFacts' /\ DiskFacts' /\ (DockerFacts => DockerFacts')
  BY <1>1, <1>9, WorkParts, RowStays, DiskStays, DockerStays
<1>11. NewUntaken'
  <2>1. ASSUME Renames, "files" \notin did
        PROVE  (Clean(op.new) /\ op.new \notin secret)'
    <3>1. Clean(op.new) /\ op.new \notin secret
      BY <2>1, WorkParts DEF NewUntaken
    <3> QED
      BY <1>1, <1>5, <2>1, <3>1 DEF Clean, Exists
  <2> QED
    BY <1>1, <1>2, <2>1 DEF NewUntaken, Renames
<1> QED
  BY <1>1, <1>6, <1>7, <1>8, <1>10, <1>11, WorkAssembled

\* A rollback gives the row back.
LEMMA UndoControlPlaces ==
  ASSUME WorkStep, UndoControl
  PROVE  HostTypeOK' /\ FrameInv' /\ WorkInv'
<1>1. /\ Head(todo) = "undo_control" /\ op' = op
      /\ catalog' = [catalog EXCEPT ![op.new] = "absent", ![op.acct] = op.before]
      /\ custom' = (custom \ {op.new}) \cup (IF op.proxied THEN {op.acct} ELSE {})
      /\ secret' = secret /\ docker' = docker /\ disk' = disk /\ backup' = backup
  BY DEF UndoControl, At
<1>2. "control" \in did
  <2>1. /\ UndoWorkFacts /\ todo[1] = "undo_control" /\ 1 \in 1..Left
    BY <1>1, InUndo
  <2>2. Ahead("undo_control")
    BY <2>1 DEF Ahead
  <2> QED
    BY <2>1, <2>2 DEF UndoWorkFacts
<1>3. "files" \in did
  BY <1>2, WorkParts DEF OrderFacts
<1>4. /\ op.acct \in Account /\ op.new \in Account /\ op.kind \in Kind
      /\ \A s : s \in did' <=> s \in did \/ s = "undo_control"
      /\ journal'.acct = op.acct /\ journal'.new = op.new
      /\ journal.acct = op.acct /\ journal.new = op.new
      /\ SameRequest
  BY <1>1, WorkParts DEF OriginFacts
<1>5. /\ catalog'[op.acct] = op.before
      /\ Renames => catalog'[op.new] = "absent"
      /\ \A a \in Account \ {op.acct, op.new} : catalog'[a] = catalog[a]
  BY <1>1, <1>4 DEF Renames, LifecycleInv, StateTypeOK, PublicationTypeOK, WorkStep
<1>6. HostTypeOK'
  BY <1>1, <1>4 DEF WorkStep, HostTypeOK
<1>7. FrameInv'
  BY <1>1, <1>4, <1>5, FrameStays DEF WorkStep, Same
<1>8. RowFacts'
  <2>1. Renames => op.new \notin custom'
    BY <1>1 DEF Renames
  <2>2. op.acct \in custom' <=> op.proxied
    <3>1. Renames => (op.acct \in custom => op.proxied)
      BY WorkParts DEF RowFacts
    <3> QED
      BY <1>1, <3>1 DEF Renames
  <2> QED
    BY <1>1, <1>4, <1>5, <2>1, <2>2 DEF RowFacts, RowWritten, Renames, Exists
<1>9. DiskFacts'
  BY <1>1, <1>4, WorkParts, DiskStays DEF SameMarks
<1>10. SecretFacts /\ DockerFacts => SecretFacts' /\ DockerFacts'
  BY <1>1, <1>4, SecretStays, DockerStays DEF SameMarks
<1>11. NewUntaken'
  BY <1>3, <1>4 DEF NewUntaken
<1> QED
  BY <1>1, <1>6, <1>7, <1>8, <1>9, <1>10, <1>11, WorkAssembled

-----------------------------------------------------------------------------
(* The published snapshot. *)

\* Without a change of routes or rows the snapshot stays as good as it was.
LEMMA SnapQuiet ==
  ASSUME SnapInv, catalog' = catalog, routes' = routes, snap' = snap, mv' = mv,
         AdminOwes => AdminOwes'
  PROVE  SnapInv'
<1>1. Fresh => Fresh'
  BY DEF Fresh, Build, Served
<1>2. MoverOwes => MoverOwes'
  BY DEF MoverOwes, CanRestore, InPlan
<1> QED
  BY <1>1, <1>2 DEF SnapInv

\* Admin has just published.
LEMMA SnapPublished ==
  ASSUME snap' = [gen |-> minted + 1, view |-> Build], catalog' = catalog, routes' = routes
  PROVE  SnapInv'
  BY DEF SnapInv, Fresh, Build, Served

\* The rest of a program after its first step
LEMMA TodoTail ==
  ASSUME LifecycleInv, Busy, Head(todo) # "plan"
  PROVE  /\ todo # <<>> /\ Head(todo) = todo[1] /\ Left \in Nat /\ Left >= 1
         /\ Len(Tail(todo)) = Left - 1
         /\ \A i \in 1..Left - 1 : Tail(todo)[i] = todo[i + 1]
<1>1. CASE mode = "run"
  <2>1. IsTail(todo, Program)
    BY <1>1 DEF LifecycleInv, RunInv, RunFacts, Planning
  <2>2. todo \in Seq(Step) /\ todo # <<>>
    BY <1>1, <2>1, SomeHead DEF IsTail
  <2> QED
    BY <2>2, TailShorter DEF Left
<1>2. CASE mode = "undo"
  BY <1>2, UndoHead
<1>3. CASE mode = "recover"
  <2>1. todo \in Seq(RecoverStep) /\ todo # <<>>
    BY <1>3 DEF LifecycleInv, RecoverInv, RecoverFacts
  <2> QED
    BY <2>1, TailShorter DEF Left
<1> QED
  BY <1>1, <1>2, <1>3 DEF Busy

\* A step that is still to come is so after another one is done.
LEMMA AheadStays ==
  ASSUME LifecycleInv, Busy, todo' = Tail(todo), NEW s, Ahead(s), Head(todo) # s,
         Head(todo) # "plan"
  PROVE  Ahead(s)'
<1>1. PICK i \in 1..Left : todo[i] = s
  BY DEF Ahead
<1>2. /\ Head(todo) = todo[1] /\ Left \in Nat /\ Left' = Left - 1
      /\ \A j \in 1..Left - 1 : todo'[j] = todo[j + 1]
  BY TodoTail DEF Left
<1>3. i - 1 \in 1..Left - 1 /\ i - 1 \in 1..Left' /\ (i - 1) + 1 = i
  BY <1>1, <1>2
<1>4. todo'[i - 1] = s
  BY <1>1, <1>2, <1>3
<1> QED
  BY <1>3, <1>4 DEF Ahead

\* Admin owes a publication until it publishes.
LEMMA OwesAdvances ==
  ASSUME WorkStep, AdminOwes, Head(todo) # "publish"
  PROVE  AdminOwes'
<1>1. /\ Busy /\ todo' = Tail(todo) /\ Head(todo) # "plan" /\ mode' = mode
      /\ \A s : s \in did' <=> s \in did \/ s = Head(todo)
      /\ op'.err = op.err
  BY WorkParts DEF WorkStep, StepDone, Advances, SameRequest
<1>2. Ahead("publish") => Ahead("publish")'
  BY <1>1, AheadStays DEF WorkStep
<1>3. journal'.phase # "accepted"
  <2>1. CASE Head(todo) \in Phase
    <3>1. RunPlaceFacts
      BY <2>1, InRun DEF UndoStep, Phase
    <3> QED
      BY <2>1, <3>1 DEF WorkStep, StepDone, RunPlaceFacts
  <2>2. CASE Head(todo) \notin Phase
    BY <2>2 DEF WorkStep, StepDone, AdminOwes
  <2> QED
    BY <2>1, <2>2
<1> QED
  BY <1>1, <1>2, <1>3 DEF AdminOwes, WorkStep

\* An operation that changes the store owes a publication.
LEMMA RunOwes ==
  ASSUME WorkStep, mode = "run",
         \/ Head(todo) \in {"apply", "control"}
         \/ Head(todo) = "restore" /\ ~(Empty /\ op.kind = "clear_auth")
  PROVE  AdminOwes'
<1>1. RunPlaceFacts /\ PublishFollows
  BY PlaceNow DEF WorkStep, StepDone, Advances
<1>2. PICK k \in 2..Left : todo[k] = "publish"
  BY <1>1 DEF PublishFollows
<1>3. /\ Busy /\ todo' = Tail(todo) /\ Head(todo) # "plan" /\ mode' = "run"
      /\ \A s : s \in did' <=> s \in did \/ s = Head(todo)
      /\ OrderFacts
  BY WorkParts DEF WorkStep, StepDone, Advances
<1>4. /\ Left \in Nat /\ Left' = Left - 1
      /\ \A j \in 1..Left - 1 : todo'[j] = todo[j + 1]
  BY <1>3, TodoTail DEF Left, WorkStep
<1>5. k - 1 \in 1..Left - 1 /\ k - 1 \in 1..Left' /\ (k - 1) + 1 = k
  BY <1>2, <1>4
<1>6. Ahead("publish")'
  <2>1. todo'[k - 1] = "publish"
    BY <1>2, <1>4, <1>5
  <2> QED
    BY <1>5, <2>1 DEF Ahead
<1>7. journal'.phase = journal.phase
  BY DEF WorkStep, StepDone, Phase
<1>8. journal.phase # "accepted" /\ ("apply" \in did' \/ "control" \in did')
  BY <1>1, <1>3 DEF OrderFacts, RunPlaceFacts, Early
<1> QED
  BY <1>3, <1>6, <1>7, <1>8 DEF AdminOwes

\* A rollback that changes the store owes a publication.
LEMMA UndoOwes ==
  ASSUME WorkStep,
         Head(todo) = "undo_control" \/ (Head(todo) = "undo_routes" /\ ~Empty)
  PROVE  AdminOwes'
<1>1. mode = "undo" /\ UndoWorkFacts /\ Head(todo) = todo[1] /\ Left \in Nat /\ Left >= 1
  BY InUndo
<1>2. 1 \in 1..Left
  BY <1>1
<1>3. 1 < Left - 2 /\ todo[Left - 2] = "publish" /\ journal.phase # "accepted"
  BY <1>1, <1>2 DEF UndoWorkFacts
<1>4. Ahead("publish")
  <2>1. Left - 2 \in 1..Left
    BY <1>1, <1>3
  <2> QED
    BY <1>3, <2>1 DEF Ahead
<1>5. Ahead("publish")'
  BY <1>4, AheadStays DEF WorkStep, StepDone, Advances
<1>6. mode' = "undo" /\ journal'.phase = journal.phase
  BY <1>1 DEF WorkStep, StepDone, Advances, Phase
<1> QED
  BY <1>3, <1>5, <1>6 DEF AdminOwes

-----------------------------------------------------------------------------
(* Every step of an operation and of its rollback keeps the invariant. *)

\* A step that leaves the places and the snapshot right keeps the invariant.
LEMMA WorkPlaces ==
  ASSUME LifecycleInv, PlacesInv, StepDone, mode \in {"run", "undo"},
         HostTypeOK' /\ FrameInv' /\ WorkInv', SnapInv',
         journal' = journal \/ journal'.phase # "accepted"
  PROVE  PlacesInv'
<1>1. WorkStep
  BY DEF WorkStep, PlacesInv
<1>2. RunDidInv' /\ UndoWorkInv'
  BY RunDidStep, UndoWorkStep DEF PlacesInv
<1>3. mode' \in {"run", "undo"}
  BY DEF StepDone, Advances
<1>4. RestInv' /\ RecoverWorkInv'
  BY <1>3 DEF RestInv, RecoverWorkInv
<1>5. JournalInv'
  <2>1. journal'.kind # "none"
    BY <1>1, WorkParts DEF OriginFacts, Kind
  <2> QED
    BY <2>1 DEF PlacesInv, JournalInv
<1> QED
  BY <1>2, <1>4, <1>5 DEF PlacesInv

\* A step that is done in an operation or its rollback
LEMMA ToWorkStep ==
  ASSUME LifecycleInv, PlacesInv, StepDone, mode \in {"run", "undo"}
  PROVE  WorkStep
  BY DEF WorkStep, PlacesInv

\* Steps that change neither the store nor the host
LEMMA NothingKeeps ==
  ASSUME LifecycleInv, PlacesInv, StepDone, mode \in {"run", "undo"}, SameHost,
         Head(todo) \notin HostMarks \cup {"publish"},
         routes' = routes, snap' = snap, mv' = mv,
         journal' = journal \/ journal'.phase # "accepted"
  PROVE  PlacesInv'
<1>1. WorkStep
  BY ToWorkStep
<1>2. HostTypeOK' /\ FrameInv' /\ WorkInv'
  BY <1>1, SameHostKeeps
<1>3. SnapInv'
  BY <1>1, OwesAdvances, SnapQuiet DEF PlacesInv, SameHost
<1> QED
  BY <1>2, <1>3, WorkPlaces

\* Steps of the host
LEMMA HostWorkKeeps ==
  ASSUME LifecycleInv, PlacesInv, mode \in {"run", "undo"},
         \/ WaitForGeneration \/ WaitAccountDrained \/ RenderProjection
         \/ SecretsBegun \/ ApplySecrets \/ UndoSecrets
         \/ PrepareFiles \/ RemoveFiles \/ UndoFiles
         \/ StartContainer \/ StopContainer \/ RestartAccount \/ UndoRuntime
  PROVE  PlacesInv'
<1>1. PICK step \in {"wait", "drain", "render", "secrets_begun", "secrets", "undo_secrets",
                     "files", "remove_files", "undo_files", "start", "stop", "restart",
                     "undo_runtime"} : At(step)
  BY DEF WaitForGeneration, WaitAccountDrained, RenderProjection, SecretsBegun, ApplySecrets,
     UndoSecrets, PrepareFiles, RemoveFiles, UndoFiles, StartContainer, StopContainer,
     RestartAccount, UndoRuntime
<1>2. HostStep
  BY DEF WaitForGeneration, WaitAccountDrained, RenderProjection, SecretsBegun, ApplySecrets,
     UndoSecrets, PrepareFiles, RemoveFiles, UndoFiles, StartContainer, StopContainer,
     RestartAccount, UndoRuntime
<1>3. step \notin {"plan", "finish"} \cup Phase
  BY <1>1 DEF Phase
<1>4. StepDone /\ op' = op /\ journal' = journal /\ Head(todo) = step
  BY <1>1, <1>2, <1>3, HostDone
<1>5. catalog' = catalog /\ routes' = routes /\ snap' = snap /\ mv' = mv
  BY <1>2 DEF HostStep, Kept, store, pub
<1>6. WorkStep
  BY <1>4, ToWorkStep
<1>7. HostTypeOK' /\ FrameInv' /\ WorkInv'
  <2>1. CASE WaitForGeneration \/ WaitAccountDrained \/ RenderProjection
    <3>1. SameHost /\ Head(todo) \in {"wait", "drain", "render"}
      BY <1>5, <2>1 DEF WaitForGeneration, WaitAccountDrained, RenderProjection, SameHost, host, At
    <3> QED
      BY <1>6, <3>1, SameHostKeeps DEF HostMarks
  <2> QED
    BY <1>6, <2>1, RunSecretsPlaces, UndoSecretsPlaces, PrepareFilesPlaces, RemoveFilesPlaces,
       UndoFilesPlaces, RunContainersPlaces, RestartPlaces, UndoRuntimePlaces
<1>8. SnapInv'
  BY <1>1, <1>4, <1>5, <1>6, OwesAdvances, SnapQuiet DEF PlacesInv
<1> QED
  BY <1>4, <1>7, <1>8, WorkPlaces

\* Steps of an operation and its rollback that move routes or publish
LEMMA StoreWorkKeeps ==
  ASSUME LifecycleInv, PlacesInv, mode \in {"run", "undo"},
         \/ AdvanceOperation \/ ApplyEvacuation \/ RestoreRoutes \/ UndoRoutes
         \/ PublishAuthSnapshot \/ ApplyControl \/ UndoControl
  PROVE  PlacesInv'
<1>0. OpTypeOK /\ JournalTypeOK /\ routes \in Routing
  BY DEF LifecycleInv, StateTypeOK, PublicationTypeOK
<1>1. CASE AdvanceOperation
  <2>1. /\ Busy /\ todo # <<>> /\ Head(todo) \in Phase /\ todo' = Tail(todo)
        /\ mode' = mode /\ op' = op /\ did' = did \cup {Head(todo)}
        /\ catalog' = catalog /\ routes' = routes /\ snap' = snap /\ mv' = mv /\ SameHost
        /\ journal' = [journal EXCEPT !.phase = Head(todo), !.evac = op.plan]
    BY <1>1 DEF AdvanceOperation, Done, Kept, store, pub, host, SameHost
  <2>2. /\ journal'.phase = Head(todo)
        /\ journal'.kind = journal.kind /\ journal'.acct = journal.acct
        /\ journal'.new = journal.new
    BY <1>0, <2>1 DEF JournalTypeOK, JournalFields
  <2>3. Head(todo) \notin {"plan", "finish"} /\ Head(todo) \notin HostMarks \cup {"publish"}
    BY <2>1 DEF Phase, HostMarks
  <2>4. StepDone
    BY <2>1, <2>2, <2>3 DEF StepDone, Advances, SameRequest
  <2>5. journal'.phase # "accepted"
    <3>1. RunPlaceFacts
      BY <2>1, <2>4, ToWorkStep, InRun DEF UndoStep, Phase
    <3> QED
      BY <2>2, <3>1 DEF RunPlaceFacts
  <2> QED
    BY <2>1, <2>3, <2>4, <2>5, NothingKeeps
<1>2. CASE ApplyEvacuation \/ RestoreRoutes \/ UndoRoutes
  <2>1. /\ Busy /\ todo # <<>> /\ Head(todo) \in {"apply", "restore", "undo_routes"}
        /\ todo' = Tail(todo) /\ mode' = mode /\ op' = op /\ did' = did \cup {Head(todo)}
        /\ catalog' = catalog /\ snap' = snap /\ mv' = mv /\ SameHost /\ journal' = journal
    BY <1>2 DEF ApplyEvacuation, RestoreRoutes, UndoRoutes, At, Done, Kept, store, pub, host,
       SameHost, ApplyRoutesExpected, RestoreTo
  <2>2. StepDone /\ Head(todo) \notin HostMarks \cup {"publish"}
    BY <2>1 DEF StepDone, Advances, SameRequest, Phase, HostMarks
  <2>3. WorkStep
    BY <2>2, ToWorkStep
  <2>4. HostTypeOK' /\ FrameInv' /\ WorkInv'
    BY <2>1, <2>2, <2>3, SameHostKeeps
  <2>5. ASSUME Empty, NEW t, RestoreTo(t) PROVE routes' = routes
    <3>1. \A u \in User : u \notin Strays(t)
      BY <2>5 DEF Empty, Strays, InPlan, NoPlan
    <3> QED
      BY <1>0, <2>5, <3>1 DEF RestoreTo, Routing
  <2>6. CASE ApplyEvacuation
    <3>1. Head(todo) = "apply" /\ mode = "run"
      BY <2>3, <2>6, InRun DEF ApplyEvacuation, At, UndoStep
    <3>2. AdminOwes'
      BY <2>3, <3>1, RunOwes
    <3> QED
      BY <2>1, <2>2, <2>4, <3>2, WorkPlaces DEF SnapInv
  <2>7. CASE RestoreRoutes /\ ~(Empty /\ op.kind = "clear_auth")
    <3>1. Head(todo) = "restore" /\ mode = "run"
      BY <2>3, <2>7, InRun DEF RestoreRoutes, At, UndoStep
    <3>2. AdminOwes'
      BY <2>3, <2>7, <3>1, RunOwes
    <3> QED
      BY <2>1, <2>2, <2>4, <3>2, WorkPlaces DEF SnapInv
  <2>8. CASE RestoreRoutes /\ Empty /\ op.kind = "clear_auth"
    <3>1. routes' = routes
      BY <2>5, <2>8 DEF RestoreRoutes, RestoresRoutes
    <3> QED
      BY <2>1, <2>2, <3>1, NothingKeeps
  <2>9. CASE UndoRoutes /\ ~Empty
    <3>1. AdminOwes'
      BY <2>3, <2>9, UndoOwes DEF UndoRoutes, At
    <3> QED
      BY <2>1, <2>2, <2>4, <3>1, WorkPlaces DEF SnapInv
  <2>10. CASE UndoRoutes /\ Empty
    <3>1. routes' = routes
      BY <2>5, <2>10 DEF UndoRoutes
    <3> QED
      BY <2>1, <2>2, <3>1, NothingKeeps
  <2> QED
    BY <1>2, <2>6, <2>7, <2>8, <2>9, <2>10
<1>3. CASE PublishAuthSnapshot
  <2>1. /\ Busy /\ todo # <<>> /\ Head(todo) = "publish"
        /\ todo' = Tail(todo) /\ mode' = mode /\ did' = did \cup {Head(todo)}
        /\ op' = [op EXCEPT !.awaited = minted']
        /\ catalog' = catalog /\ routes' = routes /\ SameHost /\ journal' = journal
        /\ snap' = [gen |-> minted + 1, view |-> Build]
    BY <1>3 DEF PublishAuthSnapshot, At, Done, Kept, store, host, SameHost, WriteSnapshot
  <2>2. SameRequest
    BY <1>0, <2>1 DEF OpTypeOK, OpFields, SameRequest
  <2>3. StepDone /\ Head(todo) \notin HostMarks
    BY <2>1, <2>2 DEF StepDone, Advances, SameRequest, Phase, HostMarks
  <2>4. HostTypeOK' /\ FrameInv' /\ WorkInv'
    BY <2>1, <2>3, ToWorkStep, SameHostKeeps
  <2> QED
    BY <2>1, <2>3, <2>4, SnapPublished, WorkPlaces
<1>4. CASE ApplyControl \/ UndoControl
  <2>1. /\ Busy /\ todo # <<>> /\ Head(todo) \in {"control", "undo_control"}
        /\ todo' = Tail(todo) /\ mode' = mode /\ did' = did \cup {Head(todo)}
        /\ journal' = journal
    BY <1>4 DEF ApplyControl, UndoControl, At, Done, Kept
  <2>2. SameRequest
    BY <1>0, <1>4 DEF ApplyControl, UndoControl, OpTypeOK, OpFields, SameRequest
  <2>3. StepDone
    BY <2>1, <2>2 DEF StepDone, Advances, SameRequest, Phase
  <2>4. WorkStep
    BY <2>3, ToWorkStep
  <2>5. HostTypeOK' /\ FrameInv' /\ WorkInv'
    BY <1>4, <2>4, ApplyControlPlaces, UndoControlPlaces
  <2>6. AdminOwes'
    <3>1. CASE Head(todo) = "control"
      BY <2>4, <3>1, InRun, RunOwes DEF UndoStep
    <3>2. CASE Head(todo) = "undo_control"
      BY <2>4, <3>2, UndoOwes
    <3> QED
      BY <2>1, <3>1, <3>2
  <2> QED
    BY <2>1, <2>3, <2>5, <2>6, WorkPlaces DEF SnapInv
<1> QED
  BY <1>1, <1>2, <1>3, <1>4

-----------------------------------------------------------------------------
(* Failures. *)

\* A program holds a step.
Has(p, s) == \E i \in 1..Len(p) : p[i] = s

\* What a rollback p must hold for the operation whose step has failed.
UndoWork(p) ==
    /\ Len(p) \in Nat
    /\ \A i \in 1..Len(p) : p[i] = "finish" => i = Len(p)
    /\ "control" \in did => Has(p, "undo_control") /\ Has(p, "undo_secrets") /\ Has(p, "undo_runtime")
    /\ "files" \in did => Has(p, "undo_files")
    /\ \A i \in 1..Len(p) :
          p[i] = "undo_control" \/ (p[i] = "undo_routes" /\ ~Empty) =>
             i < Len(p) - 2 /\ p[Len(p) - 2] = "publish"
    /\ Has(p, "undo_control") => "control" \in did
    /\ Early => \A i \in 1..Len(p) :
          p[i] \in {"undo_files", "undo_routes", "publish", "wait", "finish"}
    /\ journal.phase = "accepted" => \A i \in 1..Len(p) : p[i] \in {"undo_files", "finish"}
    /\ "apply" \in did \/ "control" \in did => Has(p, "publish")

\* What is known of an operation when its next step, step, fails.
Failed(step) ==
    /\ op.kind \in Kind /\ OrderFacts
    /\ "routes_evacuated" \in did => "routes_prepared" \in did
    /\ "apply" \in did => "routes_prepared" \in did /\ ~Empty /\ op.kind \in {"update", "clear_auth"}
    /\ step = "apply" => "files" \notin did /\ "control" \notin did /\ "apply" \notin did
    /\ "undo_files" \notin did

\* The rollback a failed step starts undoes whatever has been done.
LEMMA UndoProgramWork ==
  ASSUME NEW step, Failed(step)
  PROVE  UndoWork(UndoProgram(step))
<1>1. CASE op.kind \in {"create", "delete"} /\ "control" \in did
  <2>1. UndoProgram(step) = <<"undo_files", "undo_runtime", "undo_secrets", "undo_control", "render">> \o Republish
    BY <1>1 DEF UndoProgram
  <2>2. /\ Len(UndoProgram(step)) = 8
        /\ UndoProgram(step)[1] = "undo_files"
        /\ UndoProgram(step)[2] = "undo_runtime"
        /\ UndoProgram(step)[3] = "undo_secrets"
        /\ UndoProgram(step)[4] = "undo_control"
        /\ UndoProgram(step)[5] = "render"
        /\ UndoProgram(step)[6] = "publish"
        /\ UndoProgram(step)[7] = "wait"
        /\ UndoProgram(step)[8] = "finish"
    BY <2>1 DEF Republish
  <2>3. Has(UndoProgram(step), "undo_control")
    BY <2>2 DEF Has
  <2>4. Has(UndoProgram(step), "undo_secrets")
    BY <2>2 DEF Has
  <2>5. Has(UndoProgram(step), "undo_runtime")
    BY <2>2 DEF Has
  <2>6. Has(UndoProgram(step), "undo_files")
    BY <2>2 DEF Has
  <2>7. Has(UndoProgram(step), "publish")
    BY <2>2 DEF Has
  <2> QED
    BY <1>1, <2>2, <2>3, <2>4, <2>5, <2>6, <2>7 DEF UndoWork, Failed, OrderFacts, Early
<1>2. CASE op.kind \in {"create", "delete"} /\ "control" \notin did /\ "files" \in did
  <2>1. UndoProgram(step) = <<"undo_files", "finish">>
    BY <1>2 DEF UndoProgram
  <2>2. /\ Len(UndoProgram(step)) = 2
        /\ UndoProgram(step)[1] = "undo_files"
        /\ UndoProgram(step)[2] = "finish"
    BY <2>1 DEF Republish
  <2>3. Has(UndoProgram(step), "undo_files")
    BY <2>2 DEF Has
  <2>4. ~Has(UndoProgram(step), "undo_control")
    BY <2>2 DEF Has
  <2> QED
    BY <1>2, <2>2, <2>3, <2>4 DEF UndoWork, Failed, OrderFacts, Early
<1>3. CASE op.kind \in {"create", "delete"} /\ "control" \notin did /\ "files" \notin did
  <2>1. UndoProgram(step) = <<"finish">>
    BY <1>3 DEF UndoProgram
  <2>2. /\ Len(UndoProgram(step)) = 1
        /\ UndoProgram(step)[1] = "finish"
    BY <2>1 DEF Republish
  <2>3. ~Has(UndoProgram(step), "undo_control")
    BY <2>2 DEF Has
  <2> QED
    BY <1>3, <2>2, <2>3 DEF UndoWork, Failed, OrderFacts, Early
<1>4. CASE op.kind \in {"update", "clear_auth"}
             /\ ("routes_prepared" \notin did \/ step = "apply")
  <2>1. UndoProgram(step) = <<"finish">>
    BY <1>4 DEF UndoProgram
  <2>2. /\ Len(UndoProgram(step)) = 1
        /\ UndoProgram(step)[1] = "finish"
    BY <2>1 DEF Republish
  <2>3. ~Has(UndoProgram(step), "undo_control")
    BY <2>2 DEF Has
  <2> QED
    BY <1>4, <2>2, <2>3 DEF UndoWork, Failed, OrderFacts, Early
<1>5. CASE /\ op.kind = "update" /\ "routes_evacuated" \in did
           /\ "routes_prepared" \in did /\ step # "apply" /\ "control" \in did
  <2>1. UndoProgram(step) = <<"undo_files", "undo_runtime", "undo_secrets">> \o <<"undo_control">>
              \o <<"undo_routes", "render">> \o Republish
    BY <1>5 DEF UndoProgram
  <2>2. /\ Len(UndoProgram(step)) = 9
        /\ UndoProgram(step)[1] = "undo_files"
        /\ UndoProgram(step)[2] = "undo_runtime"
        /\ UndoProgram(step)[3] = "undo_secrets"
        /\ UndoProgram(step)[4] = "undo_control"
        /\ UndoProgram(step)[5] = "undo_routes"
        /\ UndoProgram(step)[6] = "render"
        /\ UndoProgram(step)[7] = "publish"
        /\ UndoProgram(step)[8] = "wait"
        /\ UndoProgram(step)[9] = "finish"
    BY <2>1 DEF Republish
  <2>3. Has(UndoProgram(step), "undo_control")
    BY <2>2 DEF Has
  <2>4. Has(UndoProgram(step), "undo_secrets")
    BY <2>2 DEF Has
  <2>5. Has(UndoProgram(step), "undo_runtime")
    BY <2>2 DEF Has
  <2>6. Has(UndoProgram(step), "undo_files")
    BY <2>2 DEF Has
  <2>7. Has(UndoProgram(step), "publish")
    BY <2>2 DEF Has
  <2> QED
    BY <1>5, <2>2, <2>3, <2>4, <2>5, <2>6, <2>7 DEF UndoWork, Failed, OrderFacts, Early
<1>6. CASE /\ op.kind = "update" /\ "routes_evacuated" \in did
           /\ "routes_prepared" \in did /\ step # "apply" /\ "control" \notin did
  <2>1. UndoProgram(step) = <<"undo_files", "undo_runtime", "undo_secrets">> \o <<>>
              \o <<"undo_routes", "render">> \o Republish
    BY <1>6 DEF UndoProgram
  <2>2. /\ Len(UndoProgram(step)) = 8
        /\ UndoProgram(step)[1] = "undo_files"
        /\ UndoProgram(step)[2] = "undo_runtime"
        /\ UndoProgram(step)[3] = "undo_secrets"
        /\ UndoProgram(step)[4] = "undo_routes"
        /\ UndoProgram(step)[5] = "render"
        /\ UndoProgram(step)[6] = "publish"
        /\ UndoProgram(step)[7] = "wait"
        /\ UndoProgram(step)[8] = "finish"
    BY <2>1 DEF Republish
  <2>3. Has(UndoProgram(step), "undo_secrets")
    BY <2>2 DEF Has
  <2>4. Has(UndoProgram(step), "undo_runtime")
    BY <2>2 DEF Has
  <2>5. Has(UndoProgram(step), "undo_files")
    BY <2>2 DEF Has
  <2>6. Has(UndoProgram(step), "publish")
    BY <2>2 DEF Has
  <2>7. ~Has(UndoProgram(step), "undo_control")
    BY <2>2 DEF Has
  <2> QED
    BY <1>6, <2>2, <2>3, <2>4, <2>5, <2>6, <2>7 DEF UndoWork, Failed, OrderFacts, Early
<1>7. CASE /\ op.kind \in {"update", "clear_auth"}
           /\ "routes_prepared" \in did /\ step # "apply"
           /\ op.kind = "clear_auth" \/ "routes_evacuated" \notin did
           /\ "files" \in did /\ (Empty /\ op.kind = "clear_auth")
  <2>1. UndoProgram(step) = <<"undo_files", "restart">> \o <<"undo_routes">> \o <<"finish">>
    BY <1>7 DEF UndoProgram
  <2>2. /\ Len(UndoProgram(step)) = 4
        /\ UndoProgram(step)[1] = "undo_files"
        /\ UndoProgram(step)[2] = "restart"
        /\ UndoProgram(step)[3] = "undo_routes"
        /\ UndoProgram(step)[4] = "finish"
    BY <2>1 DEF Republish
  <2>3. Has(UndoProgram(step), "undo_files")
    BY <2>2 DEF Has
  <2>4. ~Has(UndoProgram(step), "undo_control")
    BY <2>2 DEF Has
  <2> QED
    BY <1>7, <2>2, <2>3, <2>4 DEF UndoWork, Failed, OrderFacts, Early
<1>8. CASE /\ op.kind \in {"update", "clear_auth"}
           /\ "routes_prepared" \in did /\ step # "apply"
           /\ op.kind = "clear_auth" \/ "routes_evacuated" \notin did
           /\ "files" \in did /\ ~(Empty /\ op.kind = "clear_auth")
  <2>1. UndoProgram(step) = <<"undo_files", "restart">> \o <<"undo_routes">> \o Republish
    BY <1>8 DEF UndoProgram
  <2>2. /\ Len(UndoProgram(step)) = 6
        /\ UndoProgram(step)[1] = "undo_files"
        /\ UndoProgram(step)[2] = "restart"
        /\ UndoProgram(step)[3] = "undo_routes"
        /\ UndoProgram(step)[4] = "publish"
        /\ UndoProgram(step)[5] = "wait"
        /\ UndoProgram(step)[6] = "finish"
    BY <2>1 DEF Republish
  <2>3. Has(UndoProgram(step), "undo_files")
    BY <2>2 DEF Has
  <2>4. Has(UndoProgram(step), "publish")
    BY <2>2 DEF Has
  <2>5. ~Has(UndoProgram(step), "undo_control")
    BY <2>2 DEF Has
  <2> QED
    BY <1>8, <2>2, <2>3, <2>4, <2>5 DEF UndoWork, Failed, OrderFacts, Early
<1>9. CASE /\ op.kind \in {"update", "clear_auth"}
           /\ "routes_prepared" \in did /\ step # "apply"
           /\ op.kind = "clear_auth" \/ "routes_evacuated" \notin did
           /\ "files" \notin did /\ (Empty /\ op.kind = "clear_auth")
  <2>1. UndoProgram(step) = <<>> \o <<"undo_routes">> \o <<"finish">>
    BY <1>9 DEF UndoProgram
  <2>2. /\ Len(UndoProgram(step)) = 2
        /\ UndoProgram(step)[1] = "undo_routes"
        /\ UndoProgram(step)[2] = "finish"
    BY <2>1 DEF Republish
  <2>3. ~Has(UndoProgram(step), "undo_control")
    BY <2>2 DEF Has
  <2> QED
    BY <1>9, <2>2, <2>3 DEF UndoWork, Failed, OrderFacts, Early
<1>10. CASE /\ op.kind \in {"update", "clear_auth"}
            /\ "routes_prepared" \in did /\ step # "apply"
            /\ op.kind = "clear_auth" \/ "routes_evacuated" \notin did
            /\ "files" \notin did /\ ~(Empty /\ op.kind = "clear_auth")
  <2>1. UndoProgram(step) = <<>> \o <<"undo_routes">> \o Republish
    BY <1>10 DEF UndoProgram
  <2>2. /\ Len(UndoProgram(step)) = 4
        /\ UndoProgram(step)[1] = "undo_routes"
        /\ UndoProgram(step)[2] = "publish"
        /\ UndoProgram(step)[3] = "wait"
        /\ UndoProgram(step)[4] = "finish"
    BY <2>1 DEF Republish
  <2>3. Has(UndoProgram(step), "publish")
    BY <2>2 DEF Has
  <2>4. ~Has(UndoProgram(step), "undo_control")
    BY <2>2 DEF Has
  <2> QED
    BY <1>10, <2>2, <2>3, <2>4 DEF UndoWork, Failed, OrderFacts, Early
<1> QED
  BY <1>1, <1>2, <1>3, <1>4, <1>5, <1>6, <1>7, <1>8, <1>9, <1>10 DEF Failed, Kind

\* What is known of a step of an operation or a rollback that does not end well
Stopped ==
    /\ LifecycleInv /\ PlacesInv /\ mode \in {"run", "undo"} /\ Partial
    /\ catalog' = catalog /\ journal' = journal

\* How far a step that fails may have changed the host: never which accounts
\* have a directory, and of secrets and containers only in a rollback.
PartialFacts ==
    /\ custom' = custom /\ secret' \subseteq Account
    /\ disk' \in [Account -> Disk] /\ backup' \in Disk /\ docker' \in [Account -> Container]
    /\ \A a \in Account \ {op.acct, op.new} : Same(a)
    /\ Renames /\ "files" \notin did => Same(op.new)
    /\ \A a \in Account : disk'[a] = "none" <=> disk[a] = "none"
    /\ backup # "none" => backup' # "none"
    /\ mode = "run" \/ Early =>
          secret' = secret /\ \A a \in Account : docker'[a] = "none" <=> docker[a] = "none"

\* What is known when a step does not end well
LEMMA StoppedParts ==
  ASSUME Stopped
  PROVE  /\ WorkFacts /\ OriginFacts /\ OrderFacts /\ RowFacts /\ DiskFacts /\ NewUntaken
         /\ op.acct \in Account /\ op.new \in Account /\ op.kind \in Kind
         /\ journal.acct = op.acct /\ journal.new = op.new /\ journal.kind = op.kind
         /\ custom \subseteq Account /\ secret \subseteq Account
         /\ disk \in [Account -> Disk] /\ backup \in Disk
         /\ docker \in [Account -> Container] /\ op.had \in Container
         /\ ~op.err \/ Early => SecretFacts /\ DockerFacts
<1>1. WorkFacts
  BY DEF Stopped, PlacesInv, WorkInv
<1>2. OriginFacts
  BY <1>1 DEF WorkFacts
<1>3. JournalTypeOK
  BY DEF Stopped, LifecycleInv, StateTypeOK
<1>4. op.acct \in Account /\ op.new \in Account /\ op.kind \in Kind
  BY <1>2, <1>3 DEF JournalTypeOK, OriginFacts, Kind
<1> QED
  BY <1>1, <1>2, <1>4 DEF Stopped, PlacesInv, HostTypeOK, WorkFacts, NewUntaken, OriginFacts

\* Where an operation is
LEMMA RunKnown ==
  ASSUME LifecycleInv, PlacesInv, mode = "run"
  PROVE  /\ ~op.err
         /\ \/ Head(todo) = "plan" /\ did = {}
            \/ Head(todo) # "plan" /\ RunPlaceFacts
         /\ Head(todo) \notin {"undo_files", "undo_runtime", "undo_secrets",
                "undo_control", "undo_routes"}
<1>1. CASE Head(todo) = "plan"
  <2>1. RunFacts
    BY DEF LifecycleInv, RunInv
  <2>2. Planning
    BY <1>1, <2>1, RunHead DEF RunFacts
  <2> QED
    BY <1>1, <2>2 DEF PlacesInv, RunDidInv
<1>2. CASE Head(todo) # "plan"
  BY <1>2, PlaceNow, RunHead DEF PlacesInv
<1> QED
  BY <1>1, <1>2

\* What a step leaves behind that does not end well
LEMMA PartialEffects ==
  ASSUME Stopped
  PROVE  PartialFacts
<1>0. catalog' = catalog
  BY DEF Stopped
<1>1. CASE UNCHANGED <<host, inflight>>
  BY <1>0, <1>1, StoppedParts DEF PartialFacts, host, Same
<1>2. CASE /\ Head(todo) = "stop" /\ docker[op.acct] = "running"
           /\ docker' = [docker EXCEPT ![op.acct] = "stopped"]
           /\ UNCHANGED <<custom, secret, disk, backup>>
  <2>1. /\ docker' \in [Account -> Container]
        /\ \A a \in Account \ {op.acct} : docker'[a] = docker[a]
        /\ docker'[op.acct] # "none" /\ docker[op.acct] # "none"
    BY <1>2, StoppedParts DEF Container
  <2> QED
    BY <1>0, <1>2, <2>1, StoppedParts DEF PartialFacts, Same, Renames
<1>6. CASE /\ Head(todo) = "undo_runtime" /\ "start" \notin did
            /\ docker' = Unstarted
            /\ UNCHANGED <<custom, secret, disk, backup>>
  BY <1>0, <1>6, StoppedParts DEF PartialFacts, Unstarted, Same
<1>3. CASE /\ Head(todo) = "undo_runtime" /\ "start" \in did
           /\ docker' = Unstarted
           /\ UNCHANGED <<custom, secret, disk, backup>>
  <2>1. mode = "undo" /\ ~Early /\ "files" \in did
    <3>1. mode = "undo"
      BY <1>3, RunKnown DEF Stopped
    <3>2. ~Early /\ "files" \in did
      BY <1>3, StoppedParts DEF OrderFacts
    <3> QED
      BY <3>1, <3>2
  <2>2. /\ docker' \in [Account -> Container]
        /\ \A a \in Account \ {op.new} : docker'[a] = docker[a]
    BY <1>3, StoppedParts DEF Container, Unstarted
  <2> QED
    BY <1>0, <1>3, <2>1, <2>2, StoppedParts DEF PartialFacts, Same
<1>4. CASE /\ Head(todo) = "undo_secrets"
           /\ secret' = secret \ {op.new}
           /\ UNCHANGED <<custom, disk, backup, docker>>
  <2>1. mode = "undo"
    BY <1>4, RunKnown DEF Stopped
  <2>2. ~Early
    <3>1. UndoWorkFacts /\ todo[1] = "undo_secrets" /\ 1 \in 1..Left
      BY <1>4, <2>1, UndoHead DEF Stopped, PlacesInv, UndoWorkInv
    <3> QED
      BY <3>1 DEF UndoWorkFacts
  <2>3. Renames /\ "files" \notin did => op.new \notin secret
    BY StoppedParts DEF NewUntaken
  <2> QED
    BY <1>0, <1>4, <2>1, <2>2, <2>3, StoppedParts DEF PartialFacts, Same
<1>5. CASE /\ Head(todo) = "files" /\ op.kind = "clear_auth"
           /\ disk' = [disk EXCEPT ![op.acct] = "empty"]
           /\ backup' = AtLeastEmpty(disk[op.acct])
           /\ UNCHANGED <<custom, secret, docker>>
  <2>1. op.new = op.acct /\ disk[op.acct] # "none"
    BY <1>5, StoppedParts DEF OriginFacts, DiskFacts
  <2>2. /\ disk' \in [Account -> Disk] /\ backup' \in Disk /\ backup' # "none"
        /\ \A a \in Account \ {op.acct} : disk'[a] = disk[a]
        /\ disk'[op.acct] # "none"
    BY <1>5, <2>1, StoppedParts DEF Disk, AtLeastEmpty
  <2> QED
    BY <1>0, <1>5, <2>1, <2>2, StoppedParts DEF PartialFacts, Same, Renames
<1> QED
  BY <1>6, <1>1, <1>2, <1>3, <1>4, <1>5 DEF Stopped, Partial

\* A step has failed, and Admin goes on with its rollback.
Failing ==
    /\ Stopped /\ did' = did
    /\ \/ mode = "run" /\ op' = op
       \/ mode = "undo" /\ op' = [op EXCEPT !.err = TRUE]

\* A failure keeps the request and what was read for it.
LEMMA FailingRequest ==
  ASSUME Failing
  PROVE  /\ op'.kind = op.kind /\ op'.acct = op.acct /\ op'.new = op.new
         /\ op'.status = op.status /\ op'.custom = op.custom /\ op'.key = op.key
         /\ op'.before = op.before /\ op'.proxied = op.proxied
         /\ op'.keyed = op.keyed /\ op'.had = op.had /\ op'.plan = op.plan
         /\ ~op'.err \/ Early' => (~op.err /\ mode = "run") \/ Early
         /\ Renames' <=> Renames
         /\ mode = "undo" => op'.err
<1>1. OpTypeOK
  BY DEF Failing, Stopped, LifecycleInv, StateTypeOK
<1>2. Early' => Early
  BY DEF Failing, Stopped, Early
<1>3. CASE mode = "run" /\ op' = op
  <2>1. ~op.err
    BY <1>3, RunKnown DEF Failing, Stopped
  <2> QED
    BY <1>3, <2>1 DEF Renames
<1>4. CASE mode = "undo" /\ op' = [op EXCEPT !.err = TRUE]
  BY <1>1, <1>2, <1>4 DEF OpTypeOK, OpFields, Renames
<1> QED
  BY <1>3, <1>4 DEF Failing

\* The places stay as far in order as the rollback needs them.
LEMMA FailingWork ==
  ASSUME Failing
  PROVE  HostTypeOK' /\ FrameInv' /\ WorkInv'
<1>0. Stopped /\ catalog' = catalog /\ journal' = journal /\ did' = did
  BY DEF Failing, Stopped
<1>1. PartialFacts
  BY <1>0, PartialEffects
<1>2. HostTypeOK'
  BY <1>0, <1>1, FailingRequest, StoppedParts DEF HostTypeOK, PartialFacts
<1>3. FrameInv'
  <2>1. \A a \in Account \ {journal.acct, journal.new} : Same(a)
    BY <1>0, <1>1, StoppedParts DEF PartialFacts
  <2> QED
    BY <1>0, <2>1, FrameStays DEF Stopped, PlacesInv
<1>4. OriginFacts'
  BY <1>0, FailingRequest, StoppedParts DEF OriginFacts, Renames
<1>5. OrderFacts'
  BY <1>0, FailingRequest, StoppedParts DEF OrderFacts, Early
<1>6. RowFacts'
  BY <1>0, <1>1, FailingRequest, StoppedParts DEF RowFacts, RowWritten, PartialFacts, Exists
<1>7. DiskFacts'
  BY <1>0, <1>1, FailingRequest, StoppedParts DEF DiskFacts, FilesMoved, PartialFacts
<1>8. ~op'.err \/ Early' => SecretFacts' /\ DockerFacts'
  <2>1. SUFFICES ASSUME ~op'.err \/ Early' PROVE SecretFacts' /\ DockerFacts'
    OBVIOUS
  <2>2. (~op.err /\ mode = "run") \/ Early
    BY <2>1, FailingRequest
  <2>3. /\ SecretFacts /\ DockerFacts
        /\ secret' = secret /\ \A a \in Account : docker'[a] = "none" <=> docker[a] = "none"
    BY <1>0, <1>1, <2>2, StoppedParts DEF PartialFacts
  <2>4. SecretFacts'
    BY <1>0, <2>3, FailingRequest, StoppedParts DEF SecretFacts, SecretsWritten, SecretsAsBefore
  <2>5. DockerFacts'
    BY <1>0, <2>3, FailingRequest, StoppedParts DEF DockerFacts, Started
  <2> QED
    BY <2>4, <2>5
<1>9. NewUntaken'
  <2>1. ASSUME Renames, "files" \notin did
        PROVE  (Clean(op.new) /\ op.new \notin secret)'
    <3>1. Clean(op.new) /\ op.new \notin secret /\ Same(op.new) /\ op'.new = op.new
      BY <1>0, <1>1, <2>1, StoppedParts, FailingRequest DEF NewUntaken, PartialFacts
    <3> QED
      BY <3>1 DEF Clean, Same, Exists
  <2> QED
    BY <1>0, <2>1, FailingRequest DEF NewUntaken
<1> QED
  BY <1>2, <1>3, <1>4, <1>5, <1>6, <1>7, <1>8, <1>9 DEF WorkInv, WorkFacts, NewUntaken

\* A step of an operation fails: its rollback begins.
LEMMA FailedRun ==
  ASSUME Stopped, mode = "run", mode' = "undo", op' = op, did' = did,
         todo' = UndoProgram(Head(todo)), routes' = routes, snap' = snap, mv' = mv
  PROVE  PlacesInv'
<1> DEFINE p == UndoProgram(Head(todo))
<1>0. LifecycleInv /\ PlacesInv /\ catalog' = catalog /\ journal' = journal
  BY DEF Stopped
<1>1. HostTypeOK' /\ FrameInv' /\ WorkInv'
  BY FailingWork DEF Failing
<1>2. Failed(Head(todo))
  <2>1. CASE Head(todo) = "plan" /\ did = {}
    BY <2>1, StoppedParts DEF Failed
  <2>2. CASE Head(todo) # "plan" /\ RunPlaceFacts
    BY <2>2, StoppedParts DEF Failed, RunPlaceFacts
  <2> QED
    BY <1>0, <2>1, <2>2, RunKnown
<1>3. UndoWork(p) /\ Left' = Len(p) /\ todo' = p
  BY <1>2, UndoProgramWork DEF Left
<1>4. \A s : Ahead(s)' <=> Has(p, s)
  BY <1>3 DEF Ahead, Has
<1>5. (Empty' <=> Empty) /\ (Early' <=> Early) /\ journal'.phase = journal.phase
  BY <1>0 DEF Empty, Early
<1>6. "undo_files" \notin did
  BY <1>2 DEF Failed
<1> HIDE DEF p
<1>7. UndoWorkInv'
  <2>1. (\A i \in 1..Left : todo[i] = "finish" => i = Left)'
    BY <1>3 DEF UndoWork
  <2>2. (todo[1] = "undo_files" => "undo_files" \notin did)'
    BY <1>6
  <2>3. (~op.err /\ "control" \in did =>
          \A s \in {"undo_control", "undo_secrets", "undo_runtime"} : s \in did \/ Ahead(s))'
    BY <1>3, <1>4 DEF UndoWork
  <2>4. (~op.err /\ "files" \in did => "undo_files" \in did \/ Ahead("undo_files"))'
    BY <1>3, <1>4 DEF UndoWork
  <2>5. (\A i \in 1..Left :
          todo[i] = "undo_control" \/ (todo[i] = "undo_routes" /\ ~Empty) =>
             i < Left - 2 /\ todo[Left - 2] = "publish")'
    BY <1>3, <1>5 DEF UndoWork
  <2>6. (Ahead("undo_control") => "control" \in did)'
    BY <1>3, <1>4 DEF UndoWork
  <2>7. (Early => \A i \in 1..Left :
          todo[i] \in {"undo_files", "undo_routes", "publish", "wait", "finish"})'
    BY <1>3, <1>5 DEF UndoWork
  <2>8. (journal.phase = "accepted" =>
          \A i \in 1..Left : todo[i] \in {"undo_files", "finish"})'
    BY <1>3, <1>5 DEF UndoWork
  <2> QED
    BY <2>1, <2>2, <2>3, <2>4, <2>5, <2>6, <2>7, <2>8 DEF UndoWorkInv, UndoWorkFacts
<1>8. AdminOwes => AdminOwes'
  BY <1>3, <1>4, <1>5 DEF AdminOwes, UndoWork
<1>9. SnapInv'
  BY <1>0, <1>8, SnapQuiet DEF PlacesInv
<1>10. RunDidInv' /\ RestInv' /\ RecoverWorkInv' /\ JournalInv'
  BY <1>0 DEF RunDidInv, RestInv, RecoverWorkInv, JournalInv, PlacesInv
<1> QED
  BY <1>1, <1>7, <1>9, <1>10 DEF PlacesInv

\* The rest of a rollback after a failure
LEMMA RollbackRest ==
  ASSUME LifecycleInv, mode = "undo", Head(todo) # "finish",
         todo' = AfterUndoFailure(Head(todo)), journal' = journal, did' = did,
         op'.plan = op.plan
  PROVE  \E k \in Nat : Shorter(k)
<1>1. /\ UndoFacts /\ todo # <<>> /\ Head(todo) = todo[1] /\ Left \in Nat /\ Left >= 1
      /\ Left = Len(todo) /\ Tail(todo) \in Seq(UndoStep) /\ Len(Tail(todo)) = Left - 1
      /\ \A i \in 1..Left - 1 : Tail(todo)[i] = todo[i + 1]
  BY UndoHead DEF LifecycleInv, UndoInv
<1>2. Left >= 2 /\ todo[Left] = "finish" /\ \A i \in 2..Left : todo[i] # "undo_files"
  BY <1>1 DEF UndoFacts
<1>0. Left' = Len(todo')
  BY DEF Left
<1>3. CASE Head(todo) \in {"undo_control", "undo_routes", "render", "publish", "wait"}
  <2>1. todo' = <<"finish">>
    BY <1>3 DEF AfterUndoFailure
  <2>2. Left' = 1 /\ todo'[1] = "finish"
    BY <2>1 DEF Left
  <2>3. Left - 1 \in Nat /\ Left - 1 >= 1 /\ Left' = Left - (Left - 1)
    BY <1>1, <1>2, <2>2
  <2>4. \A i \in 1..Left' : todo'[i] = todo[i + (Left - 1)]
    <3>1. \A i \in 1..Left' : i = 1 /\ i + (Left - 1) = Left
      BY <1>1, <2>2
    <3> QED
      BY <1>2, <2>2, <3>1
  <2>5. Shorter(Left - 1)
    BY <1>1, <2>2, <2>3, <2>4 DEF Shorter
  <2> QED
    BY <2>3, <2>5
<1>4. CASE Head(todo) = "undo_files" /\ op.kind = "clear_auth"
  <2>1. todo' = Tail(Tail(todo)) /\ Left >= 3
    BY <1>1, <1>4 DEF AfterUndoFailure, UndoFacts
  <2>2. Tail(todo) # <<>>
    <3>1. Len(Tail(todo)) # 0
      BY <1>1, <1>2
    <3>2. Len(<<>>) = 0
      OBVIOUS
    <3> QED
      BY <3>1, <3>2, Zenon
  <2>3. /\ Len(Tail(Tail(todo))) = Left - 2
        /\ \A i \in 1..Left - 2 : Tail(Tail(todo))[i] = Tail(todo)[i + 1]
    BY <1>1, <2>2, TailShorter
  <2>4. Left' = Left - 2 /\ Left' \in Nat /\ Left' >= 1
    BY <1>0, <1>1, <2>1, <2>3
  <2>5. \A i \in 1..Left' : todo'[i] = todo[i + 2]
    <3>1. ASSUME NEW i \in 1..Left' PROVE todo'[i] = todo[i + 2]
      <4>1. i \in 1..Left - 2 /\ i + 1 \in 1..Left - 1 /\ (i + 1) + 1 = i + 2
        BY <1>1, <2>4, <3>1
      <4> QED
        BY <1>1, <2>1, <2>3, <4>1
    <3> QED
      BY <3>1
  <2>6. todo'[1] # "undo_files"
    <3>1. 1 \in 1..Left' /\ 1 + 2 \in 2..Left
      BY <1>1, <2>1, <2>4
    <3> QED
      BY <1>2, <2>5, <3>1
  <2>7. Shorter(2)
    BY <1>1, <2>4, <2>5, <2>6 DEF Shorter
  <2> QED
    BY <2>7
<1>5. CASE /\ Head(todo) \notin {"undo_control", "undo_routes", "render", "publish", "wait"}
           /\ ~(Head(todo) = "undo_files" /\ op.kind = "clear_auth")
  <2>1. todo' = Tail(todo)
    BY <1>5 DEF AfterUndoFailure
  <2>2. Left' = Left - 1 /\ Left' \in Nat /\ Left' >= 1
    BY <1>0, <1>1, <1>2, <2>1
  <2>3. \A i \in 1..Left' : todo'[i] = todo[i + 1]
    BY <1>1, <2>1, <2>2
  <2>4. todo'[1] # "undo_files"
    <3>1. 1 \in 1..Left' /\ 1 + 1 \in 2..Left
      BY <1>1, <1>2, <2>2
    <3> QED
      BY <1>2, <2>3, <3>1
  <2>5. Shorter(1)
    BY <1>1, <2>2, <2>3, <2>4 DEF Shorter
  <2> QED
    BY <2>5
<1> QED
  BY <1>3, <1>4, <1>5

\* A step of a rollback fails: the rollback goes on.
LEMMA FailedUndo ==
  ASSUME Stopped, mode = "undo", mode' = mode, op' = [op EXCEPT !.err = TRUE], did' = did,
         Head(todo) # "finish", todo' = AfterUndoFailure(Head(todo)),
         routes' = routes, snap' = snap, mv' = mv
  PROVE  PlacesInv'
<1>0. LifecycleInv /\ PlacesInv /\ catalog' = catalog /\ journal' = journal
  BY DEF Stopped
<1>1. Failing
  BY DEF Failing
<1>2. HostTypeOK' /\ FrameInv' /\ WorkInv'
  BY <1>1, FailingWork
<1>3. op'.err /\ op'.plan = op.plan
  BY <1>1, FailingRequest
<1>4. PICK k \in Nat : Shorter(k)
  BY <1>0, <1>3, RollbackRest
<1>5. UndoWorkInv'
  <2>1. UndoWorkFacts
    BY <1>0 DEF PlacesInv, UndoWorkInv
  <2> QED
    BY <1>3, <1>4, <2>1, UndoSuffix DEF UndoWorkInv
<1>6. AdminOwes => AdminOwes'
  BY <1>0, <1>3 DEF AdminOwes
<1>7. SnapInv'
  BY <1>0, <1>6, SnapQuiet DEF PlacesInv
<1>8. RunDidInv' /\ RestInv' /\ RecoverWorkInv' /\ JournalInv'
  BY <1>0 DEF RunDidInv, RestInv, RecoverWorkInv, JournalInv, PlacesInv
<1> QED
  BY <1>2, <1>5, <1>7, <1>8 DEF PlacesInv

-----------------------------------------------------------------------------
(* What an operation leaves to a recovery. *)

\* The account a recovery reconciles with
LEMMA DesiredIs ==
  ASSUME JournalTypeOK, journal.kind # "none"
  PROVE  /\ journal.acct \in Account /\ journal.new \in Account
         /\ Exists(journal.new) => Desired = journal.new
         /\ ~Exists(journal.new) /\ Exists(journal.acct) => Desired = journal.acct
         /\ ~Exists(journal.new) /\ ~Exists(journal.acct) => Desired = NoAccount
         /\ Desired # NoAccount => Desired \in Account /\ Exists(Desired)
         /\ Desired = NoAccount <=> ~Exists(journal.new) /\ ~Exists(journal.acct)
         /\ Desired \in {journal.acct, journal.new, NoAccount}
<1>1. journal.acct \in Account /\ journal.new \in Account
  BY DEF JournalTypeOK
<1>2. CASE Exists(journal.new)
  <2>1. Desired = journal.new
    BY <1>2 DEF Desired
  <2> QED
    BY <1>1, <1>2, <2>1, NoAccountNot
<1>3. CASE ~Exists(journal.new) /\ Exists(journal.acct)
  <2>1. Desired = journal.acct
    BY <1>3 DEF Desired
  <2> QED
    BY <1>1, <1>3, <2>1, NoAccountNot
<1>4. CASE ~Exists(journal.new) /\ ~Exists(journal.acct)
  <2>1. Desired = NoAccount
    BY <1>4 DEF Desired
  <2> QED
    BY <1>1, <1>4, <2>1, NoAccountNot
<1> QED
  BY <1>2, <1>3, <1>4

\* An operation that has not come to the host leaves its account in order.
LEMMA StoppedSpared ==
  ASSUME Stopped, Spared
  PROVE  IF journal.kind = "create"
         THEN docker'[journal.acct] = "none" /\ journal.acct \notin secret'
         ELSE (Clean(journal.acct) /\ Clean(journal.new))'
<1>0. catalog' = catalog /\ journal' = journal /\ JournalTypeOK
  BY DEF Stopped, LifecycleInv, StateTypeOK
<1>1. PartialFacts
  BY PartialEffects
<1>2. Early
  BY DEF Spared, Early
<1>3. /\ OriginFacts /\ OrderFacts /\ RowFacts /\ DiskFacts /\ NewUntaken
      /\ op.acct \in Account /\ op.new \in Account
      /\ journal.acct = op.acct /\ journal.new = op.new /\ journal.kind = op.kind
      /\ SecretFacts /\ DockerFacts
  BY <1>2, StoppedParts
<1>4. /\ secret' = secret /\ custom' = custom
      /\ \A a \in Account : docker'[a] = "none" <=> docker[a] = "none"
      /\ \A a \in Account : disk'[a] = "none" <=> disk[a] = "none"
  BY <1>1, <1>2 DEF PartialFacts
<1>5. /\ "files_prepared" \notin did /\ "routes_evacuated" \notin did /\ "control" \notin did
      /\ "secrets" \notin did /\ "secrets_begun" \notin did /\ "start" \notin did
      /\ "stop" \notin did /\ "remove_files" \notin did
      /\ op.kind \in {"update", "clear_auth"} => "files" \notin did
  BY <1>2, <1>3 DEF OrderFacts
<1>6. /\ catalog[op.acct] = op.before /\ (op.acct \in custom <=> op.proxied)
      /\ op.acct \in secret <=> op.keyed
      /\ docker[op.acct] # "none" <=> op.before # "absent"
  BY <1>3, <1>5 DEF RowFacts, RowWritten, SecretFacts, SecretsAsBefore, DockerFacts
<1>7. CASE journal.kind = "create"
  <2>1. Desired = NoAccount
    BY <1>7 DEF Spared, Unchanged
  <2>2. ~Exists(op.acct)
    BY <1>0, <1>3, <1>7, <2>1, DesiredIs
  <2>3. op.before = "absent" /\ ~op.keyed
    BY <1>3, <1>6, <2>2 DEF Exists, OriginFacts
  <2> QED
    BY <1>3, <1>4, <1>6, <1>7, <2>3
<1>8. CASE journal.kind # "create"
  <2>1. /\ op.before # "absent" /\ Exists(op.acct) /\ docker[op.acct] # "none"
        /\ (op.acct \in custom => op.acct \in secret)
    BY <1>3, <1>6, <1>8 DEF Exists, OriginFacts
  <2>2. disk[op.acct] # "none"
    BY <1>3, <1>5, <1>8 DEF DiskFacts, FilesMoved, OriginFacts, Kind, Renames
  <2>3. (Clean(journal.acct))'
    BY <1>0, <1>3, <1>4, <2>1, <2>2 DEF Clean, Exists
  <2>4. (Clean(journal.new))'
    <3>1. CASE Renames
      <4>1. "files" \notin did
        BY <1>3, <1>5, <3>1 DEF OriginFacts, Renames
      <4>2. Clean(op.new) /\ Same(op.new)
        BY <1>1, <1>3, <3>1, <4>1 DEF NewUntaken, PartialFacts
      <4> QED
        BY <1>0, <1>3, <4>2 DEF Clean, Same, Exists
    <3>2. CASE ~Renames
      BY <1>0, <1>3, <2>3, <3>2 DEF Renames
    <3> QED
      BY <3>1, <3>2
  <2> QED
    BY <1>8, <2>3, <2>4
<1> QED
  BY <1>7, <1>8

\* An operation or a rollback that stops leaves what a recovery relies on.
LEMMA StoppedRest ==
  ASSUME Stopped
  PROVE  RestFacts'
<1>0. catalog' = catalog /\ journal' = journal
  BY DEF Stopped
<1>1. PartialFacts
  BY PartialEffects
<1>2. /\ OriginFacts /\ OrderFacts /\ RowFacts /\ DiskFacts /\ NewUntaken
      /\ op.acct \in Account /\ op.new \in Account
      /\ journal.acct = op.acct /\ journal.new = op.new /\ journal.kind = op.kind
  BY StoppedParts
<1>3. custom' = custom /\ \A a \in Account : disk'[a] = "none" <=> disk[a] = "none"
  BY <1>1 DEF PartialFacts
<1>4. (journal.kind # "update" => journal.new = journal.acct)'
  BY <1>0, <1>2 DEF OriginFacts
<1>5. (\A a \in {journal.acct, journal.new} : a \in custom => Exists(a))'
  <2>1. (op.acct \in custom => Exists(op.acct)) /\ (op.new \in custom => Exists(op.new))
    BY <1>2 DEF RowFacts, OriginFacts, Renames, Exists
  <2> QED
    BY <1>0, <1>2, <1>3, <2>1 DEF Exists
<1>6. (journal.kind = "clear_auth" => disk[journal.acct] # "none")'
  BY <1>0, <1>2, <1>3 DEF DiskFacts
<1>7. (journal.new # journal.acct /\ Exists(journal.acct) /\ Exists(journal.new) =>
          disk[journal.acct] # "none" /\ disk[journal.new] # "none")'
  <2>1. ASSUME op.new # op.acct, Exists(op.acct), Exists(op.new)
        PROVE  disk[op.acct] # "none" /\ disk[op.new] # "none"
    <3>1. Renames /\ ~RowWritten /\ "files" \notin did
      BY <1>2, <2>1 DEF RowFacts, Renames
    <3>2. Clean(op.new)
      BY <1>2, <3>1 DEF NewUntaken
    <3> QED
      BY <1>2, <2>1, <3>1, <3>2 DEF DiskFacts, FilesMoved, Clean
  <2> QED
    BY <1>0, <1>2, <1>3, <2>1 DEF Exists
<1>8. (Spared => IF journal.kind = "create"
               THEN docker[journal.acct] = "none" /\ journal.acct \notin secret
               ELSE Clean(journal.acct) /\ Clean(journal.new))'
  <2>1. Spared' <=> Spared
    BY <1>0 DEF Spared, Unchanged, Desired, Exists
  <2> QED
    BY <1>0, <2>1, StoppedSpared
<1> QED
  BY <1>4, <1>5, <1>6, <1>7, <1>8 DEF RestFacts

\* Admin dies, or ends an operation and keeps its journal.
LEMMA StoppedEnds ==
  ASSUME Stopped, mode' \in {"idle", "down"}, op' = NoOp,
         routes' = routes, snap' = snap, mv' = mv
  PROVE  PlacesInv'
<1>0. PlacesInv /\ catalog' = catalog /\ journal' = journal
  BY DEF Stopped
<1>1. PartialFacts
  BY PartialEffects
<1>2. HostTypeOK'
  <2>1. op'.had \in Container
    BY DEF NoOp, Container
  <2> QED
    BY <1>1, <2>1, StoppedParts DEF HostTypeOK, PartialFacts
<1>3. FrameInv'
  <2>1. \A a \in Account \ {journal.acct, journal.new} : Same(a)
    BY <1>1, StoppedParts DEF PartialFacts
  <2> QED
    BY <1>0, <2>1, FrameStays DEF PlacesInv
<1>4. RestInv'
  BY StoppedRest DEF RestInv
<1>5. AdminOwes => AdminOwes'
  BY <1>0 DEF AdminOwes
<1>6. SnapInv'
  BY <1>0, <1>5, SnapQuiet DEF PlacesInv
<1>7. WorkInv' /\ RunDidInv' /\ UndoWorkInv' /\ RecoverWorkInv' /\ JournalInv'
  BY <1>0 DEF WorkInv, RunDidInv, UndoWorkInv, RecoverWorkInv, JournalInv, PlacesInv
<1> QED
  BY <1>2, <1>3, <1>4, <1>6, <1>7 DEF PlacesInv

-----------------------------------------------------------------------------
(* The end of an operation and of its rollback. *)

\* What is known in an operation and its rollback
LEMMA WorkingFacts ==
  ASSUME LifecycleInv, PlacesInv, mode \in {"run", "undo"}
  PROVE  /\ OriginFacts /\ OrderFacts /\ RowFacts /\ DiskFacts /\ NewUntaken
         /\ op.acct \in Account /\ op.new \in Account /\ op.kind \in Kind
         /\ journal.acct = op.acct /\ journal.new = op.new /\ journal.kind = op.kind
         /\ ~op.err => SecretFacts /\ DockerFacts
<1>1. WorkFacts
  BY DEF PlacesInv, WorkInv
<1>2. OriginFacts
  BY <1>1 DEF WorkFacts
<1>3. JournalTypeOK
  BY DEF LifecycleInv, StateTypeOK
<1>4. op.acct \in Account /\ op.new \in Account /\ op.kind \in Kind
  BY <1>2, <1>3 DEF JournalTypeOK, OriginFacts, Kind
<1> QED
  BY <1>1, <1>2, <1>4 DEF WorkFacts, NewUntaken, OriginFacts

\* An operation that has done all its steps leaves its places in agreement.
LEMMA RunEndsClean ==
  ASSUME LifecycleInv, PlacesInv, mode = "run", Head(todo) = "finish"
  PROVE  Clean(op.acct) /\ Clean(op.new) /\ ~op.err /\ Left = 1
<1>1. RunPlaceFacts /\ ~op.err
  BY PlaceNow DEF PlacesInv
<1>2. /\ OriginFacts /\ OrderFacts /\ RowFacts /\ DiskFacts
      /\ op.kind \in Kind /\ SecretFacts /\ DockerFacts
  BY <1>1, WorkingFacts
<1>3. /\ "undo_files" \notin did /\ "undo_runtime" \notin did
      /\ "undo_secrets" \notin did /\ "undo_control" \notin did /\ Left = 1
  BY <1>1 DEF RunPlaceFacts
<1>4. CASE op.kind = "create"
  <2>1. "files" \in did /\ "control" \in did /\ "secrets" \in did /\ "start" \in did
    BY <1>1, <1>4 DEF RunPlaceFacts
  <2> QED
    BY <1>1, <1>2, <1>3, <1>4, <2>1 DEF OriginFacts, RowFacts, RowWritten, SecretFacts,
       SecretsWritten, DiskFacts, FilesMoved, DockerFacts, Started, Clean, Exists
<1>5. CASE op.kind = "delete"
  <2>1. "control" \in did /\ "secrets" \in did /\ "stop" \in did /\ "remove_files" \in did
    BY <1>1, <1>5 DEF RunPlaceFacts
  <2>2. "start" \notin did
    BY <1>2, <1>5 DEF OrderFacts
  <2> QED
    BY <1>1, <1>2, <1>3, <1>5, <2>1, <2>2 DEF OriginFacts, RowFacts, RowWritten, SecretFacts,
       SecretsWritten, DiskFacts, FilesMoved, DockerFacts, Started, Clean, Exists
<1>6. CASE op.kind = "update"
  <2>1. /\ "files" \in did /\ "control" \in did /\ "secrets" \in did /\ "start" \in did
        /\ "stop" \in did
    BY <1>1, <1>6 DEF RunPlaceFacts
  <2>2. Clean(op.new)
    <3>1. Exists(op.new) /\ docker[op.new] # "none"
      BY <1>2, <1>3, <1>6, <2>1 DEF OriginFacts, RowFacts, RowWritten, DockerFacts, Started, Exists
    <3>2. disk[op.new] # "none"
      BY <1>2, <1>3, <1>6, <2>1 DEF DiskFacts, FilesMoved, Renames
    <3>3. op.new \in custom => op.new \in secret
      BY <1>2, <1>3, <1>6, <2>1 DEF OriginFacts, RowFacts, RowWritten, SecretFacts,
         SecretsWritten
    <3> QED
      BY <3>1, <3>2, <3>3 DEF Clean
  <2>3. CASE Renames
    <3>1. Clean(op.acct)
      BY <1>2, <1>3, <1>6, <2>1, <2>3 DEF RowFacts, RowWritten, SecretFacts,
         SecretsWritten, DiskFacts, FilesMoved, DockerFacts, Started, Clean
    <3> QED
      BY <1>1, <1>3, <2>2, <3>1
  <2>4. CASE ~Renames
    BY <1>1, <1>3, <2>2, <2>4 DEF Renames
  <2> QED
    BY <2>3, <2>4
<1>7. CASE op.kind = "clear_auth"
  <2>1. /\ "control" \notin did /\ "secrets" \notin did /\ "secrets_begun" \notin did
        /\ "start" \notin did /\ "stop" \notin did
    BY <1>2, <1>7 DEF OrderFacts
  <2> QED
    BY <1>1, <1>2, <1>3, <1>7, <2>1 DEF OriginFacts, RowFacts, RowWritten, SecretFacts,
       SecretsAsBefore, DiskFacts, DockerFacts, Clean, Exists
<1> QED
  BY <1>2, <1>4, <1>5, <1>6, <1>7 DEF Kind

\* So does a rollback none of whose steps has failed.
LEMMA UndoEndsClean ==
  ASSUME LifecycleInv, PlacesInv, mode = "undo", Head(todo) = "finish", ~op.err
  PROVE  Clean(op.acct) /\ Clean(op.new) /\ Left = 1
<1>1. UndoWorkFacts /\ Head(todo) = todo[1] /\ Left \in Nat /\ Left >= 1
  BY UndoHead DEF PlacesInv, UndoWorkInv
<1>2. Left = 1
  BY <1>1 DEF UndoWorkFacts
<1>3. /\ OriginFacts /\ OrderFacts /\ RowFacts /\ DiskFacts /\ NewUntaken
      /\ op.kind \in Kind /\ SecretFacts /\ DockerFacts
  BY WorkingFacts
<1>4. \A s : s # "finish" => ~Ahead(s)
  BY <1>1, <1>2 DEF Ahead
<1>5. /\ "control" \in did =>
            "undo_control" \in did /\ "undo_secrets" \in did /\ "undo_runtime" \in did
      /\ "files" \in did => "undo_files" \in did
  BY <1>1, <1>4 DEF UndoWorkFacts
<1>6. /\ "secrets" \in did \/ "secrets_begun" \in did \/ "start" \in did \/ "stop" \in did
           \/ "remove_files" \in did => "control" \in did
      /\ "control" \in did => "files" \in did
  BY <1>3 DEF OrderFacts
<1>7. ~RowWritten /\ SecretsAsBefore /\ ~FilesMoved /\ ~Started
  BY <1>5, <1>6 DEF RowWritten, SecretsAsBefore, FilesMoved, Started
<1>8. /\ Exists(op.acct) <=> op.before # "absent"
      /\ docker[op.acct] # "none" <=> op.before # "absent"
      /\ op.acct \in custom => op.acct \in secret
      /\ op.acct \in secret => op.before # "absent"
  BY <1>3, <1>5, <1>6, <1>7 DEF OriginFacts, RowFacts, SecretFacts, DockerFacts, Exists
<1>9. disk[op.acct] # "none" <=> op.before # "absent"
  BY <1>3, <1>5, <1>6, <1>7 DEF OriginFacts, DiskFacts, Kind
<1>10. Clean(op.acct)
  BY <1>8, <1>9 DEF Clean
<1>11. CASE Renames /\ "files" \in did
  <2>1. /\ ~Exists(op.new) /\ op.new \notin custom /\ op.new \notin secret
        /\ disk[op.new] = "none" /\ docker[op.new] = "none"
    BY <1>3, <1>7, <1>11 DEF RowFacts, SecretFacts, DiskFacts, DockerFacts
  <2> QED
    BY <1>2, <1>10, <2>1 DEF Clean
<1>12. CASE Renames /\ "files" \notin did
  BY <1>2, <1>3, <1>10, <1>12 DEF NewUntaken
<1>13. CASE ~Renames
  BY <1>2, <1>10, <1>13 DEF Renames
<1> QED
  BY <1>11, <1>12, <1>13

\* The journal goes when every place is in order.
LEMMA JournalGoes ==
  ASSUME LifecycleInv, PlacesInv, Busy, Clean(journal.acct), Clean(journal.new),
         ~AdminOwes, SameHost, routes' = routes, snap' = snap, mv' = mv,
         journal' = NoJournal, op' = NoOp, mode' \in {"idle", "down"}
  PROVE  PlacesInv'
<1>1. HostTypeOK'
  <2>1. op'.had \in Container
    BY DEF NoOp, Container
  <2> QED
    BY <2>1 DEF PlacesInv, HostTypeOK, SameHost
<1>2. \A a \in Account : Clean(a)
  BY DEF PlacesInv, FrameInv
<1>3. \A a \in Account : Clean(a)'
  BY <1>2 DEF SameHost, Clean, Exists
<1>4. FrameInv'
  BY <1>3 DEF FrameInv
<1>5. SnapInv'
  BY SnapQuiet DEF PlacesInv, SameHost
<1>6. JournalInv'
  BY DEF JournalInv, NoJournal
<1>7. WorkInv' /\ RunDidInv' /\ UndoWorkInv' /\ RestInv' /\ RecoverWorkInv'
  BY DEF WorkInv, RunDidInv, UndoWorkInv, RestInv, RecoverWorkInv
<1> QED
  BY <1>1, <1>4, <1>5, <1>6, <1>7 DEF PlacesInv

\* The end of an operation or a rollback: the journal goes if every place is
\* in order and stays if it may not be.
LEMMA FinishWork ==
  ASSUME LifecycleInv, PlacesInv, Finish \/ FinishFails, mode \in {"run", "undo"}
  PROVE  PlacesInv'
<1>1. /\ Busy /\ Head(todo) = "finish" /\ mode' \in {"idle", "down"} /\ op' = NoOp
      /\ catalog' = catalog /\ routes' = routes /\ snap' = snap /\ mv' = mv
      /\ UNCHANGED <<host, inflight>>
      /\ \/ journal' = journal
         \/ ~op.err /\ journal' = NoJournal
  BY DEF Finish, FinishFails, At, store, pub, traffic
<1>2. SameHost
  BY <1>1 DEF SameHost, host
<1>3. CASE journal' = journal
  <2>1. Stopped
    BY <1>1, <1>3 DEF Stopped, Partial
  <2> QED
    BY <1>1, <2>1, StoppedEnds
<1>4. CASE ~op.err /\ journal' = NoJournal
  <2>1. Clean(op.acct) /\ Clean(op.new) /\ Left = 1
    BY <1>1, <1>4, RunEndsClean, UndoEndsClean
  <2>2. Head(todo) = todo[1]
    BY <1>1, TodoTail
  <2>3. ~Ahead("publish")
    BY <1>1, <2>1, <2>2 DEF Ahead
  <2>4. ~AdminOwes
    BY <1>4, <2>3 DEF AdminOwes
  <2>5. journal.acct = op.acct /\ journal.new = op.new
    BY WorkingFacts
  <2> QED
    BY <1>1, <1>2, <1>4, <2>1, <2>4, <2>5, JournalGoes
<1> QED
  BY <1>1, <1>3, <1>4

\* Failures and crashes of an operation and its rollback
LEMMA FailureWork ==
  ASSUME LifecycleInv, PlacesInv, StepRefused \/ RecreateFails \/ StepFails \/ Crash,
         mode \in {"run", "undo"}
  PROVE  PlacesInv'
<1>1. /\ catalog' = catalog /\ routes' = routes /\ snap' = snap /\ mv' = mv
      /\ journal' = journal
  BY DEF StepRefused, RecreateFails, StepFails, Crash, store, pub
<1>2. Partial
  BY DEF StepRefused, RecreateFails, StepFails, Crash, Partial, traffic, At
<1>3. Stopped
  BY <1>1, <1>2 DEF Stopped
<1>4. CASE Crash
  BY <1>1, <1>3, <1>4, StoppedEnds DEF Crash
<1>5. CASE StepRefused \/ RecreateFails \/ StepFails
  <2>1. AfterFailure /\ Head(todo) # "finish"
    BY <1>5 DEF StepRefused, RecreateFails, StepFails, Blocked, At
  <2>2. CASE mode = "run"
    <3>1. mode' = "undo" /\ todo' = UndoProgram(Head(todo)) /\ did' = did /\ op' = op
      BY <2>1, <2>2 DEF AfterFailure
    <3> QED
      BY <1>1, <1>3, <2>2, <3>1, FailedRun
  <2>3. CASE mode = "undo"
    <3>1. /\ mode' = mode /\ todo' = AfterUndoFailure(Head(todo)) /\ did' = did
          /\ op' = [op EXCEPT !.err = TRUE]
      BY <2>1, <2>3 DEF AfterFailure
    <3> QED
      BY <1>1, <1>3, <2>1, <2>3, <3>1, FailedUndo
  <2> QED
    BY <2>2, <2>3
<1> QED
  BY <1>4, <1>5

-----------------------------------------------------------------------------
(* The beginning of an operation. *)

\* Nothing is done when an operation begins or has planned.
LEMMA NothingDone ==
  ASSUME LifecycleInv', mode' = "run", did' = {}, ~op'.err,
         todo' = <<"plan">> \/ todo' = Program'
  PROVE  RunDidInv'
<1>1. CASE todo' = <<"plan">>
  BY <1>1 DEF RunDidInv, Planning
<1>2. CASE todo' = Program' /\ todo' # <<"plan">>
  <2>1. IsTail(todo, Program)'
    BY <1>2 DEF LifecycleInv, RunInv, RunFacts, Planning
  <2>2. Len(Program') \in Nat /\ Left' = Len(Program')
    BY <1>2, <2>1 DEF IsTail, Left
  <2>3. 1..Len(Program') - Left' = {}
    BY <2>2
  <2>4. Past(Program)' = {}
    BY <2>3 DEF Past
  <2> QED
    BY <1>2, <2>4 DEF RunDidInv, Planning
<1> QED
  BY <1>1, <1>2

\* Planning changes no place.
LEMMA PlanPlaces ==
  ASSUME LifecycleInv, PlacesInv, LifecycleInv', PlanEvacuation
  PROVE  PlacesInv'
<1>1. /\ mode' = mode /\ journal' = journal /\ Head(todo) = "plan" /\ Busy
      /\ did' = did /\ mv' = mv /\ snap' = snap /\ routes' = routes /\ SameHost
  BY DEF PlanEvacuation, At, Kept, pub, store, host, SameHost
<1>2. mode = "run"
  BY <1>1, OnlyRun DEF RecoverStep, UndoStep
<1>3. did = {} /\ ~op.err /\ RunFacts
  BY <1>1, <1>2, RunKnown DEF RunPlaceFacts, LifecycleInv, RunInv
<1>4. /\ op'.kind = op.kind /\ op'.acct = op.acct /\ op'.new = op.new
      /\ op'.status = op.status /\ op'.custom = op.custom /\ op'.key = op.key /\ op'.repair = op.repair
      /\ op'.before = op.before /\ op'.proxied = op.proxied
      /\ op'.keyed = op.keyed /\ op'.had = op.had /\ op'.err = op.err
  BY DEF PlanEvacuation, LifecycleInv, StateTypeOK, OpTypeOK, OpFields
<1>5. op.kind \in {"update", "clear_auth"}
  BY <1>1, <1>2, <1>3, RunHead DEF RunFacts
<1>6. todo' = Program'
  <2>1. todo' = AfterPlan(op.kind, op'.plan = NoPlan)
    BY DEF PlanEvacuation
  <2>2. CASE op.kind = "update"
    BY <1>4, <2>1, <2>2 DEF Program, Empty, MovingUpdate, PlainUpdate, AfterPlan
  <2>3. CASE op.kind = "clear_auth"
    BY <1>4, <2>1, <2>3 DEF Program, Empty, MovingClear, PlainClear, AfterPlan
  <2> QED
    BY <1>5, <2>2, <2>3
<1>7. RunDidInv'
  BY <1>1, <1>2, <1>3, <1>4, <1>6, NothingDone
<1>8. HostTypeOK'
  BY <1>1, <1>4 DEF PlacesInv, HostTypeOK, SameHost
<1>9. FrameInv'
  BY <1>1, FrameStays DEF PlacesInv, SameHost, Same
<1>10. WorkInv'
  <2>1. /\ OriginFacts /\ OrderFacts /\ RowFacts /\ DiskFacts /\ NewUntaken
        /\ SecretFacts /\ DockerFacts
    BY <1>2, <1>3, WorkingFacts
  <2>2. Renames' <=> Renames
    BY <1>4 DEF Renames
  <2>3. OriginFacts' /\ OrderFacts'
    BY <1>1, <1>4, <2>1 DEF OriginFacts, OrderFacts, Early
  <2>4. RowFacts' /\ DiskFacts'
    BY <1>1, <1>4, <2>1, <2>2 DEF RowFacts, RowWritten, DiskFacts, FilesMoved, SameHost, Exists
  <2>5. SecretFacts' /\ DockerFacts'
    BY <1>1, <1>4, <2>1, <2>2 DEF SecretFacts, SecretsWritten, SecretsAsBefore, DockerFacts,
       Started, SameHost
  <2>6. NewUntaken'
    BY <1>1, <1>4, <2>1, <2>2 DEF NewUntaken, Clean, SameHost, Exists
  <2> QED
    BY <2>3, <2>4, <2>5, <2>6 DEF WorkInv, WorkFacts, NewUntaken
<1>11. SnapInv'
  <2>1. ~AdminOwes
    BY <1>2, <1>3 DEF AdminOwes
  <2> QED
    BY <1>1, <2>1, SnapQuiet DEF PlacesInv, SameHost
<1>12. UndoWorkInv' /\ RestInv' /\ RecoverWorkInv' /\ JournalInv'
  BY <1>1, <1>2 DEF UndoWorkInv, RestInv, RecoverWorkInv, JournalInv, PlacesInv
<1> QED
  BY <1>7, <1>8, <1>9, <1>10, <1>11, <1>12 DEF PlacesInv

\* What an operation asks for and has read when it begins
FreshRequest(r) ==
    /\ r.kind \in Kind /\ r.acct \in Account /\ r.new \in Account
    /\ r.kind # "update" => r.new = r.acct
    /\ r.before = catalog[r.acct] /\ r.had = docker[r.acct] /\ ~r.err
    /\ r.proxied <=> r.acct \in custom
    /\ r.keyed <=> r.acct \in secret
    /\ r.kind # "create" => Exists(r.acct)
    /\ r.kind = "delete" => r.status = "absent" /\ ~r.custom /\ ~r.key
    /\ r.kind # "clear_auth" /\ r.custom => r.key
    /\ r.kind # "delete" => r.status # "absent"
    /\ r.new = r.acct \/ r.new \notin secret

\* An operation begins on accounts that are in order.
LEMMA BeginPlaces ==
  ASSUME LifecycleInv, PlacesInv, LifecycleInv', NEW request, NEW steps,
         Begin(request, steps), FreshRequest(request),
         todo' = <<"plan">> \/ todo' = Program'
  PROVE  PlacesInv'
<1>1. /\ journal = NoJournal /\ mode' = "run" /\ op' = request /\ did' = {}
      /\ catalog' = catalog /\ routes' = routes /\ snap' = snap /\ mv' = mv
      /\ custom' = custom /\ secret' = secret /\ disk' = disk /\ docker' = docker
      /\ backup' = "none"
  BY DEF Begin, store, pub
<1>2. /\ journal'.kind = request.kind /\ journal'.acct = request.acct
      /\ journal'.new = request.new /\ journal'.phase = "accepted" /\ journal'.evac = NoPlan
  <2>1. journal' = [NoJournal EXCEPT !.kind = request.kind, !.acct = request.acct,
                                     !.new = request.new]
    BY DEF Begin
  <2> QED
    BY <2>1 DEF NoJournal
<1>3. \A a \in Account : Clean(a)
  <2>1. journal.acct \notin Account /\ journal.new \notin Account
    BY <1>1, NoAccountNot DEF NoJournal
  <2> QED
    BY <2>1 DEF PlacesInv, FrameInv
<1>4. \A a \in Account : Clean(a)'
  BY <1>1, <1>3 DEF Clean, Exists
<1>5. HostTypeOK'
  BY <1>1 DEF PlacesInv, HostTypeOK, FreshRequest, Disk
<1>6. FrameInv'
  BY <1>4 DEF FrameInv
<1>7. JournalInv'
  BY <1>2 DEF JournalInv, FreshRequest, Kind
<1>8. WorkInv'
  <2>1. /\ op'.kind = request.kind /\ op'.acct = request.acct /\ op'.new = request.new
        /\ request.acct \in Account /\ request.new \in Account
        /\ Clean(request.acct) /\ Clean(request.new)
        /\ Renames' <=> request.new # request.acct
    BY <1>1, <1>3 DEF FreshRequest, Renames
  <2>2. OriginFacts'
    BY <1>1, <1>2, <2>1 DEF OriginFacts, FreshRequest, Clean, Exists
  <2>3. OrderFacts'
    BY <1>1, <1>2 DEF OrderFacts
  <2>4. RowFacts'
    BY <1>1, <2>1 DEF RowFacts, RowWritten, FreshRequest, Clean
  <2>5. SecretFacts'
    BY <1>1, <2>1 DEF SecretFacts, SecretsWritten, SecretsAsBefore, FreshRequest
  <2>6. DiskFacts'
    BY <1>1, <2>1 DEF DiskFacts, FilesMoved, FreshRequest, Clean, Exists
  <2>7. DockerFacts'
    BY <1>1, <2>1 DEF DockerFacts, Started, FreshRequest, Clean, Exists
  <2>8. NewUntaken'
    <3>1. Renames' => (Clean(op.new) /\ op.new \notin secret)'
      BY <1>1, <2>1 DEF FreshRequest, Clean, Exists
    <3> QED
      BY <3>1 DEF NewUntaken
  <2> QED
    BY <2>2, <2>3, <2>4, <2>5, <2>6, <2>7, <2>8 DEF WorkInv, WorkFacts, NewUntaken
<1>9. RunDidInv'
  BY <1>1, NothingDone DEF FreshRequest
<1>10. SnapInv'
  <2>1. ~AdminOwes
    BY <1>1 DEF AdminOwes, NoJournal
  <2> QED
    BY <1>1, <2>1, SnapQuiet DEF PlacesInv
<1>11. UndoWorkInv' /\ RestInv' /\ RecoverWorkInv'
  BY <1>1 DEF UndoWorkInv, RestInv, RecoverWorkInv
<1> QED
  BY <1>5, <1>6, <1>7, <1>8, <1>9, <1>10, <1>11 DEF PlacesInv

\* What a request has read
LEMMA RequestRead ==
  ASSUME NEW kind, NEW a \in Account
  PROVE  LET r == Request(kind, a) IN
         /\ DOMAIN r = OpFields /\ r.kind = kind /\ r.acct = a /\ r.new = a
         /\ r.status = catalog[a] /\ r.before = catalog[a] /\ r.had = docker[a]
         /\ (r.proxied <=> a \in custom) /\ (r.keyed <=> a \in secret)
         /\ ~r.err /\ r.plan = NoPlan
  BY DEF Request, NoOp, OpFields

\* Every operation begins with the places in agreement.
LEMMA OperationsPlaces ==
  ASSUME LifecycleInv, PlacesInv, LifecycleInv', Operations
  PROVE  PlacesInv'
<1>1. ASSUME NEW a \in Account, NEW isCustom \in BOOLEAN, Create(a, isCustom)
      PROVE  PlacesInv'
  <2> DEFINE r == Request("create", a)
             request == [r EXCEPT !.custom = isCustom, !.key = isCustom, !.status = "enabled"]
  <2>1. Begin(request, CreateSteps) /\ a \notin secret
    BY <1>1 DEF Create
  <2>2. /\ DOMAIN r = OpFields /\ r.kind = "create" /\ r.acct = a /\ r.new = a
        /\ r.before = catalog[a] /\ r.had = docker[a]
        /\ (r.proxied <=> a \in custom) /\ (r.keyed <=> a \in secret) /\ ~r.err
    BY RequestRead
  <2> HIDE DEF r
  <2>3. /\ request.kind = "create" /\ request.acct = a /\ request.new = a
        /\ request.before = catalog[a] /\ request.had = docker[a]
        /\ (request.proxied <=> a \in custom) /\ (request.keyed <=> a \in secret)
        /\ ~request.err /\ request.status = "enabled"
        /\ request.custom = isCustom /\ request.key = isCustom
    BY <2>2 DEF OpFields
  <2> HIDE DEF request
  <2>4. FreshRequest(request)
    BY <2>3 DEF FreshRequest, Kind
  <2>5. todo' = Program'
    <3>1. todo' = CreateSteps /\ op'.kind = "create"
      BY <2>1, <2>3 DEF Begin
    <3> QED
      BY <3>1 DEF Program
  <2> QED
    BY <2>1, <2>4, <2>5, BeginPlaces
<1>2. ASSUME NEW a \in Account, NEW new \in Account, NEW status \in {"enabled", "disabled"},
             NEW proxy \in Proxies, Update(a, new, status, proxy)
      PROVE  PlacesInv'
  <2> DEFINE r == Request("update", a)
             request == [r EXCEPT !.new = new, !.status = status, !.custom = proxy.custom,
                                !.key = proxy.key]
  <2>1. /\ Begin(request, <<"plan">>) /\ Exists(a) /\ (new = a \/ new \notin secret)
        /\ proxy.custom => proxy.key
    BY <1>2 DEF Update
  <2>2. /\ DOMAIN r = OpFields /\ r.kind = "update" /\ r.acct = a /\ r.new = a
        /\ r.before = catalog[a] /\ r.had = docker[a]
        /\ (r.proxied <=> a \in custom) /\ (r.keyed <=> a \in secret) /\ ~r.err
    BY RequestRead
  <2> HIDE DEF r
  <2>3. /\ request.kind = "update" /\ request.acct = a /\ request.new = new
        /\ request.before = catalog[a] /\ request.had = docker[a]
        /\ (request.proxied <=> a \in custom) /\ (request.keyed <=> a \in secret)
        /\ ~request.err /\ request.status = status
        /\ request.custom = proxy.custom /\ request.key = proxy.key
    BY <2>2 DEF OpFields
  <2> HIDE DEF request
  <2>4. FreshRequest(request)
    BY <2>1, <2>3 DEF FreshRequest, Kind
  <2>5. todo' = <<"plan">>
    BY <2>1 DEF Begin
  <2> QED
    BY <2>1, <2>4, <2>5, BeginPlaces
<1>3. ASSUME NEW a \in Account, Repair(a) PROVE PlacesInv'
  <2> DEFINE r == Request("update", a)
             request == [r EXCEPT !.repair = TRUE, !.custom = TRUE, !.key = TRUE]
  <2>1. Begin(request, PlainUpdate) /\ Exists(a)
    BY <1>3 DEF Repair, PlainUpdate
  <2>2. /\ DOMAIN r = OpFields /\ r.kind = "update" /\ r.acct = a /\ r.new = a
        /\ r.before = catalog[a] /\ r.had = docker[a] /\ r.status = catalog[a]
        /\ (r.proxied <=> a \in custom) /\ (r.keyed <=> a \in secret) /\ ~r.err
        /\ r.plan = NoPlan
    BY RequestRead
  <2> HIDE DEF r
  <2>3. /\ request.kind = "update" /\ request.acct = a /\ request.new = a
        /\ request.before = catalog[a] /\ request.had = docker[a]
        /\ (request.proxied <=> a \in custom) /\ (request.keyed <=> a \in secret)
        /\ ~request.err /\ request.status = catalog[a] /\ request.plan = NoPlan
        /\ request.key
    BY <2>2 DEF OpFields
  <2> HIDE DEF request
  <2>4. FreshRequest(request)
    BY <2>1, <2>3 DEF FreshRequest, Kind, Exists
  <2>5. todo' = Program'
    <3>1. todo' = PlainUpdate /\ op'.kind = "update" /\ op'.plan = NoPlan
      BY <2>1, <2>3 DEF Begin
    <3> QED
      BY <3>1 DEF Program, Empty
  <2> QED
    BY <2>1, <2>4, <2>5, BeginPlaces
<1>4. ASSUME NEW a \in Account, Delete(a) PROVE PlacesInv'
  <2>0. PICK f \in Fallbacks(a) :
          Begin([Request("delete", a) EXCEPT !.fallback = f, !.status = "absent",
                                             !.custom = FALSE, !.key = FALSE], DeleteSteps)
    BY <1>4 DEF Delete
  <2> DEFINE r == Request("delete", a)
             request == [r EXCEPT !.fallback = f, !.status = "absent", !.custom = FALSE,
                                !.key = FALSE]
  <2>1. Begin(request, DeleteSteps) /\ Exists(a)
    BY <1>4, <2>0 DEF Delete
  <2>2. /\ DOMAIN r = OpFields /\ r.kind = "delete" /\ r.acct = a /\ r.new = a
        /\ r.before = catalog[a] /\ r.had = docker[a]
        /\ (r.proxied <=> a \in custom) /\ (r.keyed <=> a \in secret) /\ ~r.err
    BY RequestRead
  <2> HIDE DEF r
  <2>3. /\ request.kind = "delete" /\ request.acct = a /\ request.new = a
        /\ request.before = catalog[a] /\ request.had = docker[a]
        /\ (request.proxied <=> a \in custom) /\ (request.keyed <=> a \in secret)
        /\ ~request.err /\ request.status = "absent" /\ ~request.custom /\ ~request.key
    BY <2>2 DEF OpFields
  <2> HIDE DEF request
  <2>4. FreshRequest(request)
    BY <2>1, <2>3 DEF FreshRequest, Kind
  <2>5. todo' = Program'
    <3>1. todo' = DeleteSteps /\ op'.kind = "delete"
      BY <2>1, <2>3 DEF Begin
    <3> QED
      BY <3>1 DEF Program
  <2> QED
    BY <2>1, <2>4, <2>5, BeginPlaces
<1>5. ASSUME NEW a \in Account, ClearAuth(a) PROVE PlacesInv'
  <2> DEFINE r == Request("clear_auth", a)
  <2>1. Begin(r, <<"plan">>) /\ Exists(a)
    BY <1>5 DEF ClearAuth
  <2>2. /\ DOMAIN r = OpFields /\ r.kind = "clear_auth" /\ r.acct = a /\ r.new = a
        /\ r.before = catalog[a] /\ r.had = docker[a] /\ r.status = catalog[a]
        /\ (r.proxied <=> a \in custom) /\ (r.keyed <=> a \in secret) /\ ~r.err
    BY RequestRead
  <2> HIDE DEF r
  <2>3. FreshRequest(r)
    BY <2>1, <2>2 DEF FreshRequest, Kind, Exists
  <2>4. todo' = <<"plan">>
    BY <2>1 DEF Begin
  <2> QED
    BY <2>1, <2>3, <2>4, BeginPlaces
<1> QED
  BY <1>1, <1>2, <1>3, <1>4, <1>5 DEF Operations

-----------------------------------------------------------------------------
(* Recovery. *)

\* Where the recovery of an account is, by the steps it has left.
LEMMA RecoverAllPlace ==
  ASSUME IsTail(todo, RecoverAll)
  PROVE  /\ Left \in 1..9
         /\ Head(todo) = "rec_secrets" <=> Left = 9
         /\ Head(todo) = "rec_files" <=> Left = 8
         /\ Head(todo) = "render" <=> Left = 7
         /\ Head(todo) = "rec_stop" <=> Left = 6
         /\ Head(todo) = "rec_start" <=> Left = 5
         /\ Head(todo) = "rec_routes" <=> Left = 4
         /\ Head(todo) = "publish" <=> Left = 3
         /\ Head(todo) = "wait" <=> Left = 2
         /\ Head(todo) = "finish" <=> Left = 1
         /\ Head(todo) \notin {"drain"}
         /\ Left # 1 => IsTail(Tail(todo), RecoverAll) /\ Len(Tail(todo)) = Left - 1
<1>1. Len(RecoverAll) = 9 /\ RecoverAll \in Seq(Step)
  BY DEF RecoverAll, Republish, Step, Phase
<1>2. Left \in 1..9 /\ Head(todo) = RecoverAll[10 - Left]
  <2>1. Left \in 1..Len(RecoverAll) /\ Head(todo) = RecoverAll[Len(RecoverAll) + 1 - Left]
    BY <1>1, HeadAt
  <2> QED
    BY <1>1, <2>1
<1>3. \A n \in 1..9 :
         /\ RecoverAll[10 - n] = "rec_secrets" <=> n = 9
         /\ RecoverAll[10 - n] = "rec_files" <=> n = 8
         /\ RecoverAll[10 - n] = "render" <=> n = 7
         /\ RecoverAll[10 - n] = "rec_stop" <=> n = 6
         /\ RecoverAll[10 - n] = "rec_start" <=> n = 5
         /\ RecoverAll[10 - n] = "rec_routes" <=> n = 4
         /\ RecoverAll[10 - n] = "publish" <=> n = 3
         /\ RecoverAll[10 - n] = "wait" <=> n = 2
         /\ RecoverAll[10 - n] = "finish" <=> n = 1
         /\ RecoverAll[10 - n] \notin {"drain"}
  BY DEF RecoverAll, Republish
<1>4. Left # 1 => IsTail(Tail(todo), RecoverAll) /\ Len(Tail(todo)) = Left - 1
  BY <1>1, TailOfTail DEF Left
<1> QED
  BY <1>2, <1>3, <1>4

\* Where the recovery of a creation without a row is.
LEMMA RecoverCreatePlace ==
  ASSUME IsTail(todo, RecoverCreate)
  PROVE  /\ Left \in 1..7
         /\ Head(todo) = "rec_secrets" <=> Left = 7
         /\ Head(todo) = "rec_files" <=> Left = 2
         /\ Head(todo) = "render" <=> Left = 6
         /\ Head(todo) = "rec_stop" <=> Left = 3
         /\ Head(todo) = "publish" <=> Left = 5
         /\ Head(todo) = "wait" <=> Left = 4
         /\ Head(todo) = "finish" <=> Left = 1
         /\ Head(todo) \notin {"rec_start", "rec_routes", "drain"}
         /\ Left # 1 => IsTail(Tail(todo), RecoverCreate) /\ Len(Tail(todo)) = Left - 1
<1>1. Len(RecoverCreate) = 7 /\ RecoverCreate \in Seq(Step)
  BY DEF RecoverCreate, Step, Phase
<1>2. Left \in 1..7 /\ Head(todo) = RecoverCreate[8 - Left]
  <2>1. Left \in 1..Len(RecoverCreate) /\ Head(todo) = RecoverCreate[Len(RecoverCreate) + 1 - Left]
    BY <1>1, HeadAt
  <2> QED
    BY <1>1, <2>1
<1>3. \A n \in 1..7 :
         /\ RecoverCreate[8 - n] = "rec_secrets" <=> n = 7
         /\ RecoverCreate[8 - n] = "rec_files" <=> n = 2
         /\ RecoverCreate[8 - n] = "render" <=> n = 6
         /\ RecoverCreate[8 - n] = "rec_stop" <=> n = 3
         /\ RecoverCreate[8 - n] = "publish" <=> n = 5
         /\ RecoverCreate[8 - n] = "wait" <=> n = 4
         /\ RecoverCreate[8 - n] = "finish" <=> n = 1
         /\ RecoverCreate[8 - n] \notin {"rec_start", "rec_routes", "drain"}
  BY DEF RecoverCreate
<1>4. Left # 1 => IsTail(Tail(todo), RecoverCreate) /\ Len(Tail(todo)) = Left - 1
  BY <1>1, TailOfTail DEF Left
<1> QED
  BY <1>2, <1>3, <1>4

\* Where the recovery of a deletion is.
LEMMA RecoverDeletePlace ==
  ASSUME IsTail(todo, RecoverDelete)
  PROVE  /\ Left \in 1..8
         /\ Head(todo) = "rec_secrets" <=> Left = 8
         /\ Head(todo) = "rec_files" <=> Left = 2
         /\ Head(todo) = "render" <=> Left = 7
         /\ Head(todo) = "rec_stop" <=> Left = 3
         /\ Head(todo) = "publish" <=> Left = 6
         /\ Head(todo) = "wait" <=> Left = 5
         /\ Head(todo) = "drain" <=> Left = 4
         /\ Head(todo) = "finish" <=> Left = 1
         /\ Head(todo) \notin {"rec_start", "rec_routes"}
         /\ Left # 1 => IsTail(Tail(todo), RecoverDelete) /\ Len(Tail(todo)) = Left - 1
<1>1. Len(RecoverDelete) = 8 /\ RecoverDelete \in Seq(Step)
  BY DEF RecoverDelete, Step, Phase
<1>2. Left \in 1..8 /\ Head(todo) = RecoverDelete[9 - Left]
  <2>1. Left \in 1..Len(RecoverDelete) /\ Head(todo) = RecoverDelete[Len(RecoverDelete) + 1 - Left]
    BY <1>1, HeadAt
  <2> QED
    BY <1>1, <2>1
<1>3. \A n \in 1..8 :
         /\ RecoverDelete[9 - n] = "rec_secrets" <=> n = 8
         /\ RecoverDelete[9 - n] = "rec_files" <=> n = 2
         /\ RecoverDelete[9 - n] = "render" <=> n = 7
         /\ RecoverDelete[9 - n] = "rec_stop" <=> n = 3
         /\ RecoverDelete[9 - n] = "publish" <=> n = 6
         /\ RecoverDelete[9 - n] = "wait" <=> n = 5
         /\ RecoverDelete[9 - n] = "drain" <=> n = 4
         /\ RecoverDelete[9 - n] = "finish" <=> n = 1
         /\ RecoverDelete[9 - n] \notin {"rec_start", "rec_routes"}
  BY DEF RecoverDelete
<1>4. Left # 1 => IsTail(Tail(todo), RecoverDelete) /\ Len(Tail(todo)) = Left - 1
  BY <1>1, TailOfTail DEF Left
<1> QED
  BY <1>2, <1>3, <1>4

\* What is known in a recovery
LEMMA RecoverKnown ==
  ASSUME LifecycleInv, PlacesInv, mode = "recover"
  PROVE  /\ RestFacts /\ RecoverWorkFacts /\ RecoverFacts /\ JournalTypeOK
         /\ op.kind = journal.kind /\ op.acct = journal.acct /\ op.new = journal.new
         /\ op.acct \in Account /\ op.new \in Account /\ op.kind \in Kind
         /\ op.kind # "update" => op.new = op.acct
         /\ Head(todo) \in RecoverStep /\ Head(todo) = todo[1]
<1>1. RecoverWorkFacts /\ RecoverFacts /\ JournalTypeOK
  BY DEF PlacesInv, RecoverWorkInv, LifecycleInv, RecoverInv, StateTypeOK
<1>2. journal.kind # "none" /\ journal # NoJournal
  BY <1>1 DEF RecoverWorkFacts, NoJournal
<1>3. RestFacts
  BY <1>2 DEF PlacesInv, RestInv
<1>4. Head(todo) \in RecoverStep /\ Head(todo) = todo[1]
  BY <1>1, TailShorter DEF RecoverFacts
<1> QED
  BY <1>1, <1>2, <1>3, <1>4 DEF RecoverFacts, JournalTypeOK, RestFacts, Kind

\* The two accounts of the journal are the desired one and the other.
LEMMA DesiredOther ==
  ASSUME LifecycleInv, PlacesInv, mode = "recover", Desired # NoAccount
  PROVE  /\ Desired \in Account /\ Other \in Account /\ Exists(Desired)
         /\ \A a \in {op.acct, op.new} : a = Desired \/ a = Other
         /\ Desired \in {op.acct, op.new} /\ Other \in {op.acct, op.new}
         /\ ~Renames => Other = Desired
         /\ Renames => Other # Desired
         /\ Other # Desired /\ Exists(Other) => Exists(op.acct) /\ Exists(op.new)
<1>1. /\ op.acct = journal.acct /\ op.new = journal.new /\ op.acct \in Account
      /\ op.new \in Account /\ JournalTypeOK /\ journal.kind # "none"
  BY RecoverKnown DEF Kind
<1>2. Desired \in Account /\ Exists(Desired) /\ Desired \in {op.acct, op.new}
  BY <1>1, DesiredIs
<1> QED
  BY <1>1, <1>2 DEF Other, Renames

\* A step of a recovery is done.
RecoverMoves ==
    /\ LifecycleInv /\ PlacesInv /\ mode = "recover" /\ mode' = mode
    /\ todo' = Tail(todo) /\ Head(todo) # "finish" /\ journal' = journal
    /\ catalog' = catalog /\ custom' = custom
    /\ op'.kind = op.kind /\ op'.acct = op.acct /\ op'.new = op.new
    /\ op'.plan = op.plan /\ op'.had = op.had

\* What it has done to the host
RecoverEffects ==
    /\ secret' \subseteq Account /\ disk' \in [Account -> Disk] /\ backup' = backup
    /\ docker' \in [Account -> Container]
    /\ \A a \in Account \ {op.acct, op.new} : Same(a)
    /\ Head(todo) # "rec_secrets" => secret' = secret
    /\ Head(todo) # "rec_files" => disk' = disk
    /\ Head(todo) \notin {"rec_stop", "rec_start"} => docker' = docker
    /\ Head(todo) = "rec_secrets" =>
          /\ Desired = NoAccount => op.acct \notin secret'
          /\ Desired # NoAccount /\ Other # Desired => Other \notin secret'
    /\ Head(todo) = "rec_files" =>
          /\ Desired = NoAccount => disk'[op.acct] = "none"
          /\ Desired # NoAccount =>
                /\ disk'[Desired] # "none"
                /\ Other # Desired => disk'[Other] = "none" /\ ~Exists(Other)
    /\ Head(todo) = "render" => custom \subseteq secret
    /\ Head(todo) = "rec_stop" => docker'[op.acct] = "none" /\ docker'[op.new] = "none"
    /\ Head(todo) = "rec_start" /\ Desired # NoAccount =>
          /\ docker'[Desired] # "none"
          /\ Other # Desired => docker'[Other] = docker[Other]

\* The account a recovery reconciles with does not change while it works.
LEMMA RecoverMeans ==
  ASSUME RecoverMoves
  PROVE  /\ Desired' = Desired /\ (Spared' <=> Spared) /\ Other' = Other
         /\ \A a : Exists(a)' <=> Exists(a)
         /\ (Renames' <=> Renames)
<1>1. \A a : Exists(a)' <=> Exists(a)
  BY DEF RecoverMoves, Exists
<1>2. Desired' = Desired
  BY DEF RecoverMoves, Desired, Exists
<1> QED
  BY <1>1, <1>2 DEF RecoverMoves, Spared, Unchanged, Other, Renames

\* The steps of a recovery that follow
LEMMA RecoverTail ==
  ASSUME RecoverMoves
  PROVE  /\ Left \in Nat /\ Left >= 2 /\ Left' = Left - 1
         /\ Head(todo) = todo[1] /\ todo[Left] = "finish"
         /\ \A i \in 1..Left' : todo'[i] = todo[i + 1] /\ i + 1 \in 1..Left
         /\ \A s : Ahead(s) /\ s # Head(todo) => Ahead(s)'
<1>1. /\ LifecycleInv /\ Busy /\ Head(todo) \in RecoverStep /\ Head(todo) # "finish"
      /\ todo' = Tail(todo) /\ RecoverFacts
  BY RecoverKnown DEF RecoverMoves, Busy
<1>2. Head(todo) # "plan"
  BY <1>1 DEF RecoverStep
<1>3. /\ Head(todo) = todo[1] /\ Left \in Nat /\ Left >= 1
      /\ Len(Tail(todo)) = Left - 1
      /\ \A i \in 1..Left - 1 : Tail(todo)[i] = todo[i + 1]
  BY <1>1, <1>2, TodoTail
<1>4. Left' = Left - 1
  <2>1. Left' = Len(todo')
    BY DEF Left
  <2> QED
    BY <1>1, <1>3, <2>1
<1>5. todo[Left] = "finish" /\ Left >= 2
  BY <1>1, <1>3 DEF RecoverFacts
<1>6. \A i \in 1..Left' : todo'[i] = todo[i + 1] /\ i + 1 \in 1..Left
  BY <1>1, <1>3, <1>4
<1>7. ASSUME NEW s, Ahead(s), s # Head(todo) PROVE Ahead(s)'
  BY <1>1, <1>2, <1>7, AheadStays
<1> QED
  BY <1>3, <1>4, <1>5, <1>6, <1>7

\* A recovery owes a publication until it publishes.
LEMMA RecoverSnap ==
  ASSUME RecoverMoves, routes' = routes, snap' = snap, mv' = mv, Head(todo) # "publish"
  PROVE  SnapInv'
<1>1. AdminOwes => AdminOwes'
  BY RecoverTail DEF RecoverMoves, AdminOwes
<1> QED
  BY <1>1, SnapQuiet DEF RecoverMoves, PlacesInv

\* The four kinds of recovery go on.
LEMMA SparedGoesOn ==
  ASSUME RecoverMoves, RecoverEffects, Spared
  PROVE  RecoverSparedFacts' /\ (Head(todo) = "rec_files" => op.kind = "create")
         /\ Head(todo) \in {"rec_files", "rec_routes", "publish", "wait"}
<1>1. RecoverSparedFacts /\ op.kind \in Kind /\ op.kind = journal.kind
  BY RecoverKnown DEF RecoverMoves, RecoverWorkFacts
<1>2. /\ Left \in Nat /\ Left >= 2 /\ Left' = Left - 1 /\ Head(todo) = todo[1]
      /\ Head(todo) # "finish"
      /\ \A i \in 1..Left' : todo'[i] = todo[i + 1] /\ i + 1 \in 1..Left
  BY RecoverTail DEF RecoverMoves
<1>3. /\ Head(todo) \in {"rec_files", "rec_routes", "publish", "wait"}
      /\ Head(todo) = "rec_files" => op.kind = "create"
  <2>1. 1 \in 1..Left
    BY <1>2
  <2> QED
    BY <1>1, <1>2, <2>1 DEF RecoverSparedFacts
<1>4. ASSUME NEW i \in 1..Left'
      PROVE  /\ todo'[i] \in {"rec_files", "rec_routes", "publish", "wait", "finish"}
             /\ todo'[i] = "rec_files" => op'.kind = "create"
             /\ todo'[i] = "rec_routes" => i < Left' - 2 /\ todo'[Left' - 2] = "publish"
             /\ todo'[i] = "finish" => i = Left'
  <2>1. i + 1 \in 1..Left /\ todo'[i] = todo[i + 1] /\ i \in Nat
    BY <1>2, <1>4
  <2>2. /\ todo[i + 1] \in {"rec_files", "rec_routes", "publish", "wait", "finish"}
        /\ todo[i + 1] = "rec_files" => op.kind = "create"
        /\ todo[i + 1] = "rec_routes" => i + 1 < Left - 2 /\ todo[Left - 2] = "publish"
        /\ todo[i + 1] = "finish" => i + 1 = Left
    BY <1>1, <2>1 DEF RecoverSparedFacts
  <2>3. ASSUME todo'[i] = "rec_routes"
        PROVE  i < Left' - 2 /\ todo'[Left' - 2] = "publish"
    <3>1. i + 1 < Left - 2 /\ todo[Left - 2] = "publish"
      BY <2>1, <2>2, <2>3
    <3>2. i < Left' - 2 /\ Left' - 2 \in 1..Left' /\ (Left' - 2) + 1 = Left - 2
      BY <1>2, <2>1, <3>1
    <3> QED
      BY <1>2, <3>1, <3>2
  <2>4. todo'[i] = "finish" => i = Left'
    BY <1>2, <2>1, <2>2
  <2> QED
    BY <2>1, <2>2, <2>3, <2>4 DEF RecoverMoves
<1>5. op'.kind = "create" => disk'[op'.acct] = "none" \/ Ahead("rec_files")'
  <2>1. SUFFICES ASSUME op.kind = "create" PROVE disk'[op.acct] = "none" \/ Ahead("rec_files")'
    BY DEF RecoverMoves
  <2>2. CASE Head(todo) = "rec_files"
    <3>1. Desired = NoAccount
      BY <1>1, <2>1 DEF Spared, Unchanged
    <3> QED
      BY <2>2, <3>1 DEF RecoverEffects
  <2>3. CASE Head(todo) # "rec_files"
    <3>1. disk[op.acct] = "none" \/ Ahead("rec_files")
      BY <1>1, <2>1 DEF RecoverSparedFacts
    <3> QED
      BY <2>3, <3>1, RecoverTail DEF RecoverEffects
  <2> QED
    BY <2>2, <2>3
<1> QED
  BY <1>3, <1>4, <1>5 DEF RecoverSparedFacts

\* The recovery of an account that is there brings every place to it.
LEMMA AllGoesOn ==
  ASSUME RecoverMoves, RecoverEffects, ~Spared, Desired # NoAccount
  PROVE  RecoverAllFacts'
<1>1. RecoverAllFacts
  BY RecoverKnown DEF RecoverMoves, RecoverWorkFacts
<1>2. IsTail(todo, RecoverAll)
  BY <1>1 DEF RecoverAllFacts
<1>3. Left' = Left - 1 /\ Left \in 2..9
  BY <1>2, RecoverTail, RecoverAllPlace
<1>4. IsTail(todo, RecoverAll)'
  <2>1. IsTail(Tail(todo), RecoverAll)
    BY <1>2, <1>3, RecoverAllPlace
  <2>2. RecoverAll' = RecoverAll /\ todo' = Tail(todo)
    BY DEF RecoverAll, RecoverMoves
  <2> QED
    BY <2>1, <2>2 DEF IsTail
<1>5. /\ Desired' = Desired /\ Other' = Other /\ custom' = custom
      /\ op'.acct = op.acct /\ op'.new = op.new
      /\ (Exists(Other))' <=> Exists(Other)
      /\ Desired \in {op.acct, op.new} /\ Other \in {op.acct, op.new}
  BY RecoverMeans, DesiredOther DEF RecoverMoves, Exists
<1>6. (Left < 9 => (Other # Desired => Other \notin secret))'
  <2>1. ASSUME Other # Desired PROVE Other \notin secret'
    <3>1. CASE Left = 9
      BY <1>2, <2>1, <3>1, RecoverAllPlace DEF RecoverEffects
    <3>2. CASE Left < 9
      <4>1. Head(todo) # "rec_secrets"
        BY <1>2, <3>2, RecoverAllPlace
      <4> QED
        BY <1>1, <2>1, <3>2, <4>1 DEF RecoverEffects, RecoverAllFacts
    <3> QED
      BY <1>3, <3>1, <3>2
  <2> QED
    BY <1>5, <2>1
<1>7. ASSUME Left' < 8
      PROVE  /\ disk'[Desired] # "none"
             /\ Other # Desired => disk'[Other] = "none" /\ ~Exists(Other)
  <2>1. CASE Left = 8
    BY <1>2, <2>1, RecoverAllPlace DEF RecoverEffects
  <2>2. CASE Left < 8
    <3>1. Head(todo) # "rec_files"
      BY <1>2, <2>2, RecoverAllPlace
    <3> QED
      BY <1>1, <2>2, <3>1 DEF RecoverEffects, RecoverAllFacts
  <2> QED
    BY <1>3, <1>7, <2>1, <2>2
<1>8. ASSUME Left' < 7 PROVE custom \subseteq secret'
  <2>1. CASE Left = 7
    BY <1>2, <2>1, RecoverAllPlace DEF RecoverEffects
  <2>2. CASE Left < 7
    <3>1. Head(todo) # "rec_secrets"
      BY <1>2, <2>2, RecoverAllPlace
    <3> QED
      BY <1>1, <2>2, <3>1 DEF RecoverEffects, RecoverAllFacts
  <2> QED
    BY <1>3, <1>8, <2>1, <2>2
<1>9. ASSUME Left' = 5 PROVE docker'[op.acct] = "none" /\ docker'[op.new] = "none"
  <2>1. Head(todo) = "rec_stop"
    BY <1>2, <1>3, <1>9, RecoverAllPlace
  <2> QED
    BY <2>1 DEF RecoverEffects
<1>10. ASSUME Left' < 5
       PROVE  docker'[Desired] # "none" /\ (Other # Desired => docker'[Other] = "none")
  <2>1. CASE Left = 5
    <3>1. Head(todo) = "rec_start" /\ docker[Other] = "none"
      BY <1>1, <1>2, <1>5, <2>1, RecoverAllPlace DEF RecoverAllFacts
    <3> QED
      BY <3>1 DEF RecoverEffects
  <2>2. CASE Left < 5
    <3>1. Head(todo) \notin {"rec_stop", "rec_start"}
      BY <1>2, <2>2, RecoverAllPlace
    <3> QED
      BY <1>1, <2>2, <3>1 DEF RecoverEffects, RecoverAllFacts
  <2> QED
    BY <1>3, <1>10, <2>1, <2>2
<1> QED
  BY <1>4, <1>5, <1>6, <1>7, <1>8, <1>9, <1>10 DEF RecoverAllFacts

\* The recovery of a creation without a row removes every trace.
LEMMA CreateGoesOn ==
  ASSUME RecoverMoves, RecoverEffects, ~Spared, Desired = NoAccount, op.kind = "create"
  PROVE  RecoverCreateFacts'
<1>1. RecoverCreateFacts
  BY RecoverKnown DEF RecoverMoves, RecoverWorkFacts
<1>2. IsTail(todo, RecoverCreate)
  BY <1>1 DEF RecoverCreateFacts
<1>3. Left' = Left - 1 /\ Left \in 2..7 /\ op'.acct = op.acct /\ custom' = custom
  BY <1>2, RecoverTail, RecoverCreatePlace DEF RecoverMoves
<1>4. IsTail(todo, RecoverCreate)'
  <2>1. IsTail(Tail(todo), RecoverCreate)
    BY <1>2, <1>3, RecoverCreatePlace
  <2>2. RecoverCreate' = RecoverCreate /\ todo' = Tail(todo)
    BY DEF RecoverCreate, RecoverMoves
  <2> QED
    BY <2>1, <2>2 DEF IsTail
<1>5. ASSUME Left' < 7 PROVE op.acct \notin secret'
  <2>1. CASE Left = 7
    BY <1>2, <2>1, RecoverCreatePlace DEF RecoverEffects
  <2>2. CASE Left < 7
    <3>1. Head(todo) # "rec_secrets"
      BY <1>2, <2>2, RecoverCreatePlace
    <3> QED
      BY <1>1, <2>2, <3>1 DEF RecoverEffects, RecoverCreateFacts
  <2> QED
    BY <1>3, <2>1, <2>2
<1>6. ASSUME Left' < 6 PROVE custom \subseteq secret'
  <2>1. CASE Left = 6
    BY <1>2, <2>1, RecoverCreatePlace DEF RecoverEffects
  <2>2. CASE Left < 6
    <3>1. Head(todo) # "rec_secrets"
      BY <1>2, <2>2, RecoverCreatePlace
    <3> QED
      BY <1>1, <2>2, <3>1 DEF RecoverEffects, RecoverCreateFacts
  <2> QED
    BY <1>3, <1>6, <2>1, <2>2
<1>7. ASSUME Left' < 3 PROVE docker'[op.acct] = "none"
  <2>1. CASE Left = 3
    BY <1>2, <2>1, RecoverCreatePlace DEF RecoverEffects
  <2>2. CASE Left < 3
    <3>1. Head(todo) \notin {"rec_stop", "rec_start"}
      BY <1>2, <2>2, RecoverCreatePlace
    <3> QED
      BY <1>1, <2>2, <3>1 DEF RecoverEffects, RecoverCreateFacts
  <2> QED
    BY <1>3, <1>7, <2>1, <2>2
<1>8. ASSUME Left' < 2 PROVE disk'[op.acct] = "none"
  <2>1. Left = 2
    BY <1>3, <1>8
  <2> QED
    BY <1>2, <2>1, RecoverCreatePlace DEF RecoverEffects
<1> QED
  BY <1>3, <1>4, <1>5, <1>6, <1>7, <1>8 DEF RecoverCreateFacts

\* So does the recovery of a deletion whose row is gone.
LEMMA GoneGoesOn ==
  ASSUME RecoverMoves, RecoverEffects, ~Spared, Desired = NoAccount, op.kind = "delete"
  PROVE  RecoverGoneFacts'
<1>1. RecoverGoneFacts
  BY RecoverKnown DEF RecoverMoves, RecoverWorkFacts
<1>2. IsTail(todo, RecoverDelete)
  BY RecoverKnown DEF RecoverMoves, RecoverFacts, DeleteRecovered
<1>3. Left' = Left - 1 /\ Left \in 2..8 /\ op'.acct = op.acct /\ custom' = custom
  BY <1>2, RecoverTail, RecoverDeletePlace DEF RecoverMoves
<1>5. ASSUME Left' < 8 PROVE op.acct \notin secret'
  <2>1. CASE Left = 8
    BY <1>2, <2>1, RecoverDeletePlace DEF RecoverEffects
  <2>2. CASE Left < 8
    <3>1. Head(todo) # "rec_secrets"
      BY <1>2, <2>2, RecoverDeletePlace
    <3> QED
      BY <1>1, <2>2, <3>1 DEF RecoverEffects, RecoverGoneFacts
  <2> QED
    BY <1>3, <2>1, <2>2
<1>6. ASSUME Left' < 7 PROVE custom \subseteq secret'
  <2>1. CASE Left = 7
    BY <1>2, <2>1, RecoverDeletePlace DEF RecoverEffects
  <2>2. CASE Left < 7
    <3>1. Head(todo) # "rec_secrets"
      BY <1>2, <2>2, RecoverDeletePlace
    <3> QED
      BY <1>1, <2>2, <3>1 DEF RecoverEffects, RecoverGoneFacts
  <2> QED
    BY <1>3, <1>6, <2>1, <2>2
<1>7. ASSUME Left' < 3 PROVE docker'[op.acct] = "none"
  <2>1. CASE Left = 3
    BY <1>2, <2>1, RecoverDeletePlace DEF RecoverEffects
  <2>2. CASE Left < 3
    <3>1. Head(todo) \notin {"rec_stop", "rec_start"}
      BY <1>2, <2>2, RecoverDeletePlace
    <3> QED
      BY <1>1, <2>2, <3>1 DEF RecoverEffects, RecoverGoneFacts
  <2> QED
    BY <1>3, <1>7, <2>1, <2>2
<1>8. ASSUME Left' < 2 PROVE disk'[op.acct] = "none"
  <2>1. Left = 2
    BY <1>3, <1>8
  <2> QED
    BY <1>2, <2>1, RecoverDeletePlace DEF RecoverEffects
<1> QED
  BY <1>3, <1>5, <1>6, <1>7, <1>8 DEF RecoverGoneFacts

\* What a recovery relies on stays true while it works.
LEMMA RestGoesOn ==
  ASSUME RecoverMoves, RecoverEffects
  PROVE  RestFacts'
<1>1. /\ RestFacts /\ RecoverWorkFacts /\ op.kind = journal.kind
      /\ op.acct = journal.acct /\ op.new = journal.new /\ op.kind \in Kind
      /\ op.acct \in Account /\ op.new \in Account /\ JournalTypeOK
      /\ op.kind # "update" => op.new = op.acct
  BY RecoverKnown DEF RecoverMoves
<1>2. journal' = journal /\ catalog' = catalog /\ custom' = custom
  BY DEF RecoverMoves
<1>3. (journal.kind # "update" => journal.new = journal.acct)'
  BY <1>1, <1>2
<1>4. (\A a \in {journal.acct, journal.new} : a \in custom => Exists(a))'
  BY <1>1, <1>2 DEF RestFacts, Exists
<1>5. (journal.kind = "clear_auth" => disk[journal.acct] # "none")'
  <2>1. SUFFICES ASSUME op.kind = "clear_auth" PROVE disk'[op.acct] # "none"
    BY <1>1, <1>2
  <2>2. CASE Head(todo) # "rec_files"
    BY <1>1, <2>1, <2>2 DEF RestFacts, RecoverEffects
  <2>3. CASE Head(todo) = "rec_files"
    <3>1. ~Spared
      BY <2>1, <2>3, SparedGoesOn
    <3>2. Desired # NoAccount
      BY <1>1, <2>1, <3>1 DEF RecoverWorkFacts
    <3>3. Desired = op.acct
      BY <1>1, <2>1, <3>2, DesiredOther DEF RecoverMoves
    <3> QED
      BY <2>3, <3>2, <3>3 DEF RecoverEffects
  <2> QED
    BY <2>2, <2>3
<1>6. (journal.new # journal.acct /\ Exists(journal.acct) /\ Exists(journal.new) =>
          disk[journal.acct] # "none" /\ disk[journal.new] # "none")'
  <2>1. SUFFICES ASSUME op.new # op.acct, Exists(op.acct), Exists(op.new)
                 PROVE  disk'[op.acct] # "none" /\ disk'[op.new] # "none"
    BY <1>1, <1>2 DEF Exists
  <2>2. Desired # NoAccount
    BY <1>1, <2>1, DesiredIs DEF Kind
  <2>3. Other # Desired /\ Exists(Other)
    BY <2>1, <2>2, DesiredOther DEF RecoverMoves, Renames
  <2>4. Head(todo) # "rec_files"
    BY <2>2, <2>3 DEF RecoverEffects
  <2> QED
    BY <1>1, <2>1, <2>4 DEF RestFacts, RecoverEffects
<1>7. (Spared => IF journal.kind = "create"
               THEN docker[journal.acct] = "none" /\ journal.acct \notin secret
               ELSE Clean(journal.acct) /\ Clean(journal.new))'
  <2>1. SUFFICES ASSUME Spared
                 PROVE  (IF journal.kind = "create"
                         THEN docker[journal.acct] = "none" /\ journal.acct \notin secret
                         ELSE Clean(journal.acct) /\ Clean(journal.new))'
    BY RecoverMeans
  <2>2. /\ Head(todo) \in {"rec_files", "rec_routes", "publish", "wait"}
        /\ Head(todo) = "rec_files" => op.kind = "create"
    BY <2>1, SparedGoesOn
  <2>3. docker' = docker /\ secret' = secret
    BY <2>2 DEF RecoverEffects
  <2>4. CASE journal.kind = "create"
    BY <1>1, <1>2, <2>1, <2>3, <2>4 DEF RestFacts
  <2>5. CASE journal.kind # "create"
    <3>1. disk' = disk
      BY <1>1, <2>2, <2>5 DEF RecoverEffects
    <3>2. Clean(journal.acct) /\ Clean(journal.new)
      BY <2>1, <2>5, <1>1 DEF RestFacts
    <3> QED
      BY <1>2, <2>3, <2>5, <3>1, <3>2 DEF Clean, Exists
  <2> QED
    BY <2>4, <2>5
<1> QED
  BY <1>3, <1>4, <1>5, <1>6, <1>7 DEF RestFacts

\* A step of a recovery keeps the invariant.
LEMMA RecoverGoesOn ==
  ASSUME RecoverMoves, RecoverEffects, SnapInv'
  PROVE  PlacesInv'
<1>1. /\ PlacesInv /\ journal' = journal /\ custom' = custom /\ op'.had = op.had
      /\ mode' = "recover" /\ op'.plan = op.plan /\ op'.kind = op.kind
  BY DEF RecoverMoves
<1>2. /\ RecoverWorkFacts /\ op.acct = journal.acct /\ op.new = journal.new
      /\ op.kind \in Kind
  BY RecoverKnown DEF RecoverMoves
<1>3. HostTypeOK'
  BY <1>1 DEF PlacesInv, HostTypeOK, RecoverEffects
<1>4. FrameInv'
  BY <1>1, <1>2, FrameStays DEF PlacesInv, RecoverEffects
<1>5. RestInv'
  BY RestGoesOn DEF RestInv
<1>6. RecoverWorkInv'
  <2>1. (Desired' = Desired) /\ (Spared' <=> Spared)
    BY RecoverMeans
  <2>2. ~Spared /\ Desired = NoAccount =>
          /\ op.kind = "create" => RecoverCreateFacts'
          /\ op.kind # "create" => op.kind = "delete" /\ RecoverGoneFacts'
    BY <1>2, CreateGoesOn, GoneGoesOn DEF RecoverWorkFacts
  <2> QED
    BY <1>1, <1>2, <2>1, <2>2, SparedGoesOn, AllGoesOn DEF RecoverWorkInv, RecoverWorkFacts
<1>7. WorkInv' /\ RunDidInv' /\ UndoWorkInv' /\ JournalInv'
  BY <1>1 DEF WorkInv, RunDidInv, UndoWorkInv, JournalInv, PlacesInv
<1> QED
  BY <1>3, <1>4, <1>5, <1>6, <1>7 DEF PlacesInv

-----------------------------------------------------------------------------
(* The steps of a recovery. *)

\* The types of the host, in a recovery
LEMMA RecoverHost ==
  ASSUME LifecycleInv, PlacesInv, mode = "recover"
  PROVE  /\ custom \subseteq Account /\ secret \subseteq Account
         /\ disk \in [Account -> Disk] /\ backup \in Disk
         /\ docker \in [Account -> Container]
  BY DEF PlacesInv, HostTypeOK

\* recoverProxySecrets leaves a secret for the desired account only.
LEMMA RecoverSecretsEffects ==
  ASSUME RecoverMoves, RecoverSecrets
  PROVE  RecoverEffects
<1>1. /\ LifecycleInv /\ PlacesInv /\ mode = "recover" /\ catalog' = catalog
      /\ custom' = custom /\ disk' = disk /\ backup' = backup /\ docker' = docker
      /\ Head(todo) = "rec_secrets"
  BY DEF RecoverMoves, RecoverSecrets, At
<1>2. /\ op.acct \in Account /\ op.new \in Account /\ op.kind \in Kind
      /\ op.kind # "update" => op.new = op.acct
  BY <1>1, RecoverKnown
<1>3. CASE Desired = NoAccount
  <2>1. secret' = secret \ {op.acct}
    BY <1>3 DEF RecoverSecrets
  <2> QED
    BY <1>1, <1>2, <1>3, <2>1, RecoverHost DEF RecoverEffects, Same
<1>4. CASE Desired # NoAccount /\ op.kind = "update" /\ Renames
  <2>1. secret' = IF Desired = op.new /\ op.acct \in secret
                  THEN (secret \ {op.acct}) \cup {op.new} ELSE secret \ {Other}
    BY <1>4 DEF RecoverSecrets
  <2>2. Other \in {op.acct, op.new} /\ Other # Desired /\ (Desired = op.new => Other = op.acct)
    BY <1>1, <1>4, DesiredOther
  <2> QED
    BY <1>1, <1>2, <1>4, <2>1, <2>2, RecoverHost DEF RecoverEffects, Same
<1>5. CASE Desired # NoAccount /\ ~(op.kind = "update" /\ Renames)
  <2>1. secret' = secret
    BY <1>5 DEF RecoverSecrets
  <2>2. Other = Desired
    BY <1>1, <1>2, <1>5, DesiredOther DEF Renames
  <2> QED
    BY <1>1, <1>2, <1>5, <2>1, <2>2, RecoverHost DEF RecoverEffects, Same
<1> QED
  BY <1>3, <1>4, <1>5

\* FileManager.Recover leaves a directory for the desired account only; it
\* refuses when both names have one.
LEMMA RecoverFilesEffects ==
  ASSUME RecoverMoves, RecoverFiles
  PROVE  RecoverEffects
<1>1. /\ LifecycleInv /\ PlacesInv /\ mode = "recover" /\ catalog' = catalog
      /\ custom' = custom /\ secret' = secret /\ backup' = backup /\ docker' = docker
      /\ Head(todo) = "rec_files" /\ ~Blocked("rec_files")
  BY DEF RecoverMoves, RecoverFiles, At
<1>2. /\ op.acct \in Account /\ op.new \in Account /\ op.kind \in Kind /\ RestFacts
      /\ op.kind # "update" => op.new = op.acct
      /\ op.kind = journal.kind /\ op.acct = journal.acct /\ op.new = journal.new
  BY <1>1, RecoverKnown
<1>3. CASE Desired = NoAccount
  <2>1. disk' = [disk EXCEPT ![op.acct] = "none"]
    BY <1>3 DEF RecoverFiles
  <2>2. /\ disk' \in [Account -> Disk] /\ disk'[op.acct] = "none"
        /\ \A a \in Account \ {op.acct} : disk'[a] = disk[a]
    BY <1>1, <1>2, <2>1, RecoverHost DEF Disk
  <2> QED
    BY <1>1, <1>2, <1>3, <2>2, RecoverHost DEF RecoverEffects, Same
<1>4. CASE Desired # NoAccount /\ op.kind = "clear_auth"
  <2>0. ~Renames /\ op.kind # "delete"
    BY <1>2, <1>4 DEF Renames
  <2>1. disk' = IF backup = "none" THEN disk ELSE [disk EXCEPT ![op.acct] = "empty"]
    BY <1>4, <2>0 DEF RecoverFiles
  <2>2. Desired = op.acct /\ Other = Desired /\ disk[op.acct] # "none"
    BY <1>1, <1>2, <1>4, DesiredOther DEF RestFacts, Renames
  <2>3. /\ disk' \in [Account -> Disk] /\ disk'[op.acct] # "none"
        /\ \A a \in Account \ {op.acct} : disk'[a] = disk[a]
    BY <1>1, <1>2, <2>1, <2>2, RecoverHost DEF Disk
  <2> QED
    BY <1>1, <1>2, <1>4, <2>2, <2>3, RecoverHost DEF RecoverEffects, Same
<1>5. CASE Desired # NoAccount /\ op.kind # "clear_auth" /\ Renames
  <2>1. disk' = [disk EXCEPT ![Other] = "none",
                             ![Desired] = IF disk[Desired] # "none" THEN @
                                          ELSE IF disk[Other] # "none" THEN disk[Other]
                                          ELSE AtLeastEmpty(backup)]
    BY <1>5 DEF RecoverFiles
  <2>2. /\ Other # Desired /\ Desired \in Account /\ Other \in Account
        /\ Desired \in {op.acct, op.new} /\ Other \in {op.acct, op.new}
        /\ Exists(Other) => Exists(op.acct) /\ Exists(op.new)
    BY <1>1, <1>5, DesiredOther
  <2>3. ~Exists(Other)
    <3>1. ~(disk[op.acct] # "none" /\ disk[op.new] # "none")
      BY <1>1, <1>5 DEF Blocked
    <3> QED
      BY <1>2, <1>5, <2>2, <3>1 DEF RestFacts, Renames
  <2>4. AtLeastEmpty(backup) \in Disk /\ AtLeastEmpty(backup) # "none"
    BY <1>1, RecoverHost DEF AtLeastEmpty, Disk
  <2>5. /\ disk' \in [Account -> Disk] /\ disk'[Desired] # "none" /\ disk'[Other] = "none"
        /\ \A a \in Account \ {Desired, Other} : disk'[a] = disk[a]
    <3> DEFINE d == IF disk[Desired] # "none" THEN disk[Desired]
                    ELSE IF disk[Other] # "none" THEN disk[Other] ELSE AtLeastEmpty(backup)
    <3>1. d \in Disk /\ d # "none"
      BY <1>1, <2>2, <2>4, RecoverHost
    <3>2. disk' = [disk EXCEPT ![Other] = "none", ![Desired] = d]
      BY <1>1, <2>1, <2>2, RecoverHost
    <3> HIDE DEF d
    <3> QED
      BY <1>1, <2>2, <3>1, <3>2, RecoverHost DEF Disk
  <2>6. \A a \in Account \ {op.acct, op.new} : disk'[a] = disk[a]
    BY <2>2, <2>5
  <2> QED
    BY <1>1, <1>2, <1>5, <2>2, <2>3, <2>5, <2>6, RecoverHost DEF RecoverEffects, Same
<1>6. CASE Desired # NoAccount /\ op.kind # "clear_auth" /\ ~Renames
  <2>1. disk' = [disk EXCEPT ![Desired] =
                    IF @ = "none" /\ op.kind = "delete"
                    THEN AtLeastEmpty(backup) ELSE AtLeastEmpty(@)]
    BY <1>6 DEF RecoverFiles
  <2>2. Desired \in Account /\ Desired \in {op.acct, op.new} /\ Other = Desired
    BY <1>1, <1>6, DesiredOther
  <2>3. /\ AtLeastEmpty(backup) \in Disk /\ AtLeastEmpty(backup) # "none"
        /\ AtLeastEmpty(disk[Desired]) \in Disk /\ AtLeastEmpty(disk[Desired]) # "none"
    BY <1>1, <2>2, RecoverHost DEF AtLeastEmpty, Disk
  <2>4. /\ disk' \in [Account -> Disk] /\ disk'[Desired] # "none"
        /\ \A a \in Account \ {Desired} : disk'[a] = disk[a]
    BY <1>1, <2>1, <2>2, <2>3, RecoverHost
  <2> QED
    BY <1>1, <1>2, <1>6, <2>2, <2>4, RecoverHost DEF RecoverEffects, Same
<1> QED
  BY <1>3, <1>4, <1>5, <1>6

\* ReconcileAccount removes both containers, then starts the desired one.
LEMMA RecoverContainersEffects ==
  ASSUME RecoverMoves, RecoverStop \/ RecoverStart
  PROVE  RecoverEffects
<1>1. /\ LifecycleInv /\ PlacesInv /\ mode = "recover" /\ catalog' = catalog
      /\ custom' = custom /\ secret' = secret /\ backup' = backup /\ disk' = disk
  BY DEF RecoverMoves, RecoverStop, RecoverStart
<1>2. op.acct \in Account /\ op.new \in Account
  BY <1>1, RecoverKnown
<1>3. CASE RecoverStop
  <2>1. /\ docker' \in [Account -> Container]
        /\ docker'[op.acct] = "none" /\ docker'[op.new] = "none"
        /\ \A a \in Account \ {op.acct, op.new} : docker'[a] = docker[a]
    BY <1>1, <1>2, <1>3, RecoverHost DEF RecoverStop, Container
  <2>2. Head(todo) = "rec_stop"
    BY <1>3 DEF RecoverStop, At
  <2> QED
    BY <1>1, <1>2, <2>1, <2>2, RecoverHost DEF RecoverEffects, Same
<1>4. CASE RecoverStart
  <2>1. Head(todo) = "rec_start" /\ docker' = [docker EXCEPT ![Desired] = "running"]
    BY <1>4 DEF RecoverStart, At
  <2>2. docker' \in [Account -> Container]
    BY <1>1, <2>1, RecoverHost DEF Container
  <2>3. CASE Desired # NoAccount
    <3>1. Desired \in Account /\ Other \in Account /\ Desired \in {op.acct, op.new}
      BY <1>1, <2>3, DesiredOther
    <3>2. docker'[Desired] # "none" /\ \A a \in Account \ {Desired} : docker'[a] = docker[a]
      BY <1>1, <2>1, <3>1, RecoverHost
    <3> QED
      BY <1>1, <1>2, <2>1, <2>2, <3>1, <3>2, RecoverHost DEF RecoverEffects, Same
  <2>4. CASE Desired = NoAccount
    <3>1. docker' = docker
      BY <1>1, <2>1, <2>4, RecoverHost, NoAccountNot
    <3> QED
      BY <1>1, <1>2, <2>1, <2>2, <2>4, <3>1, RecoverHost DEF RecoverEffects, Same
  <2> QED
    BY <2>3, <2>4
<1> QED
  BY <1>3, <1>4

\* A recovery step that leaves the host alone
LEMMA RecoverIdleEffects ==
  ASSUME RecoverMoves, secret' = secret, disk' = disk, backup' = backup, docker' = docker,
         Head(todo) \notin {"rec_secrets", "rec_files", "rec_stop", "rec_start"},
         Head(todo) = "render" => custom \subseteq secret
  PROVE  RecoverEffects
<1>1. /\ LifecycleInv /\ PlacesInv /\ mode = "recover" /\ catalog' = catalog
      /\ custom' = custom
  BY DEF RecoverMoves
<1> QED
  BY <1>1, RecoverHost DEF RecoverEffects, Same

\* A recovery that moves users back publishes afterwards.
LEMMA RecoverRoutesOwe ==
  ASSUME LifecycleInv, PlacesInv, mode = "recover", RecoverMoves,
         RecoverEvacuatedRoutes
  PROVE  SnapInv'
<1>1. /\ RecoverWorkFacts /\ op.kind \in Kind /\ Head(todo) = todo[1]
      /\ Head(todo) = "rec_routes"
      /\ routes' = [u \in User |-> IF u \in Returning THEN Desired ELSE routes[u]]
      /\ snap' = snap /\ mv' = mv
  BY RecoverKnown DEF RecoverEvacuatedRoutes, At, Kept, pub
<1>2. CASE journal.phase = "accepted"
  <2>1. op.plan = NoPlan
    BY <1>1, <1>2 DEF RecoverWorkFacts, PlacesInv, JournalInv
  <2>2. Returning = {}
    BY <2>1 DEF Returning, InPlan, NoPlan
  <2>3. routes \in [User -> Target]
    BY DEF LifecycleInv, StateTypeOK, PublicationTypeOK, Routing
  <2>4. routes' = routes
    BY <1>1, <2>2, <2>3
  <2> QED
    BY <1>1, <2>4, RecoverSnap
<1>3. CASE journal.phase # "accepted"
  <2>1. Left \in Nat /\ Left >= 2
    BY RecoverTail
  <2>2. Ahead("publish")
    <3>1. CASE Spared
      <4>1. 1 \in 1..Left
        BY <2>1
      <4>2. 1 < Left - 2 /\ todo[Left - 2] = "publish"
        BY <1>1, <3>1, <4>1 DEF RecoverWorkFacts, RecoverSparedFacts
      <4>3. Left - 2 \in 1..Left
        BY <2>1, <4>2
      <4> QED
        BY <4>2, <4>3 DEF Ahead
    <3>2. CASE ~Spared /\ Desired # NoAccount
      <4>1. IsTail(todo, RecoverAll)
        BY <1>1, <3>2 DEF RecoverWorkFacts, RecoverAllFacts
      <4>2. Left = 4 /\ IsTail(Tail(todo), RecoverAll)
        BY <1>1, <4>1, RecoverAllPlace
      <4>3. todo[2] = "publish"
        <5>1. \A i \in 1..Len(todo) : todo[i] = RecoverAll[Len(RecoverAll) - Len(todo) + i]
          BY <4>1 DEF IsTail
        <5>2. Len(todo) = 4
          BY <4>2 DEF Left
        <5>3. todo[2] = RecoverAll[Len(RecoverAll) - 4 + 2]
          BY <5>1, <5>2
        <5>4. Len(RecoverAll) = 9 /\ RecoverAll[7] = "publish"
          BY DEF RecoverAll, Republish
        <5> QED
          BY <5>3, <5>4
      <4>4. 2 \in 1..Left
        BY <4>2
      <4> QED
        BY <4>3, <4>4 DEF Ahead
    <3>3. CASE ~Spared /\ Desired = NoAccount /\ op.kind = "create"
      <4>1. IsTail(todo, RecoverCreate)
        BY <1>1, <3>3 DEF RecoverWorkFacts, RecoverCreateFacts
      <4> QED
        BY <1>1, <4>1, RecoverCreatePlace
    <3>4. CASE ~Spared /\ Desired = NoAccount /\ op.kind # "create"
      <4>1. IsTail(todo, RecoverDelete)
        BY <1>1, <3>4, RecoverKnown DEF RecoverWorkFacts, RecoverFacts, DeleteRecovered
      <4> QED
        BY <1>1, <4>1, RecoverDeletePlace
    <3> QED
      BY <3>1, <3>2, <3>3, <3>4
  <2>3. Ahead("publish")'
    BY <1>1, <2>2, RecoverTail
  <2>4. mode' = "recover" /\ journal' = journal
    BY DEF RecoverMoves
  <2> QED
    BY <1>3, <2>3, <2>4 DEF SnapInv, AdminOwes
<1> QED
  BY <1>2, <1>3

\* Every step of a recovery keeps the invariant.
LEMMA RecoverWork ==
  ASSUME LifecycleInv, PlacesInv, mode = "recover",
         \/ RecoverSecrets \/ RecoverFiles \/ RecoverStop \/ RecoverStart
         \/ RenderProjection \/ WaitForGeneration \/ WaitAccountDrained
         \/ PublishAuthSnapshot \/ RecoverEvacuatedRoutes
  PROVE  PlacesInv'
<1>1. CASE \/ RecoverSecrets \/ RecoverFiles \/ RecoverStop \/ RecoverStart
           \/ RenderProjection \/ WaitForGeneration \/ WaitAccountDrained
  <2>1. /\ HostStep /\ custom' = custom /\ backup' = backup
        /\ Head(todo) \notin {"finish", "publish"}
    BY <1>1 DEF RecoverSecrets, RecoverFiles, RecoverStop, RecoverStart, RenderProjection,
       WaitForGeneration, WaitAccountDrained, At, host
  <2>2. /\ todo' = Tail(todo) /\ mode' = mode /\ op' = op /\ journal' = journal
        /\ catalog' = catalog /\ routes' = routes /\ snap' = snap /\ mv' = mv
    BY <2>1 DEF HostStep, Done, Kept, store, pub
  <2>3. RecoverMoves
    BY <2>1, <2>2 DEF RecoverMoves
  <2>4. SnapInv'
    BY <2>1, <2>2, <2>3, RecoverSnap
  <2>5. RecoverEffects
    <3>1. CASE RecoverSecrets
      BY <2>3, <3>1, RecoverSecretsEffects
    <3>2. CASE RecoverFiles
      BY <2>3, <3>2, RecoverFilesEffects
    <3>3. CASE RecoverStop \/ RecoverStart
      BY <2>3, <3>3, RecoverContainersEffects
    <3>4. CASE RenderProjection \/ WaitForGeneration \/ WaitAccountDrained
      <4>1. /\ secret' = secret /\ disk' = disk /\ docker' = docker
            /\ Head(todo) \in {"render", "wait", "drain"}
            /\ Head(todo) = "render" => custom \subseteq secret
        BY <3>4 DEF RenderProjection, Renderable, WaitForGeneration, WaitAccountDrained, At, host
      <4> QED
        BY <2>1, <2>3, <4>1, RecoverIdleEffects
    <3> QED
      BY <1>1, <3>1, <3>2, <3>3, <3>4
  <2> QED
    BY <2>3, <2>4, <2>5, RecoverGoesOn
<1>2. CASE PublishAuthSnapshot
  <2>1. /\ Head(todo) = "publish" /\ todo' = Tail(todo) /\ mode' = mode /\ journal' = journal
        /\ catalog' = catalog /\ routes' = routes /\ custom' = custom /\ secret' = secret
        /\ disk' = disk /\ backup' = backup /\ docker' = docker
        /\ snap' = [gen |-> minted + 1, view |-> Build]
    BY <1>2 DEF PublishAuthSnapshot, At, Done, Kept, store, host, WriteSnapshot
  <2>2. /\ op'.kind = op.kind /\ op'.acct = op.acct /\ op'.new = op.new
        /\ op'.plan = op.plan /\ op'.had = op.had
    BY <1>2 DEF PublishAuthSnapshot, LifecycleInv, StateTypeOK, OpTypeOK, OpFields
  <2>3. RecoverMoves
    BY <2>1, <2>2 DEF RecoverMoves
  <2>4. RecoverEffects
    BY <2>1, <2>3, RecoverIdleEffects
  <2>5. SnapInv'
    BY <2>1, SnapPublished
  <2> QED
    BY <2>3, <2>4, <2>5, RecoverGoesOn
<1>3. CASE RecoverEvacuatedRoutes
  <2>1. /\ Head(todo) = "rec_routes" /\ todo' = Tail(todo) /\ mode' = mode
        /\ journal' = journal /\ op' = op /\ UNCHANGED <<catalog, host>>
    BY <1>3 DEF RecoverEvacuatedRoutes, At, Done, Kept
  <2>2. /\ custom' = custom /\ secret' = secret /\ catalog' = catalog
        /\ disk' = disk /\ backup' = backup /\ docker' = docker
    BY <2>1 DEF host
  <2>3. RecoverMoves
    BY <2>1, <2>2 DEF RecoverMoves
  <2>4. RecoverEffects
    BY <2>1, <2>2, <2>3, RecoverIdleEffects
  <2>5. SnapInv'
    BY <1>3, <2>3, RecoverRoutesOwe
  <2> QED
    BY <2>3, <2>4, <2>5, RecoverGoesOn
<1> QED
  BY <1>1, <1>2, <1>3

\* A recovery that has done all its steps leaves the places in agreement.
LEMMA RecoverEndsClean ==
  ASSUME LifecycleInv, PlacesInv, mode = "recover", Head(todo) = "finish"
  PROVE  Clean(journal.acct) /\ Clean(journal.new) /\ ~Ahead("publish")
<1>1. /\ RestFacts /\ RecoverWorkFacts /\ op.kind \in Kind /\ JournalTypeOK
      /\ op.kind = journal.kind /\ op.acct = journal.acct /\ op.new = journal.new
      /\ op.acct \in Account /\ op.new \in Account /\ Head(todo) = todo[1]
      /\ op.kind # "update" => op.new = op.acct
  BY RecoverKnown
<1>2. Left \in Nat /\ Left >= 1
  BY TodoTail DEF Busy
<1>3. journal.kind # "none"
  BY <1>1 DEF RecoverWorkFacts
<1>4. \A a \in {op.acct, op.new} : a \in custom => Exists(a)
  BY <1>1 DEF RestFacts
<1>5. ASSUME Left = 1 PROVE \A s : s # "finish" => ~Ahead(s)
  BY <1>1, <1>5 DEF Ahead
<1>6. CASE Spared
  <2>1. RecoverSparedFacts
    BY <1>1, <1>6 DEF RecoverWorkFacts
  <2>2. Left = 1
    BY <1>1, <1>2, <2>1 DEF RecoverSparedFacts
  <2>3. ~Ahead("publish") /\ ~Ahead("rec_files")
    BY <1>5, <2>2
  <2>4. CASE journal.kind = "create"
    <3>1. Desired = NoAccount
      BY <1>6, <2>4 DEF Spared, Unchanged
    <3>2. ~Exists(journal.acct) /\ journal.new = journal.acct
      BY <1>1, <1>3, <2>4, <3>1, DesiredIs
    <3>3. docker[journal.acct] = "none" /\ journal.acct \notin secret
      BY <1>1, <1>6, <2>4 DEF RestFacts
    <3>4. disk[journal.acct] = "none"
      BY <1>1, <2>1, <2>3, <2>4 DEF RecoverSparedFacts
    <3>5. Clean(journal.acct)
      BY <1>1, <1>4, <3>2, <3>3, <3>4 DEF Clean
    <3> QED
      BY <2>3, <3>2, <3>5
  <2>5. CASE journal.kind # "create"
    BY <1>1, <1>6, <2>3, <2>5 DEF RestFacts
  <2> QED
    BY <2>4, <2>5
<1>7. CASE ~Spared /\ Desired # NoAccount
  <2>1. RecoverAllFacts
    BY <1>1, <1>7 DEF RecoverWorkFacts
  <2>2. Left = 1
    BY <2>1, RecoverAllPlace DEF RecoverAllFacts
  <2>3. ~Ahead("publish")
    BY <1>5, <2>2
  <2>4. /\ disk[Desired] # "none" /\ docker[Desired] # "none" /\ custom \subseteq secret
        /\ Other # Desired =>
              disk[Other] = "none" /\ ~Exists(Other) /\ docker[Other] = "none"
                /\ Other \notin secret
    BY <2>1, <2>2 DEF RecoverAllFacts
  <2>5. Exists(Desired) /\ \A a \in {op.acct, op.new} : a = Desired \/ a = Other
    BY <1>7, DesiredOther
  <2>6. Clean(Desired)
    BY <2>4, <2>5 DEF Clean
  <2>7. Other # Desired => Clean(Other)
    BY <2>4 DEF Clean
  <2>8. Clean(op.acct) /\ Clean(op.new)
    BY <2>5, <2>6, <2>7
  <2> QED
    BY <1>1, <2>3, <2>8
<1>8. CASE ~Spared /\ Desired = NoAccount
  <2>1. ~Exists(journal.acct) /\ ~Exists(journal.new)
    BY <1>1, <1>3, <1>8, DesiredIs
  <2>2. /\ op.acct \notin secret /\ docker[op.acct] = "none" /\ disk[op.acct] = "none"
        /\ Left = 1 /\ op.kind # "update"
    <3>1. CASE op.kind = "create"
      <4>1. RecoverCreateFacts
        BY <1>1, <1>8, <3>1 DEF RecoverWorkFacts
      <4>2. Left = 1
        BY <4>1, RecoverCreatePlace DEF RecoverCreateFacts
      <4> QED
        BY <3>1, <4>1, <4>2 DEF RecoverCreateFacts
    <3>2. CASE op.kind # "create"
      <4>1. op.kind = "delete" /\ RecoverGoneFacts
        BY <1>1, <1>8, <3>2 DEF RecoverWorkFacts
      <4>2. IsTail(todo, RecoverDelete)
        BY <1>8, <4>1, RecoverKnown DEF RecoverFacts, DeleteRecovered
      <4>3. Left = 1
        BY <4>2, RecoverDeletePlace
      <4> QED
        BY <4>1, <4>3 DEF RecoverGoneFacts
    <3> QED
      BY <3>1, <3>2
  <2>3. Clean(op.acct) /\ op.new = op.acct
    BY <1>1, <1>4, <2>1, <2>2 DEF Clean
  <2>4. ~Ahead("publish")
    BY <1>5, <2>2
  <2> QED
    BY <1>1, <2>3, <2>4
<1> QED
  BY <1>6, <1>7, <1>8

\* Admin stops, or goes on without an operation, and keeps the journal.
LEMMA AdminRests ==
  ASSUME LifecycleInv, PlacesInv, SameHost, routes' = routes, snap' = snap, mv' = mv,
         journal' = journal, op'.had \in Container, mode' \in {"idle", "down"},
         mode \notin {"run", "undo"}
  PROVE  PlacesInv'
<1>1. /\ catalog' = catalog /\ custom' = custom /\ secret' = secret /\ disk' = disk
      /\ backup' = backup /\ docker' = docker
  BY DEF SameHost
<1>2. HostTypeOK'
  BY <1>1 DEF PlacesInv, HostTypeOK
<1>3. \A a : Clean(a)' <=> Clean(a)
  BY <1>1 DEF Clean, Exists
<1>4. FrameInv'
  BY <1>3 DEF PlacesInv, FrameInv
<1>5. SnapInv'
  <2>1. AdminOwes => AdminOwes'
    BY DEF AdminOwes
  <2> QED
    BY <1>1, <2>1, SnapQuiet DEF PlacesInv
<1>6. RestInv'
  <2>1. RestFacts => RestFacts'
    BY <1>1 DEF RestFacts, Spared, Unchanged, Desired, Exists, Clean
  <2> QED
    BY <2>1 DEF PlacesInv, RestInv
<1>7. WorkInv' /\ RunDidInv' /\ UndoWorkInv' /\ RecoverWorkInv' /\ JournalInv'
  BY DEF WorkInv, RunDidInv, UndoWorkInv, RecoverWorkInv, JournalInv, PlacesInv
<1> QED
  BY <1>2, <1>4, <1>5, <1>6, <1>7 DEF PlacesInv

\* A recovery that ends, fails or crashes keeps the invariant.
LEMMA RecoverEnds ==
  ASSUME LifecycleInv, PlacesInv, mode = "recover",
         Finish \/ FinishFails \/ StepRefused \/ StepFails \/ Crash
  PROVE  PlacesInv'
<1>1. /\ catalog' = catalog /\ routes' = routes /\ snap' = snap /\ mv' = mv
      /\ mode' = "down" /\ op' = NoOp
  BY DEF Finish, FinishFails, StepRefused, StepFails, Crash, AfterFailure, store, pub
<1>2. Head(todo) \in RecoverStep /\ Busy
  BY RecoverKnown DEF Busy
<1>3. UNCHANGED host
  <2>1. ASSUME Partial PROVE UNCHANGED host
    <3>1. Head(todo) \notin {"stop", "undo_runtime", "undo_secrets", "files"}
      BY <1>2 DEF RecoverStep
    <3> QED
      BY <2>1, <3>1 DEF Partial
  <2> QED
    BY <2>1 DEF Finish, FinishFails, StepRefused, StepFails, Crash
<1>4. SameHost
  BY <1>1, <1>3 DEF SameHost, host
<1>5. op'.had \in Container
  BY <1>1 DEF NoOp, Container
<1>6. CASE journal' = journal
  BY <1>1, <1>4, <1>5, <1>6, AdminRests
<1>7. CASE journal' # journal
  <2>1. Head(todo) = "finish" /\ journal' = NoJournal
    BY <1>7 DEF Finish, FinishFails, StepRefused, StepFails, Crash, At
  <2>2. Clean(journal.acct) /\ Clean(journal.new) /\ ~AdminOwes
    BY <2>1, RecoverEndsClean DEF AdminOwes
  <2> QED
    BY <1>1, <1>2, <1>4, <2>1, <2>2, JournalGoes
<1> QED
  BY <1>6, <1>7

-----------------------------------------------------------------------------
(* Startup, and what happens outside of Admin. *)

\* The programs a recovery starts with
LEMMA RecoverStarts ==
  ASSUME journal.kind \in Kind, ~Spared,
         journal.kind \in {"update", "clear_auth"} => Desired # NoAccount
  PROVE  /\ Desired # NoAccount => RecoverProgram = RecoverAll
         /\ Desired = NoAccount /\ journal.kind = "create" =>
               RecoverProgram = <<"rec_secrets", "render", "publish", "wait">> \o <<>>
                                   \o <<"rec_stop", "rec_files", "finish">>
         /\ Desired = NoAccount /\ journal.kind # "create" =>
               /\ journal.kind = "delete"
               /\ RecoverProgram = <<"rec_secrets", "render", "publish", "wait">>
                                      \o <<"drain">> \o <<"rec_stop", "rec_files", "finish">>
<1>1. RecoverProgram =
        IF Desired = NoAccount
        THEN <<"rec_secrets", "render", "publish", "wait">>
                \o (IF journal.kind = "delete" THEN <<"drain">> ELSE <<>>)
                \o <<"rec_stop", "rec_files", "finish">>
        ELSE RecoverAll
  BY DEF RecoverProgram, Spared, RecoverAll
<1> QED
  BY <1>1 DEF Kind

\* A recovery that starts has all it must do ahead of it.
LEMMA StartRecovers ==
  ASSUME LifecycleInv, PlacesInv, StartAdmin, journal # NoJournal
  PROVE  PlacesInv'
<1>1. /\ mode = "down" /\ mode' = "recover" /\ todo' = RecoverProgram /\ journal' = journal
      /\ catalog' = catalog /\ routes' = routes /\ snap' = snap /\ mv' = mv
      /\ UNCHANGED host
      /\ journal.kind \in {"update", "clear_auth"} => Desired # NoAccount
  BY DEF StartAdmin, store, pub
<1>2. /\ op'.kind = journal.kind /\ op'.acct = journal.acct /\ op'.new = journal.new
      /\ op'.plan = journal.evac /\ op'.had = "none"
  BY DEF StartAdmin, NoOp
<1>3. /\ custom' = custom /\ secret' = secret /\ disk' = disk
      /\ backup' = backup /\ docker' = docker
  BY <1>1 DEF host
<1>4. RestFacts /\ journal.kind # "none" /\ JournalTypeOK /\ journal.kind \in Kind
  BY <1>1 DEF PlacesInv, RestInv, JournalInv, LifecycleInv, StateTypeOK, JournalTypeOK, Kind
<1>5. Left' = Len(RecoverProgram)
  BY <1>1 DEF Left
<1>6. Desired' = Desired
  BY <1>1 DEF Desired, Exists
<1>7. Spared' <=> Spared
  BY <1>1, <1>6 DEF Spared, Unchanged
<1>8. HostTypeOK'
  BY <1>2, <1>3 DEF PlacesInv, HostTypeOK, Container
<1>9. FrameInv'
  <2>1. \A a : Clean(a)' <=> Clean(a)
    BY <1>1, <1>3 DEF Clean, Exists
  <2> QED
    BY <1>1, <2>1 DEF PlacesInv, FrameInv
<1>10. RestInv'
  <2>1. RestFacts'
    BY <1>1, <1>3, <1>4 DEF RestFacts, Spared, Unchanged, Desired, Exists, Clean
  <2> QED
    BY <2>1 DEF RestInv
<1>11. ASSUME Spared PROVE RecoverSparedFacts' /\ (journal.phase # "accepted" => Ahead("publish")')
  <2>1. CASE journal.phase = "accepted" /\ journal.kind = "create"
    <3>1. todo' = <<"rec_files", "finish">>
      BY <1>1, <1>11, <2>1 DEF RecoverProgram, Spared
    <3>2. Left' = 2 /\ todo'[1] = "rec_files" /\ todo'[2] = "finish"
      BY <3>1 DEF Left
    <3>3. \A i \in 1..Left' : i = 1 \/ i = 2
      BY <3>2
    <3>4. Ahead("rec_files")'
      BY <3>2 DEF Ahead
    <3> QED
      BY <1>2, <2>1, <3>2, <3>3, <3>4 DEF RecoverSparedFacts
  <2>2. CASE journal.phase = "accepted" /\ journal.kind # "create"
    <3>1. todo' = <<"finish">>
      BY <1>1, <1>11, <2>2 DEF RecoverProgram, Spared
    <3>2. Left' = 1 /\ todo'[1] = "finish"
      BY <3>1 DEF Left
    <3>3. \A i \in 1..Left' : i = 1
      BY <3>2
    <3> QED
      BY <1>2, <2>2, <3>2, <3>3 DEF RecoverSparedFacts
  <2>3. CASE journal.phase # "accepted"
    <3>1. todo' = <<"rec_routes">> \o Republish /\ journal.kind # "create"
      BY <1>1, <1>11, <2>3 DEF RecoverProgram, Spared
    <3>2. /\ Left' = 4 /\ todo'[1] = "rec_routes" /\ todo'[2] = "publish"
          /\ todo'[3] = "wait" /\ todo'[4] = "finish"
      BY <3>1 DEF Left, Republish
    <3>3. \A i \in 1..Left' : i = 1 \/ i = 2 \/ i = 3 \/ i = 4
      BY <3>2
    <3>4. Left' - 2 = 2 /\ 2 \in 1..Left'
      BY <3>2
    <3>5. Ahead("publish")'
      BY <3>2, <3>4 DEF Ahead
    <3>6. ASSUME NEW i \in 1..Left'
          PROVE  /\ todo'[i] \in {"rec_files", "rec_routes", "publish", "wait", "finish"}
                 /\ todo'[i] # "rec_files"
                 /\ todo'[i] = "rec_routes" => i < Left' - 2 /\ todo'[Left' - 2] = "publish"
                 /\ todo'[i] = "finish" => i = Left'
      BY <3>2, <3>3, <3>4
    <3> QED
      BY <1>2, <3>1, <3>5, <3>6 DEF RecoverSparedFacts
  <2> QED
    BY <2>1, <2>2, <2>3
<1>12. ASSUME ~Spared, Desired # NoAccount PROVE RecoverAllFacts' /\ Ahead("publish")'
  <2>1. todo' = RecoverAll
    BY <1>1, <1>4, <1>12, RecoverStarts
  <2>2. Left' = 9 /\ IsTail(todo, RecoverAll)' /\ todo'[7] = "publish"
    <3>1. RecoverAll \in Seq(Step) /\ Len(RecoverAll) = 9 /\ RecoverAll[7] = "publish"
      BY DEF RecoverAll, Republish, Step, Phase
    <3>2. IsTail(RecoverAll, RecoverAll)
      BY <3>1 DEF IsTail
    <3> QED
      BY <2>1, <3>1, <3>2 DEF Left
  <2>3. 7 \in 1..Left'
    BY <2>2
  <2> QED
    BY <2>2, <2>3 DEF RecoverAllFacts, Ahead
<1>13. ASSUME ~Spared, Desired = NoAccount
       PROVE  /\ op'.kind = "create" => RecoverCreateFacts'
              /\ op'.kind # "create" => op'.kind = "delete" /\ RecoverGoneFacts'
              /\ Ahead("publish")'
  <2>1. CASE journal.kind = "create"
    <3>1. todo' = <<"rec_secrets", "render", "publish", "wait">> \o <<>>
                    \o <<"rec_stop", "rec_files", "finish">>
      BY <1>1, <1>4, <1>13, <2>1, RecoverStarts
    <3>2. Left' = 7 /\ IsTail(todo, RecoverCreate)' /\ todo'[3] = "publish"
      BY <3>1 DEF IsTail, RecoverCreate, Step, Phase, Left
    <3>3. 3 \in 1..Left'
      BY <3>2
    <3> QED
      BY <1>2, <2>1, <3>2, <3>3 DEF RecoverCreateFacts, Ahead
  <2>2. CASE journal.kind # "create"
    <3>1. /\ journal.kind = "delete"
          /\ todo' = <<"rec_secrets", "render", "publish", "wait">> \o <<"drain">>
                       \o <<"rec_stop", "rec_files", "finish">>
      BY <1>1, <1>4, <1>13, <2>2, RecoverStarts
    <3>2. Left' = 8 /\ todo'[3] = "publish"
      BY <3>1 DEF Left
    <3>3. 3 \in 1..Left'
      BY <3>2
    <3> QED
      BY <1>2, <3>1, <3>2, <3>3 DEF RecoverGoneFacts, Ahead
  <2> QED
    BY <2>1, <2>2
<1>14. RecoverWorkInv'
  BY <1>1, <1>2, <1>4, <1>6, <1>7, <1>11, <1>12, <1>13 DEF RecoverWorkInv, RecoverWorkFacts
<1>15. SnapInv'
  <2>1. AdminOwes => AdminOwes'
    BY <1>1, <1>11, <1>12, <1>13 DEF AdminOwes
  <2> QED
    BY <1>1, <2>1, SnapQuiet DEF PlacesInv
<1>16. WorkInv' /\ RunDidInv' /\ UndoWorkInv' /\ JournalInv'
  BY <1>1 DEF WorkInv, RunDidInv, UndoWorkInv, JournalInv, PlacesInv
<1> QED
  BY <1>8, <1>9, <1>10, <1>14, <1>15, <1>16 DEF PlacesInv

\* Restarts and starts of Admin keep the invariant.
LEMMA StartPlaces ==
  ASSUME LifecycleInv, PlacesInv, StartAdmin \/ Restart
  PROVE  PlacesInv'
<1>1. CASE StartAdmin /\ journal # NoJournal
  BY <1>1, StartRecovers
<1>2. CASE Restart \/ (StartAdmin /\ journal = NoJournal)
  <2>1. /\ mode \in {"idle", "down"} /\ mode' \in {"idle", "down"} /\ op' = op
        /\ journal' = journal /\ catalog' = catalog /\ routes' = routes /\ snap' = snap
        /\ mv' = mv /\ UNCHANGED host
    BY <1>2 DEF StartAdmin, Restart, store, pub
  <2>2. SameHost
    BY <2>1 DEF SameHost, host
  <2>3. op'.had \in Container
    BY <2>1 DEF PlacesInv, HostTypeOK
  <2> QED
    BY <2>1, <2>2, <2>3, AdminRests
<1> QED
  BY <1>1, <1>2

\* What leaves Admin and the host alone keeps all but the published snapshot.
AdminStill ==
    /\ SameHost /\ op' = op /\ journal' = journal /\ mode' = mode /\ todo' = todo
    /\ did' = did

\* A step of another process keeps the invariant if it keeps the snapshot's part.
LEMMA StillPlaces ==
  ASSUME LifecycleInv, PlacesInv, AdminStill, SnapInv'
  PROVE  PlacesInv'
<1>1. /\ catalog' = catalog /\ custom' = custom /\ secret' = secret /\ disk' = disk
      /\ backup' = backup /\ docker' = docker /\ op' = op /\ journal' = journal
      /\ mode' = mode /\ todo' = todo /\ did' = did
  BY DEF AdminStill, SameHost
<1>2. HostTypeOK' /\ JournalInv'
  BY <1>1 DEF PlacesInv, HostTypeOK, JournalInv
<1>3. (\A a : Clean(a)' <=> Clean(a)) /\ (\A a : Exists(a)' <=> Exists(a)) /\ (Renames' <=> Renames)
      /\ Left' = Left /\ Desired' = Desired /\ Other' = Other /\ (Early' <=> Early)
      /\ (Spared' <=> Spared) /\ (\A s : Ahead(s)' <=> Ahead(s)) /\ (Empty' <=> Empty)
  BY <1>1 DEF Clean, Exists, Renames, Left, Desired, Other, Early, Spared, Unchanged, Ahead, Empty
<1>4. FrameInv'
  BY <1>1, <1>3 DEF PlacesInv, FrameInv
<1>5. WorkInv'
  <2>1. OriginFacts' <=> OriginFacts
    BY <1>1 DEF OriginFacts
  <2>2. OrderFacts' <=> OrderFacts
    BY <1>1, <1>3 DEF OrderFacts
  <2>3. RowFacts' <=> RowFacts
    BY <1>1, <1>3 DEF RowFacts, RowWritten
  <2>4. SecretFacts' <=> SecretFacts
    BY <1>1, <1>3 DEF SecretFacts, SecretsWritten, SecretsAsBefore
  <2>5. DiskFacts' <=> DiskFacts
    BY <1>1, <1>3 DEF DiskFacts, FilesMoved
  <2>6. DockerFacts' <=> DockerFacts
    BY <1>1, <1>3 DEF DockerFacts, Started
  <2>7. WorkFacts' <=> WorkFacts
    BY <1>1, <1>3, <2>1, <2>2, <2>3, <2>4, <2>5, <2>6 DEF WorkFacts
  <2> QED
    BY <1>1, <2>7 DEF PlacesInv, WorkInv
<1>6. RunDidInv'
  BY <1>1 DEF PlacesInv, RunDidInv, Planning, Past, Program, Empty, Left
<1>7. UndoWorkInv'
  BY <1>1, <1>3 DEF PlacesInv, UndoWorkInv, UndoWorkFacts
<1>8. RestInv'
  BY <1>1, <1>3 DEF PlacesInv, RestInv, RestFacts
<1>9. RecoverWorkInv'
  <2>1. RecoverSparedFacts' <=> RecoverSparedFacts
    BY <1>1, <1>3 DEF RecoverSparedFacts
  <2>2. RecoverAllFacts' <=> RecoverAllFacts
    BY <1>1, <1>3 DEF RecoverAllFacts, IsTail
  <2>3. RecoverCreateFacts' <=> RecoverCreateFacts
    BY <1>1, <1>3 DEF RecoverCreateFacts, IsTail
  <2>4. RecoverGoneFacts' <=> RecoverGoneFacts
    BY <1>1, <1>3 DEF RecoverGoneFacts
  <2> QED
    BY <1>1, <1>3, <2>1, <2>2, <2>3, <2>4 DEF PlacesInv, RecoverWorkInv, RecoverWorkFacts
<1> QED
  BY <1>2, <1>4, <1>5, <1>6, <1>7, <1>8, <1>9 DEF PlacesInv

\* Admin owes a publication whatever others do.
LEMMA StillOwes ==
  ASSUME AdminStill, AdminOwes
  PROVE  AdminOwes'
  BY DEF AdminStill, AdminOwes, Ahead, Left

\* The failover worker publishes what it has moved, unless somebody has moved
\* it on and has to publish that.
LEMMA WorkerSnap ==
  ASSUME LifecycleInv, PlacesInv, Worker, AdminStill
  PROVE  SnapInv'
<1>1. /\ MoveTypeOK /\ (AdminOwes => AdminOwes')
      /\ SnapInv /\ catalog' = catalog /\ mv.plan \in [User -> Target]
  BY StillOwes DEF PlacesInv, LifecycleInv, StateTypeOK, AdminStill, SameHost, MoveTypeOK, Routing
<1>2. CASE routes' = routes /\ snap' = snap /\ ~MoverOwes
  <2>1. Fresh => Fresh'
    BY <1>1, <1>2 DEF Fresh, Build, Served
  <2> QED
    BY <1>1, <1>2, <2>1 DEF SnapInv
<1>3. CASE snap' = [gen |-> minted + 1, view |-> Build] /\ routes' = routes
  BY <1>1, <1>3, SnapPublished
<1>4. CASE \E u \in User, a \in Account : PlanMove(u, a)
  <2>1. routes' = routes /\ snap' = snap /\ mv = NoMove
    BY <1>4 DEF PlanMove, store, pub
  <2>2. ~MoverOwes
    BY <2>1 DEF MoverOwes, NoMove
  <2> QED
    BY <1>2, <2>1, <2>2
<1>5. CASE ApplyMove
  <2>1. CASE CanApply(mv.plan, mv.from)
    <3>1. /\ routes' = [u \in User |-> IF u \in InPlan(mv.plan) THEN mv.plan[u] ELSE routes[u]]
          /\ mv' = [mv EXCEPT !.st = "applied"]
      BY <1>5, <2>1 DEF ApplyMove, ApplyRoutesExpected
    <3>2. mv'.st = "applied" /\ mv'.plan = mv.plan
      BY <1>1, <3>1 DEF MoveTypeOK, MoveFields
    <3>3. CanRestore(mv.plan)'
      BY <3>1, <3>2 DEF CanRestore, InPlan
    <3> QED
      BY <3>2, <3>3 DEF SnapInv, MoverOwes
  <2>2. CASE ~CanApply(mv.plan, mv.from)
    <3>1. routes' = routes /\ snap' = snap /\ mv.st = "planned"
      BY <1>5, <2>2 DEF ApplyMove, store, pub
    <3> QED
      BY <1>2, <3>1 DEF MoverOwes
  <2> QED
    BY <2>1, <2>2
<1>6. CASE PublishMove \/ RepublishMove
  <2>1. snap' = [gen |-> minted + 1, view |-> Build] /\ routes' = routes
    BY <1>6 DEF PublishMove, RepublishMove, WriteSnapshot, store
  <2> QED
    BY <1>3, <2>1
<1>7. CASE ConfirmMove
  <2>1. routes' = routes /\ snap' = snap /\ mv.st = "published"
    BY <1>7 DEF ConfirmMove, store, pub
  <2> QED
    BY <1>2, <2>1 DEF MoverOwes
<1>8. CASE RestoreMove
  <2>1. CASE CanRestore(mv.plan)
    <3>1. mv' = [mv EXCEPT !.st = "restored"]
      BY <1>8, <2>1 DEF RestoreMove
    <3>2. mv'.st = "restored"
      BY <1>1, <3>1 DEF MoveTypeOK, MoveFields
    <3> QED
      BY <3>2 DEF SnapInv, MoverOwes
  <2>2. CASE ~CanRestore(mv.plan)
    <3>1. routes' = routes /\ snap' = snap /\ mv.st \in {"applied", "published"}
      BY <1>8, <2>2 DEF RestoreMove, store, pub
    <3> QED
      BY <1>2, <2>2, <3>1 DEF MoverOwes
  <2> QED
    BY <2>1, <2>2
<1> QED
  BY <1>4, <1>5, <1>6, <1>7, <1>8 DEF Worker

\* Requests, gateways and the failover worker keep the invariant.
LEMMA OutsidePlaces ==
  ASSUME LifecycleInv, PlacesInv, Requests \/ Reload \/ Worker \/ UNCHANGED vars
  PROVE  PlacesInv'
<1>1. CASE Worker
  <2>1. op' = op /\ journal' = journal /\ mode' = mode /\ todo' = todo /\ did' = did
        /\ catalog' = catalog /\ UNCHANGED host
    BY <1>1 DEF Worker, PlanMove, ApplyMove, PublishMove, ConfirmMove, RestoreMove,
       RepublishMove, MoverOnly, store, ApplyRoutesExpected, RestoreRoutesExpected
  <2>2. AdminStill
    BY <2>1 DEF AdminStill, SameHost, host
  <2> QED
    BY <1>1, <2>2, WorkerSnap, StillPlaces
<1>2. CASE Requests \/ Reload \/ UNCHANGED vars
  <2>1. /\ op' = op /\ journal' = journal /\ mode' = mode /\ todo' = todo /\ did' = did
        /\ catalog' = catalog /\ routes' = routes /\ snap' = snap /\ mv' = mv
        /\ custom' = custom /\ secret' = secret /\ disk' = disk /\ backup' = backup
        /\ docker' = docker
    <3>1. CASE Requests
      BY <3>1 DEF Requests, Authorize, CountRequest, RequestDone, store, pub, host
    <3>2. CASE Reload
      BY <3>2 DEF Reload, Load, host
    <3>3. CASE UNCHANGED vars
      BY <3>3 DEF vars
    <3> QED
      BY <1>2, <3>1, <3>2, <3>3
  <2>2. AdminStill
    BY <2>1 DEF AdminStill, SameHost
  <2>3. SnapInv'
    BY <2>1, <2>2, StillOwes, SnapQuiet DEF PlacesInv
  <2> QED
    BY <2>2, <2>3, StillPlaces
<1> QED
  BY <1>1, <1>2

-----------------------------------------------------------------------------
(* The invariant, and what it says when Admin accepts operations. *)

\* Steps of one mode are not taken in another.
LEMMA RecoverOnly ==
  ASSUME LifecycleInv, Busy,
         Head(todo) \in {"rec_secrets", "rec_files", "rec_stop", "rec_start", "rec_routes"}
  PROVE  mode = "recover"
<1>1. mode # "undo"
  BY UndoHead DEF UndoStep
<1>2. mode # "run"
  <2>1. ASSUME mode = "run" PROVE FALSE
    <3>1. ~Planning
      BY DEF Planning
    <3>2. op.kind \in Kind /\ IsTail(todo, Program)
      BY <2>1, <3>1 DEF LifecycleInv, RunInv, RunFacts
    <3> QED
      BY <2>1, <3>2, RunHead
  <2> QED
    BY <2>1
<1> QED
  BY <1>1, <1>2 DEF Busy

\* A step no recovery takes belongs to an operation or its rollback.
LEMMA NotInRecovery ==
  ASSUME LifecycleInv, PlacesInv, Busy, Head(todo) \notin RecoverStep
  PROVE  mode \in {"run", "undo"}
  BY RecoverKnown DEF Busy

\* Every step of Admin keeps the invariant.
LEMMA AdminPlaces ==
  ASSUME LifecycleInv, PlacesInv, LifecycleInv', AdminStep
  PROVE  PlacesInv'
<1>1. CASE PlanEvacuation
  BY <1>1, PlanPlaces
<1>2. CASE \/ AdvanceOperation \/ ApplyEvacuation \/ RestoreRoutes \/ UndoRoutes
           \/ ApplyControl \/ UndoControl
  <2>1. Busy /\ Head(todo) \notin RecoverStep
    BY <1>2 DEF AdvanceOperation, ApplyEvacuation, RestoreRoutes, UndoRoutes, ApplyControl,
       UndoControl, At, RecoverStep, Phase
  <2>2. mode \in {"run", "undo"}
    BY <2>1, NotInRecovery
  <2> QED
    BY <1>2, <2>2, StoreWorkKeeps
<1>3. CASE PublishAuthSnapshot
  <2>1. Busy
    BY <1>3 DEF PublishAuthSnapshot, At
  <2> QED
    BY <1>3, <2>1, StoreWorkKeeps, RecoverWork DEF Busy
<1>4. CASE WaitForGeneration \/ WaitAccountDrained \/ RenderProjection
  <2>1. Busy
    BY <1>4 DEF WaitForGeneration, WaitAccountDrained, RenderProjection, At
  <2> QED
    BY <1>4, <2>1, HostWorkKeeps, RecoverWork DEF Busy
<1>5. CASE \/ SecretsBegun \/ ApplySecrets \/ UndoSecrets
           \/ PrepareFiles \/ RemoveFiles \/ UndoFiles
           \/ StartContainer \/ StopContainer \/ RestartAccount \/ UndoRuntime
  <2>1. Busy /\ Head(todo) \notin RecoverStep
    BY <1>5 DEF SecretsBegun, ApplySecrets, UndoSecrets, PrepareFiles, RemoveFiles, UndoFiles,
       StartContainer, StopContainer, RestartAccount, UndoRuntime, At, RecoverStep
  <2>2. mode \in {"run", "undo"}
    BY <2>1, NotInRecovery
  <2> QED
    BY <1>5, <2>2, HostWorkKeeps
<1>6. CASE Finish \/ StepRefused
  <2>1. Busy
    BY <1>6 DEF Finish, StepRefused, At
  <2> QED
    BY <1>6, <2>1, FinishWork, FailureWork, RecoverEnds DEF Busy
<1>7. CASE StartAdmin
  BY <1>7, StartPlaces
<1>9. CASE RecreateFails
  <2>1. Busy /\ Head(todo) \notin RecoverStep
    BY <1>9 DEF RecreateFails, At, RecoverStep
  <2>2. mode \in {"run", "undo"}
    BY <2>1, NotInRecovery
  <2> QED
    BY <1>9, <2>2, FailureWork
<1>8. CASE RecoverSecrets \/ RecoverFiles \/ RecoverStop \/ RecoverStart \/ RecoverEvacuatedRoutes
  <2>1. /\ Busy
        /\ Head(todo) \in {"rec_secrets", "rec_files", "rec_stop", "rec_start", "rec_routes"}
    BY <1>8 DEF RecoverSecrets, RecoverFiles, RecoverStop, RecoverStart,
       RecoverEvacuatedRoutes, At
  <2>2. mode = "recover"
    BY <2>1, RecoverOnly
  <2> QED
    BY <1>8, <2>2, RecoverWork
<1> QED
  BY <1>1, <1>2, <1>3, <1>4, <1>5, <1>6, <1>7, <1>8, <1>9 DEF AdminStep

\* Every step keeps the invariant.
LEMMA PlacesStep ==
  ASSUME LifecycleInv, PlacesInv, [Next]_vars
  PROVE  PlacesInv'
<1>1. LifecycleInv'
  BY LifecycleStep
<1>2. CASE Operations
  BY <1>1, <1>2, OperationsPlaces
<1>3. CASE AdminStep
  BY <1>1, <1>3, AdminPlaces
<1>4. CASE FinishFails \/ StepFails \/ Crash
  <2>1. Busy
    BY <1>4 DEF FinishFails, StepFails, Crash, At
  <2> QED
    BY <1>4, <2>1, FinishWork, FailureWork, RecoverEnds DEF Busy
<1>5. CASE Restart
  BY <1>5, StartPlaces
<1>6. CASE Requests \/ Reload \/ Worker \/ UNCHANGED vars
  BY <1>6, OutsidePlaces
<1> QED
  BY <1>2, <1>3, <1>4, <1>5, <1>6 DEF Next

\* The invariant holds initially.
LEMMA PlacesInitially ==
  ASSUME Init
  PROVE  PlacesInv
<1>1. /\ custom \in Customs /\ (\A a \in custom : Exists(a)) /\ secret = custom
      /\ disk = [a \in Account |-> IF Exists(a) THEN "ready" ELSE "none"]
      /\ docker = [a \in Account |-> IF Exists(a) THEN "running" ELSE "none"]
      /\ backup = "none" /\ journal = NoJournal /\ mode = "idle" /\ op = NoOp
      /\ snap = [gen |-> 1, view |-> Build]
  BY DEF Init
<1>2. custom \subseteq Account
  BY <1>1, LifecycleAssumption
<1>3. HostTypeOK
  BY <1>1, <1>2 DEF HostTypeOK, Disk, Container, NoOp
<1>4. \A a \in Account : Clean(a)
  BY <1>1 DEF Clean
<1>5. FrameInv
  BY <1>4 DEF FrameInv
<1>6. SnapInv
  BY <1>1 DEF SnapInv, Fresh
<1>7. JournalInv
  BY <1>1 DEF JournalInv, NoJournal
<1>8. WorkInv /\ RunDidInv /\ UndoWorkInv /\ RestInv /\ RecoverWorkInv
  BY <1>1 DEF WorkInv, RunDidInv, UndoWorkInv, RestInv, RecoverWorkInv
<1> QED
  BY <1>3, <1>5, <1>6, <1>7, <1>8 DEF PlacesInv

\* The invariant implies that the places agree when Admin accepts operations:
\* there is no journal, so no account is excepted.
LEMMA ReconciledByInvariant ==
  ASSUME PlacesInv
  PROVE  Reconciled
<1> SUFFICES ASSUME mode = "idle", journal = NoJournal
             PROVE  /\ \A a \in Account : /\ Exists(a) <=> docker[a] # "none"
                                          /\ Exists(a) <=> disk[a] # "none"
                                          /\ a \in secret => Exists(a)
                    /\ custom \subseteq secret
                    /\ mv.st \notin {"applied", "restored"} => snap.view = Build
  BY DEF Reconciled
<1>1. journal.acct = NoAccount /\ journal.new = NoAccount /\ journal.phase = "accepted"
  BY DEF NoJournal
<1>2. \A a \in Account : Clean(a)
  BY <1>1, NoAccountNot DEF PlacesInv, FrameInv
<1>3. custom \subseteq secret
  BY <1>2 DEF PlacesInv, HostTypeOK, Clean
<1>4. mv.st \notin {"applied", "restored"} => snap.view = Build
  BY <1>1 DEF PlacesInv, SnapInv, Fresh, MoverOwes, AdminOwes
<1> QED
  BY <1>2, <1>3, <1>4 DEF Clean

\* The places an operation changes agree but for the accounts the journal
\* names, of which the invariant says how far the operation, its rollback or
\* the recovery has brought them.
THEOREM PlacesInvariant == Spec => []PlacesInv
<1>1. Init => LifecycleInv /\ PlacesInv
  BY LifecycleInitially, PlacesInitially
<1>2. LifecycleInv /\ PlacesInv /\ [Next]_vars => (LifecycleInv /\ PlacesInv)'
  BY LifecycleStep, PlacesStep
<1> QED
  BY <1>1, <1>2, PTL DEF Spec

\* Whatever failed or crashed before, when Admin accepts operations again
\* every account of the store has its container, its directory and, if its
\* proxy is custom, its secret, nothing else is left, and the published
\* snapshot is what the store says: for any accounts, users and faults.
THEOREM AccountsReconciled == Spec => []Reconciled
<1>1. PlacesInv => Reconciled
  BY ReconciledByInvariant
<1> QED
  BY <1>1, PlacesInvariant, PTL

=============================================================================
