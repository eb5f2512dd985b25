--------------------------- MODULE UserKeysProofs ---------------------------
(***************************************************************************)
(* Proofs about the life of one user, for every number of sessions, keys,  *)
(* operations, faults and rounds of the other processes.                   *)
(***************************************************************************)
EXTENDS UserKeys, SequenceTheorems, TLAPS

-----------------------------------------------------------------------------
(***************************************************************************)
(* The lists of steps an operation can have left: the ends of the lists of *)
(* Plan and Undo, named for what the list does and for how long it is.     *)
(***************************************************************************)
P1 == <<"wait">>
P2 == <<"write", "wait">>
P3 == <<"sync", "write", "wait">>
A4 == <<"apply", "sync", "write", "wait">>
C4 == <<"verify", "sync", "write", "wait">>
C5 == <<"render", "verify", "sync", "write", "wait">>
C6 == <<"sync", "render", "verify", "sync", "write", "wait">>
C7 == <<"cred", "sync", "render", "verify", "sync", "write", "wait">>
C8 == <<"apply", "cred", "sync", "render", "verify", "sync", "write", "wait">>
F1 == <<"render">>
F2 == <<"sync", "render">>
V3 == <<"wait", "sync", "render">>
V4 == <<"write", "wait", "sync", "render">>
V5 == <<"sync", "write", "wait", "sync", "render">>
V6 == <<"apply", "sync", "write", "wait", "sync", "render">>
D1 == <<"erase">>
D2 == <<"render", "erase">>
D3 == <<"sync", "render", "erase">>
D4 == <<"wait", "sync", "render", "erase">>
D5 == <<"write", "wait", "sync", "render", "erase">>
D6 == <<"sync", "write", "wait", "sync", "render", "erase">>
D7 == <<"apply", "sync", "write", "wait", "sync", "render", "erase">>
K1 == <<"cred">>
U1 == <<"uncred">>
B1 == <<"restore">>
B4 == <<"restore", "sync", "write", "wait">>
R4 == <<"render", "sync", "write", "wait">>
R5 == <<"sync", "render", "sync", "write", "wait">>
R6 == <<"uninternal", "sync", "render", "sync", "write", "wait">>
R7 == <<"uncred", "uninternal", "sync", "render", "sync", "write", "wait">>
B6 == <<"restore", "sync", "render", "sync", "write", "wait">>
B7 == <<"restore", "uninternal", "sync", "render", "sync", "write", "wait">>
B8 == <<"restore", "uncred", "uninternal", "sync", "render", "sync", "write", "wait">>

\* Which of them every kind of operation goes through, forward and back.
Forward ==
    \/ op.kind = "create" /\ op.todo \in {C8, C7, C6, C5, C4, P3, P2, P1}
    \/ op.kind \in {"rotate", "assign"} /\ op.todo \in {A4, P3, P2, P1}
    \/ op.kind = "revoke" /\ op.todo \in {V6, V5, V4, V3, F2, F1}
    \/ op.kind = "delete" /\ op.todo \in {D7, D6, D5, D4, D3, D2, D1}
    \/ op.kind = "reset" /\ op.todo = K1
    \/ op.kind = "start" /\ op.todo \in {F2, F1}

Backward ==
    \/ op.kind = "create" /\ op.todo \in {B1, B8, R7, R6, R5, R4, P3, P2, P1, U1}
    \/ op.kind \in {"rotate", "assign"} /\ op.todo \in {B4, P3, P2, P1}
    \/ op.kind = "revoke" /\ op.todo \in {B7, R6, R5, R4, P3, P2, P1}
    \/ op.kind = "delete" /\ op.todo \in {B6, R5, R4, P3, P2, P1}

Stage == op = NoOp \/ (~op.rolling /\ Forward) \/ (op.rolling /\ Backward)

\* The first step of every tuple of steps.
LEMMA Heads ==
  /\ Head(P1) = "wait" /\ Head(P2) = "write" /\ Head(P3) = "sync"
  /\ Head(A4) = "apply" /\ Head(C4) = "verify" /\ Head(C5) = "render"
  /\ Head(C6) = "sync" /\ Head(C7) = "cred" /\ Head(C8) = "apply"
  /\ Head(F1) = "render" /\ Head(F2) = "sync" /\ Head(V3) = "wait"
  /\ Head(V4) = "write" /\ Head(V5) = "sync" /\ Head(V6) = "apply"
  /\ Head(D1) = "erase" /\ Head(D2) = "render" /\ Head(D3) = "sync"
  /\ Head(D4) = "wait" /\ Head(D5) = "write" /\ Head(D6) = "sync"
  /\ Head(D7) = "apply" /\ Head(K1) = "cred" /\ Head(U1) = "uncred"
  /\ Head(B1) = "restore" /\ Head(B4) = "restore" /\ Head(R4) = "render"
  /\ Head(R5) = "sync" /\ Head(R6) = "uninternal" /\ Head(R7) = "uncred"
  /\ Head(B6) = "restore" /\ Head(B7) = "restore" /\ Head(B8) = "restore"
BY DEF P1, P2, P3, A4, C4, C5, C6, C7, C8, F1, F2, V3, V4, V5, V6, D1, D2, D3, D4,
         D5, D6, D7, K1, U1, B1, B4, R4, R5, R6, R7, B6, B7, B8

\* The number of steps of every tuple.
LEMMA Lengths ==
  /\ Len(P1) = 1 /\ Len(P2) = 2 /\ Len(P3) = 3 /\ Len(A4) = 4 /\ Len(C4) = 4
  /\ Len(C5) = 5 /\ Len(C6) = 6 /\ Len(C7) = 7 /\ Len(C8) = 8 /\ Len(F1) = 1
  /\ Len(F2) = 2 /\ Len(V3) = 3 /\ Len(V4) = 4 /\ Len(V5) = 5 /\ Len(V6) = 6
  /\ Len(D1) = 1 /\ Len(D2) = 2 /\ Len(D3) = 3 /\ Len(D4) = 4 /\ Len(D5) = 5
  /\ Len(D6) = 6 /\ Len(D7) = 7 /\ Len(K1) = 1 /\ Len(U1) = 1 /\ Len(B1) = 1
  /\ Len(B4) = 4 /\ Len(R4) = 4 /\ Len(R5) = 5 /\ Len(R6) = 6 /\ Len(R7) = 7
  /\ Len(B6) = 6 /\ Len(B7) = 7 /\ Len(B8) = 8
BY DEF P1, P2, P3, A4, C4, C5, C6, C7, C8, F1, F2, V3, V4, V5, V6, D1, D2, D3, D4,
         D5, D6, D7, K1, U1, B1, B4, R4, R5, R6, R7, B6, B7, B8

\* The list without its first step, as a symbol of its own for the provers.
Rest(todo) == Tail(todo)

\* What is left of every tuple after its first step.
LEMMA Tails ==
  /\ Rest(P2) = P1 /\ Rest(P3) = P2 /\ Rest(A4) = P3 /\ Rest(C4) = P3 /\ Rest(C5) = C4
  /\ Rest(C6) = C5 /\ Rest(C7) = C6 /\ Rest(C8) = C7 /\ Rest(F2) = F1 /\ Rest(V3) = F2
  /\ Rest(V4) = V3 /\ Rest(V5) = V4 /\ Rest(V6) = V5 /\ Rest(D2) = D1 /\ Rest(D3) = D2
  /\ Rest(D4) = D3 /\ Rest(D5) = D4 /\ Rest(D6) = D5 /\ Rest(D7) = D6 /\ Rest(B4) = P3
  /\ Rest(R4) = P3 /\ Rest(R5) = R4 /\ Rest(R6) = R5 /\ Rest(R7) = R6 /\ Rest(B6) = R5
  /\ Rest(B7) = R6 /\ Rest(B8) = R7
BY DEF Rest, P1, P2, P3, A4, C4, C5, C6, C7, C8, F1, F2, V3, V4, V5, V6, D1, D2, D3, D4,
         D5, D6, D7, K1, U1, B1, B4, R4, R5, R6, R7, B6, B7, B8

\* Where an operation can be whose next step is this one.
LEMMA AtApply ==
  ASSUME Stage, At("apply")
  PROVE  \/ op.todo = C8 /\ ~op.rolling /\ op.kind = "create"
         \/ op.todo = A4 /\ ~op.rolling /\ op.kind \in {"rotate", "assign"}
         \/ op.todo = V6 /\ ~op.rolling /\ op.kind = "revoke"
         \/ op.todo = D7 /\ ~op.rolling /\ op.kind = "delete"
BY Heads DEF Stage, At, Forward, Backward, NoOp

\* Where an operation can be whose next step is this one.
LEMMA AtCred ==
  ASSUME Stage, At("cred")
  PROVE  \/ op.todo = C7 /\ ~op.rolling /\ op.kind = "create"
         \/ op.todo = K1 /\ ~op.rolling /\ op.kind = "reset"
BY Heads DEF Stage, At, Forward, Backward, NoOp

\* Where an operation can be whose next step is this one.
LEMMA AtErase ==
  ASSUME Stage, At("erase")
  PROVE  op.todo = D1 /\ ~op.rolling /\ op.kind = "delete"
BY Heads DEF Stage, At, Forward, Backward, NoOp

\* Where an operation can be whose next step is this one.
LEMMA AtRender ==
  ASSUME Stage, At("render")
  PROVE  \/ op.todo = C5 /\ ~op.rolling /\ op.kind = "create"
         \/ op.todo = F1 /\ ~op.rolling /\ op.kind \in {"revoke", "start"}
         \/ op.todo = D2 /\ ~op.rolling /\ op.kind = "delete"
         \/ op.todo = R4 /\ op.rolling /\ op.kind \in {"create", "revoke", "delete"}
BY Heads DEF Stage, At, Forward, Backward, NoOp

\* Where an operation can be whose next step is this one.
LEMMA AtRestore ==
  ASSUME Stage, At("restore")
  PROVE  \/ op.todo \in {B1, B8} /\ op.rolling /\ op.kind = "create"
         \/ op.todo = B4 /\ op.rolling /\ op.kind \in {"rotate", "assign"}
         \/ op.todo = B7 /\ op.rolling /\ op.kind = "revoke"
         \/ op.todo = B6 /\ op.rolling /\ op.kind = "delete"
BY Heads DEF Stage, At, Forward, Backward, NoOp

\* Where an operation can be whose next step is this one.
LEMMA AtSync ==
  ASSUME Stage, At("sync")
  PROVE  \/ op.todo = C6 /\ ~op.rolling /\ op.kind = "create"
         \/ op.todo = P3 /\ ~op.rolling /\ op.kind \in {"create", "rotate", "assign"}
         \/ op.todo = V5 /\ ~op.rolling /\ op.kind = "revoke"
         \/ op.todo = F2 /\ ~op.rolling /\ op.kind \in {"revoke", "start"}
         \/ op.todo \in {D6, D3} /\ ~op.rolling /\ op.kind = "delete"
         \/ op.todo = R5 /\ op.rolling /\ op.kind \in {"create", "revoke", "delete"}
         \/ /\ op.todo = P3 /\ op.rolling
            /\ op.kind \in {"create", "rotate", "assign", "revoke", "delete"}
BY Heads DEF Stage, At, Forward, Backward, NoOp

\* Where an operation can be whose next step is this one.
LEMMA AtUncred ==
  ASSUME Stage, At("uncred")
  PROVE  op.todo \in {R7, U1} /\ op.rolling /\ op.kind = "create"
BY Heads DEF Stage, At, Forward, Backward, NoOp

\* Where an operation can be whose next step is this one.
LEMMA AtUninternal ==
  ASSUME Stage, At("uninternal")
  PROVE  op.todo = R6 /\ op.rolling /\ op.kind \in {"create", "revoke"}
BY Heads DEF Stage, At, Forward, Backward, NoOp

\* Where an operation can be whose next step is this one.
LEMMA AtVerify ==
  ASSUME Stage, At("verify")
  PROVE  op.todo = C4 /\ ~op.rolling /\ op.kind = "create"
BY Heads DEF Stage, At, Forward, Backward, NoOp

\* Where an operation can be whose next step is this one.
LEMMA AtWait ==
  ASSUME Stage, At("wait")
  PROVE  \/ op.todo = P1 /\ ~op.rolling /\ op.kind \in {"create", "rotate", "assign"}
         \/ op.todo = V3 /\ ~op.rolling /\ op.kind = "revoke"
         \/ op.todo = D4 /\ ~op.rolling /\ op.kind = "delete"
         \/ /\ op.todo = P1 /\ op.rolling
            /\ op.kind \in {"create", "rotate", "assign", "revoke", "delete"}
BY Heads DEF Stage, At, Forward, Backward, NoOp

\* Where an operation can be whose next step is this one.
LEMMA AtWrite ==
  ASSUME Stage, At("write")
  PROVE  \/ op.todo = P2 /\ ~op.rolling /\ op.kind \in {"create", "rotate", "assign"}
         \/ op.todo = V4 /\ ~op.rolling /\ op.kind = "revoke"
         \/ op.todo = D5 /\ ~op.rolling /\ op.kind = "delete"
         \/ /\ op.todo = P2 /\ op.rolling
            /\ op.kind \in {"create", "rotate", "assign", "revoke", "delete"}
BY Heads DEF Stage, At, Forward, Backward, NoOp

-----------------------------------------------------------------------------

KeyStatus == {"active", "rotated", "revoked", "deleted"}
InternalRow == {NoInternal} \cup [secret : Nat \ {0}, status : {"active", "inactive"}]
OpKind == {"none", "create", "rotate", "assign", "revoke", "delete", "reset", "start"}
Password == {"none", "initial", "chosen"}
PortalRequest == [at : {"none", "login", "change", "rotate", "assign"},
                  password : {"none", "current", "old"}, key : Nat]
Todo == {<<>>, P1, P2, P3, A4, C4, C5, C6, C7, C8, F1, F2, V3, V4, V5, V6,
         D1, D2, D3, D4, D5, D6, D7, K1, U1, B1, B4, R4, R5, R6, R7, B6, B7, B8}
Operation == [kind : OpKind, todo : Todo, rolling : BOOLEAN, key : Nat,
              keys : Seq(KeyStatus), routed : BOOLEAN, cred : Password,
              internal : InternalRow, intact : BOOLEAN]

UserTypeOK ==
    /\ keys \in Seq(KeyStatus) /\ routed \in BOOLEAN
    /\ internal \in InternalRow /\ born \in Nat /\ config \in Nat
    /\ cred \in Password
    /\ request \in [Browser -> PortalRequest]
    /\ op \in Operation
    /\ file \in [gen : {"other", "awaited"}, key : Nat, internal : Nat]
    /\ gw \in [gen : {"other", "awaited"}, key : Nat]
    /\ retired \subseteq DOMAIN keys
    /\ published \in BOOLEAN /\ projected \in BOOLEAN

\* What a failing step makes of the operation.
LEMMA AfterGiveUp ==
  ASSUME UserTypeOK, Stage, GiveUp, op.kind \notin {"none", "start"}
  PROVE  \/ op' = NoOp /\ ~op.rolling /\ (At("apply") \/ op.kind = "reset")
         \/ /\ ~op.rolling /\ op.kind = "create" /\ At("cred")
            /\ op' = [op EXCEPT !.todo = B1, !.rolling = TRUE]
         \/ /\ ~op.rolling /\ op.kind = "create" /\ ~At("cred") /\ ~At("apply")
            /\ op' = [op EXCEPT !.todo = B8, !.rolling = TRUE]
         \/ /\ ~op.rolling /\ op.kind \in {"rotate", "assign"} /\ ~At("apply")
            /\ op' = [op EXCEPT !.todo = B4, !.rolling = TRUE]
         \/ /\ ~op.rolling /\ op.kind = "revoke" /\ ~At("apply")
            /\ op' = [op EXCEPT !.todo = B7, !.rolling = TRUE]
         \/ /\ ~op.rolling /\ op.kind = "delete" /\ ~At("apply")
            /\ op' = [op EXCEPT !.todo = B6, !.rolling = TRUE]
         \/ /\ op.rolling /\ op.kind = "create" /\ op.todo = R7
            /\ op' = [op EXCEPT !.todo = R6, !.intact = FALSE]
         \/ /\ op.rolling /\ op.kind = "create" /\ op.todo = B8
            /\ op' = [op EXCEPT !.todo = U1, !.intact = FALSE]
         \/ op.rolling /\ op' = NoOp /\ (At("uncred") => op.todo = U1)
<1> DEFINE step == Head(op.todo)
<1>1. CASE ~op.rolling
  <2>1. Undo(op.kind, step) =
          IF step = "apply" \/ op.kind = "reset" THEN <<>>
          ELSE IF op.kind = "create" /\ step = "cred" THEN B1
          ELSE IF op.kind = "create" THEN B8
          ELSE IF op.kind \in {"rotate", "assign"} THEN B4
          ELSE IF op.kind = "revoke" THEN B7 ELSE B6
    BY DEF Undo, UserTypeOK, Operation, OpKind, B1, B4, B6, B7, B8
  <2>2. B1 # <<>> /\ B4 # <<>> /\ B6 # <<>> /\ B7 # <<>> /\ B8 # <<>>
    BY DEF B1, B4, B6, B7, B8
  <2>3. op' = IF Undo(op.kind, step) = <<>> THEN NoOp
              ELSE [op EXCEPT !.todo = Undo(op.kind, step), !.rolling = TRUE]
    BY <1>1 DEF GiveUp
  <2> HIDE DEF step
  <2>4. At("apply") <=> step = "apply"
    BY DEF At, step
  <2>5. At("cred") <=> step = "cred"
    BY DEF At, step
  <2> QED
    BY <1>1, <2>1, <2>2, <2>3, <2>4, <2>5 DEF UserTypeOK, Operation, OpKind
<1>2. CASE op.rolling
  <2>1. CASE At("uncred")
    <3>1. op' = IF Len(op.todo) # 1 THEN [op EXCEPT !.todo = Tail(@), !.intact = FALSE]
                ELSE NoOp
      BY <1>2, <2>1 DEF GiveUp, At
    <3>2. op.todo = U1 \/ (op.todo = R7 /\ op.kind = "create")
      BY <2>1, AtUncred
    <3>3. Len(U1) = 1 /\ Len(R7) # 1 /\ Tail(R7) = R6
      BY Lengths, Tails DEF Rest
    <3> QED
      BY <1>2, <3>1, <3>2, <3>3
  <2>2. CASE At("restore") /\ op.kind = "create" /\ Len(op.todo) # 1
    <3>1. op' = [op EXCEPT !.todo = U1, !.intact = FALSE]
      BY <1>2, <2>2 DEF GiveUp, At, U1
    <3>2. op.todo \in {B1, B8}
      BY <2>2, AtRestore
    <3>3. Len(B1) = 1
      BY Lengths
    <3> QED
      <4>1. op.todo # B1
        BY <2>2, <3>3
      <4> QED
        BY <1>2, <2>2, <3>1, <3>2, <4>1
  <2>3. CASE ~At("uncred") /\ ~(At("restore") /\ op.kind = "create" /\ Len(op.todo) # 1)
    BY <1>2, <2>3 DEF GiveUp
  <2> QED
    BY <2>1, <2>2, <2>3
<1> QED
  BY <1>1, <1>2

\* A step that is done leaves a list of the same operation.
LEMMA AfterDone ==
  ASSUME UserTypeOK, Stage, op.kind # "none",
         NEW o \in Operation, o.kind = op.kind, o.todo = op.todo,
         o.rolling = op.rolling, Done(o)
  PROVE  /\ op' \in Operation /\ Stage'
         /\ op' = NoOp \/ Head(op'.todo) # "apply"
<1>1. CASE Len(op.todo) = 1
  BY <1>1 DEF Done, NoOp, Operation, OpKind, Todo, Password, InternalRow, Stage
<1>2. CASE Len(op.todo) # 1
  <2>1. op' = [o EXCEPT !.todo = Tail(op.todo)]
    BY <1>2 DEF Done
  <2>2. op'.kind = op.kind /\ op'.rolling = op.rolling /\ op'.todo = Rest(op.todo)
    BY <2>1 DEF Operation, Rest
  <2>3. CASE ~op.rolling /\ Forward
    <3>1. Forward' /\ Head(op'.todo) # "apply"
      <4>a. CASE op.kind = "create" /\ op.todo \in {C8, C7, C6, C5, C4, P3, P2, P1}
        BY <1>2, <2>2, <4>a, Heads, Lengths, Tails DEF Forward
      <4>b. CASE op.kind \in {"rotate", "assign"} /\ op.todo \in {A4, P3, P2, P1}
        BY <1>2, <2>2, <4>b, Heads, Lengths, Tails DEF Forward
      <4>c. CASE op.kind = "revoke" /\ op.todo \in {V6, V5, V4, V3, F2, F1}
        BY <1>2, <2>2, <4>c, Heads, Lengths, Tails DEF Forward
      <4>d. CASE op.kind = "delete" /\ op.todo \in {D7, D6, D5, D4, D3, D2, D1}
        BY <1>2, <2>2, <4>d, Heads, Lengths, Tails DEF Forward
      <4>e. CASE \/ op.kind = "reset" /\ op.todo = K1
                 \/ op.kind = "start" /\ op.todo \in {F2, F1}
        BY <1>2, <2>2, <4>e, Heads, Lengths, Tails DEF Forward
      <4> QED
        BY <2>3, <4>a, <4>b, <4>c, <4>d, <4>e DEF Forward
    <3>2. op'.todo \in Todo
      BY <3>1 DEF Forward, Todo
    <3> QED
      BY <2>1, <2>2, <2>3, <3>1, <3>2 DEF Operation, Stage
  <2>4. CASE op.rolling /\ Backward
    <3>1. Backward' /\ Head(op'.todo) # "apply"
      <4>a. CASE /\ op.kind = "create"
                 /\ op.todo \in {B1, B8, R7, R6, R5, R4, P3, P2, P1, U1}
        BY <1>2, <2>2, <4>a, Heads, Lengths, Tails DEF Backward
      <4>b. CASE op.kind \in {"rotate", "assign"} /\ op.todo \in {B4, P3, P2, P1}
        BY <1>2, <2>2, <4>b, Heads, Lengths, Tails DEF Backward
      <4>c. CASE op.kind = "revoke" /\ op.todo \in {B7, R6, R5, R4, P3, P2, P1}
        BY <1>2, <2>2, <4>c, Heads, Lengths, Tails DEF Backward
      <4>d. CASE op.kind = "delete" /\ op.todo \in {B6, R5, R4, P3, P2, P1}
        BY <1>2, <2>2, <4>d, Heads, Lengths, Tails DEF Backward
      <4> QED
        BY <2>4, <4>a, <4>b, <4>c, <4>d DEF Backward
    <3>2. op'.todo \in Todo
      BY <3>1 DEF Backward, Todo
    <3> QED
      BY <2>1, <2>2, <2>4, <3>1, <3>2 DEF Operation, Stage
  <2> QED
    BY <2>3, <2>4 DEF Stage, NoOp
<1> QED
  BY <1>1, <1>2

-----------------------------------------------------------------------------
(* Types *)

\* The key that is served is active and routed.
LEMMA ServedCurrent ==
  ASSUME UserTypeOK
  PROVE  Served(Active) = 0 \/ (routed /\ Served(Active) \in Active)
BY DEF Served

\* The active keys are rows.
LEMMA ActiveKeys ==
  ASSUME UserTypeOK
  PROVE  Active \subseteq DOMAIN keys /\ DOMAIN keys = 1..Len(keys) /\ Len(keys) \in Nat
BY DEF UserTypeOK, Active, KeysWith

\* Ensuring the internal key leaves the rows alone and keeps a secret.
LEMMA EnsureType ==
  ASSUME UserTypeOK, NEW active \in BOOLEAN, EnsureInternalKeys(active)
  PROVE  /\ internal' \in InternalRow /\ born' \in Nat
         /\ keys' = keys /\ routed' = routed
         /\ internal # NoInternal => internal' # NoInternal /\ internal'.secret = internal.secret
         /\ ~active /\ internal = NoInternal => internal' = NoInternal
BY DEF UserTypeOK, EnsureInternalKeys, InternalRow, NoInternal

\* A written file has its type and is there.
LEMMA FileType ==
  ASSUME UserTypeOK, NEW gen \in {"other", "awaited"}, NEW read, ReplaceFile(gen, read)
  PROVE  /\ file' \in [gen : {"other", "awaited"}, key : Nat, internal : Nat]
         /\ published' = TRUE
<1>1. Served(Active) \in Nat
  BY ServedCurrent, ActiveKeys
<1>2. internal.secret \in Nat
  BY DEF UserTypeOK, InternalRow, NoInternal
<1> QED
  BY <1>1, <1>2 DEF ReplaceFile

\* The operation's transaction has committed (and may be taken back since).
Applied == /\ op.kind \in {"create", "rotate", "assign", "revoke", "delete"}
           /\ Head(op.todo) # "apply"

\* What the operation remembers of the rows.
Remembered ==
    /\ DOMAIN op.keys \subseteq DOMAIN keys
    /\ ~Applied => op.keys = <<>>
    /\ Applied /\ op.kind \in {"assign", "revoke", "delete"} => DOMAIN op.keys = DOMAIN keys

UserBase == UserTypeOK /\ Stage /\ Remembered

\* Without an operation nothing is to be said of one.
LEMMA IdleBase ==
  ASSUME op' = NoOp
  PROVE  op' \in Operation /\ Stage' /\ Remembered' /\ ~Applied'
BY DEF NoOp, Operation, OpKind, Todo, Password, InternalRow, Stage, Remembered, Applied

\* An operation that takes its next step stays on its plan.
LEMMA DoneBase ==
  ASSUME UserBase, op.kind # "none", ~At("apply"), Done(op), DOMAIN keys' = DOMAIN keys
  PROVE  /\ op' \in Operation /\ Stage' /\ Remembered'
         /\ retired' \subseteq DOMAIN keys'
<1>1. /\ op' \in Operation /\ Stage'
      /\ op' = NoOp \/ Head(op'.todo) # "apply"
  BY AfterDone DEF UserBase, UserTypeOK
<1>2. op' = NoOp \/ op' = [op EXCEPT !.todo = Tail(op.todo)]
  BY DEF Done
<1>3. Remembered'
  <2>1. CASE op' = NoOp
    BY <2>1, IdleBase
  <2>2. CASE op' # NoOp
    BY <1>1, <1>2, <2>2 DEF UserBase, UserTypeOK, Operation, Remembered, Applied, At
  <2> QED
    BY <2>1, <2>2
<1>4. retired' \subseteq DOMAIN keys'
  BY DEF Done, Ended, UserBase, UserTypeOK, Remembered
<1> QED
  BY <1>1, <1>3, <1>4

\* A failed operation goes on at a place of its rollback, or ends.
LEMMA GiveUpBase ==
  ASSUME UserBase, GiveUp, op.kind \notin {"none", "start"}, keys' = keys
  PROVE  op' \in Operation /\ Stage' /\ Remembered'
<1>1. CASE op' = NoOp
  BY <1>1, IdleBase
<1>2. CASE op' # NoOp
  <2>1. /\ op'.kind = op.kind /\ op'.rolling = TRUE /\ op'.keys = op.keys
        /\ \/ op.kind = "create" /\ op'.todo \in {B1, B8, R6, U1}
           \/ op.kind \in {"rotate", "assign"} /\ op'.todo = B4
           \/ op.kind = "revoke" /\ op'.todo = B7
           \/ op.kind = "delete" /\ op'.todo = B6
        /\ op' \in Operation
    <3>1. op \in Operation
      BY DEF UserBase, UserTypeOK
    <3>2. {B1, B8, B4, B7, B6, R6, U1} \subseteq Todo
      BY DEF Todo
    <3>3. \E todo \in {B1, B8, B4, B7, B6, R6, U1} :
              /\ \/ op.kind = "create" /\ todo \in {B1, B8, R6, U1}
                 \/ op.kind \in {"rotate", "assign"} /\ todo = B4
                 \/ op.kind = "revoke" /\ todo = B7
                 \/ op.kind = "delete" /\ todo = B6
              /\ \/ op' = [op EXCEPT !.todo = todo, !.rolling = TRUE]
                 \/ op.rolling = TRUE /\ op' = [op EXCEPT !.todo = todo, !.intact = FALSE]
      BY <1>2, <3>1, AfterGiveUp DEF UserBase, Operation
    <3> QED
      BY <3>1, <3>2, <3>3 DEF Operation
  <2>a. ~At("apply")
    <3>1. op.todo \in {R7, B8} => Head(op.todo) # "apply"
      BY Heads
    <3> QED
      BY <1>2, <3>1, AfterGiveUp DEF UserBase, At
  <2>2. Stage'
    BY <2>1 DEF Stage, Backward
  <2>3. Head(op'.todo) # "apply"
    BY <2>1, Heads
  <2> QED
    BY <2>1, <2>a, <2>2, <2>3 DEF UserBase, Remembered, Applied, At
<1> QED
  BY <1>1, <1>2

\* Steps that leave the operation and the rows alone.
LEMMA SameOperation ==
  ASSUME UserBase, op' = op, keys' = keys
  PROVE  op' \in Operation /\ Stage' /\ Remembered'
<1>1. op' \in Operation
  BY DEF UserBase, UserTypeOK
<1>2. Stage'
  BY DEF UserBase, Stage, Forward, Backward
<1>3. Remembered'
  BY DEF UserBase, Remembered, Applied
<1> QED
  BY <1>1, <1>2, <1>3

\* Rows that are rewritten in place are still a list of rows.
LEMMA Rewritten ==
  ASSUME UserTypeOK, NEW rows, rows = [k \in DOMAIN keys |-> rows[k]],
         \A k \in DOMAIN keys : rows[k] \in KeyStatus
  PROVE  rows \in Seq(KeyStatus) /\ DOMAIN rows = DOMAIN keys
<1>1. DOMAIN keys = 1..Len(keys) /\ Len(keys) \in Nat
  BY DEF UserTypeOK
<1>2. rows \in [1..Len(keys) -> KeyStatus]
  BY <1>1
<1> QED
  BY <1>1, <1>2, SeqDef

\* No operation is one of the operations.
LEMMA NoOpType == NoOp \in Operation
BY DEF NoOp, Operation, OpKind, Todo, Password, InternalRow

\* An operation begins at the start of its plan, with the rows as they are.
LEMMA BeginBase ==
  ASSUME UserBase, NEW kind \in {"create", "rotate", "assign", "revoke", "delete", "reset"},
         NEW key \in Nat, Begin(kind, key)
  PROVE  op' \in Operation /\ Stage' /\ Remembered' /\ ~Applied'
<1>1. Plan(kind) = IF kind = "create" THEN C8
                   ELSE IF kind \in {"rotate", "assign"} THEN A4
                   ELSE IF kind = "revoke" THEN V6
                   ELSE IF kind = "delete" THEN D7 ELSE K1
  BY DEF Plan, C8, A4, V6, D7, K1
<1>2. op' = [NoOp EXCEPT !.kind = kind, !.todo = Plan(kind), !.key = key,
                !.cred = IF kind = "create" THEN cred ELSE @,
                !.internal = IF kind \in {"create", "revoke"} THEN internal ELSE @]
  BY DEF Begin
<1>3. /\ op'.kind = kind /\ op'.todo = Plan(kind) /\ op'.rolling = FALSE
      /\ op'.keys = <<>>
  BY <1>2 DEF NoOp
<1>4. Plan(kind) \in Todo
  BY <1>1 DEF Todo
<1>5. op' \in Operation
  <2>1. cred \in Password /\ internal \in InternalRow /\ kind \in OpKind
    BY DEF UserBase, UserTypeOK, OpKind
  <2> QED
    BY <1>2, <1>4, <2>1, NoOpType DEF Operation
<1>6. Stage'
  BY <1>1, <1>3 DEF Stage, Forward
<1>7. ~Applied'
  BY <1>1, <1>3, Heads DEF Applied
<1> QED
  BY <1>3, <1>5, <1>6, <1>7 DEF Remembered

\* A start of Admin begins at the start of its plan.
LEMMA StartStage ==
  ASSUME UserBase, op' = [NoOp EXCEPT !.kind = "start", !.todo = Plan("start")]
  PROVE  op' \in Operation /\ Stage' /\ Remembered' /\ ~Applied'
<1>1. Plan("start") = F2
  BY DEF Plan, F2
<1>2. /\ op'.kind = "start" /\ op'.todo = F2 /\ op'.rolling = FALSE
      /\ op'.keys = <<>>
  BY <1>1 DEF NoOp
<1>3. op' \in Operation
  BY <1>1, NoOpType DEF Operation, OpKind, Todo
<1> QED
  BY <1>2, <1>3 DEF Stage, Forward, Applied, Remembered

\* Every state of the store, the operation and the copies is of its type, the
\* operation in hand is at one of the places its plan or its rollback goes
\* through, and it remembers the rows as its transaction found them.
THEOREM UserTypes == UserSpec => []UserBase
<1>1. UserInit => UserBase
  <2> SUFFICES ASSUME UserInit PROVE UserBase
    OBVIOUS
  <2>1. op \in Operation /\ Stage /\ ~Applied /\ op.keys = <<>>
    BY DEF UserInit, NoOp, Operation, OpKind, Todo, Password, InternalRow, Stage, Applied
  <2>2. keys \in Seq(KeyStatus)
    BY DEF UserInit, KeyStatus
  <2> QED
    BY <2>1, <2>2
    DEF UserInit, UserBase, UserTypeOK, InternalRow, Password, Remembered, NoRequest, NoInternal,
        PortalRequest
<1>2. UserBase /\ [UserNext]_userVars => UserBase'
  <2> SUFFICES ASSUME UserBase, [UserNext]_userVars PROVE UserBase'
    OBVIOUS
  <2> USE DEF storeVars, portalVars, planeVars, observers, bounds
  <2>0. UserTypeOK /\ Stage /\ Remembered /\ op \in Operation
    BY DEF UserBase, UserTypeOK
  <2>1. CASE AdminRequest
    <3>1. ASSUME NEW kind \in {"create", "revoke", "delete", "reset", "rotate"},
                 NEW key \in Nat, Begin(kind, key), UNCHANGED request
          PROVE  UserBase'
      BY <2>0, <3>1, BeginBase DEF Begin, UserBase, UserTypeOK
    <3>2. \A k \in Active : k \in Nat
      BY <2>0, ActiveKeys
    <3> QED
      BY <2>1, <3>1, <3>2 DEF AdminRequest, CreateUser, RevokeUser, DeleteUser,
                              ResetUserPassword, RotateUserKey
  <2>2. CASE Apply
    <3> DEFINE o == [op EXCEPT !.keys = keys, !.routed = routed,
                       !.internal = IF op.kind = "delete" THEN internal ELSE @]
    <3>1. o \in Operation /\ o.kind = op.kind /\ o.todo = op.todo /\ o.rolling = op.rolling
            /\ o.keys = keys
      BY <2>0 DEF Operation, UserTypeOK
    <3>2. Done(o)
      BY <2>2 DEF Apply, Remember
    <3>3. op.kind # "none" /\ Len(op.todo) # 1 /\ op.kind \in {"create", "rotate", "assign", "revoke", "delete"}
      BY <2>0, <2>2, AtApply, Lengths DEF Apply, At
    <3>4. op' \in Operation /\ Stage' /\ (op' = NoOp \/ Head(op'.todo) # "apply")
      BY <2>0, <3>1, <3>2, <3>3, AfterDone
    <3>5. op' = [o EXCEPT !.todo = Tail(op.todo)] /\ retired' = retired
      BY <3>1, <3>2, <3>3 DEF Done
    <3>6. op'.keys = keys /\ op'.kind = op.kind
      BY <3>1, <3>5 DEF Operation
    <3> HIDE DEF o
    <3>7. /\ keys' \in Seq(KeyStatus) /\ routed' \in BOOLEAN
          /\ internal' \in InternalRow /\ born' \in Nat
          /\ DOMAIN keys \subseteq DOMAIN keys'
          /\ op.kind \in {"assign", "revoke", "delete"} => DOMAIN keys' = DOMAIN keys
      <4>1. CASE op.kind = "create"
        <5>1. keys' = Append(keys, "active") /\ routed' = FALSE /\ UNCHANGED <<internal, born>>
          BY <2>2, <4>1 DEF Apply, Applies, ApplyUserCreation
        <5>2. "active" \in KeyStatus /\ keys \in Seq(KeyStatus) /\ internal \in InternalRow
                /\ born \in Nat
          BY <2>0 DEF UserTypeOK, KeyStatus
        <5>3. keys' \in Seq(KeyStatus) /\ DOMAIN keys \subseteq DOMAIN keys'
          BY <5>1, <5>2
        <5> QED
          BY <4>1, <5>1, <5>2, <5>3
      <4>2. CASE op.kind = "rotate"
        <5>1. op.key \in DOMAIN keys /\ keys' = Append([keys EXCEPT ![op.key] = "rotated"], "active")
               /\ UNCHANGED <<routed, internal, born>>
          BY <2>0, <2>2, <4>2, ActiveKeys DEF Apply, Applies, ApplyUserKeyRotationExpected
        <5> QED
          BY <2>0, <4>2, <5>1 DEF UserTypeOK, KeyStatus
      <4>3. CASE op.kind = "revoke"
        <5>1. /\ keys' = [k \in DOMAIN keys |-> IF k \in Active THEN "revoked" ELSE keys[k]]
              /\ UNCHANGED <<routed, internal, born>>
          BY <2>2, <4>3 DEF Apply, Applies, ApplyUserRevocation
        <5>2. \A k \in DOMAIN keys : keys'[k] \in KeyStatus
          BY <2>0, <5>1 DEF UserTypeOK, KeyStatus
        <5> QED
          BY <2>0, <5>1, <5>2, Rewritten DEF UserTypeOK
      <4>4. CASE op.kind = "delete"
        <5>1. /\ keys' = [k \in DOMAIN keys |-> "deleted"] /\ routed' = FALSE
              /\ internal' = NoInternal /\ born' = born
          BY <2>2, <4>4 DEF Apply, Applies, ApplyUserDeletion
        <5>2. \A k \in DOMAIN keys : keys'[k] \in KeyStatus
          BY <2>0, <5>1 DEF UserTypeOK, KeyStatus
        <5> QED
          BY <2>0, <5>1, <5>2, Rewritten DEF UserTypeOK, InternalRow
      <4>5. CASE op.kind = "assign"
        BY <2>0, <2>2, <4>5 DEF Apply, Applies, ApplyAssignment, UserTypeOK
      <4> QED
        BY <3>3, <4>1, <4>2, <4>3, <4>4, <4>5
    <3>8. Remembered'
      <4>1. CASE op' = NoOp
        BY <4>1, IdleBase
      <4>2. CASE op' # NoOp
        BY <3>3, <3>4, <3>6, <3>7, <4>2 DEF Remembered, Applied
      <4> QED
        BY <4>1, <4>2
    <3> QED
      BY <2>0, <2>2, <3>4, <3>5, <3>7, <3>8 DEF Apply, UserBase, UserTypeOK
  <2>3. ASSUME NEW step \in {"cred", "uncred", "erase"}, NEW password \in Password,
               SetPassword(step, password)
        PROVE  UserBase'
    <3>1. op' \in Operation /\ Stage' /\ Remembered' /\ retired' \subseteq DOMAIN keys'
      BY <2>3, DoneBase DEF SetPassword, At
    <3>2. request' \in [Browser -> PortalRequest]
      BY ZenonT(60), <2>0, <2>3 DEF SetPassword, Outdate, PortalRequest, UserTypeOK
    <3> QED
      BY <2>0, <2>3, <3>1, <3>2 DEF SetPassword, NewPassword, UserBase, UserTypeOK
  <2>4. CASE SetCredential \/ RestoreCredential \/ DeleteUserState
    BY <2>0, <2>3, <2>4 DEF SetCredential, RestoreCredential, DeleteUserState, Password, Operation
  <2>5. CASE Sync
    <3>1. op' \in Operation /\ Stage' /\ Remembered' /\ retired' \subseteq DOMAIN keys'
      BY <2>5, DoneBase DEF Sync, At, EnsureInternalKeys
    <3>2. internal' \in InternalRow /\ born' \in Nat /\ keys' = keys /\ routed' = routed
      BY <2>0, <2>5, EnsureType DEF Sync
    <3> QED
      BY <2>0, <2>5, <3>1, <3>2 DEF Sync, UserBase, UserTypeOK
  <2>6. CASE Render
    <3>1. op' \in Operation /\ Stage' /\ Remembered' /\ retired' \subseteq DOMAIN keys'
      BY <2>6, DoneBase DEF Render, At
    <3>2. config' \in Nat /\ projected' \in BOOLEAN
      BY <2>0, <2>6 DEF Render, RenderConfig, UserTypeOK, InternalRow, NoInternal
    <3> QED
      BY <2>0, <2>6, <3>1, <3>2 DEF Render, UserBase, UserTypeOK
  <2>7. CASE VerifyUserKey
    <3>1. op' \in Operation /\ Stage' /\ Remembered' /\ retired' \subseteq DOMAIN keys'
      BY <2>7, DoneBase DEF VerifyUserKey, At
    <3> QED
      BY <2>0, <2>7, <3>1 DEF VerifyUserKey, UserBase, UserTypeOK
  <2>8. CASE WriteFile
    <3>1. op' \in Operation /\ Stage' /\ Remembered' /\ retired' \subseteq DOMAIN keys'
      BY <2>8, DoneBase DEF WriteFile, At
    <3>2. /\ file' \in [gen : {"other", "awaited"}, key : Nat, internal : Nat]
          /\ published' = TRUE
      BY <2>0, <2>8, FileType DEF WriteFile
    <3> QED
      BY <2>0, <2>8, <3>1, <3>2 DEF WriteFile, UserBase, UserTypeOK
  <2>9. CASE Activated
    <3>1. op' \in Operation /\ Stage' /\ Remembered' /\ retired' \subseteq DOMAIN keys'
      BY <2>9, DoneBase DEF Activated, At
    <3> QED
      BY <2>0, <2>9, <3>1 DEF Activated, StopWaiting, UserBase, UserTypeOK
  <2>10. CASE Restore
    <3>1. op.kind # "none" /\ ~At("apply") /\ Applied
      BY <2>0, <2>10, AtRestore DEF Restore, At, Applied
    <3>2. /\ keys' \in Seq(KeyStatus) /\ routed' \in BOOLEAN
          /\ internal' \in InternalRow /\ born' \in Nat /\ DOMAIN keys' = DOMAIN keys
      <4>1. CASE op.kind = "delete"
        <5>1. DOMAIN op.keys = DOMAIN keys
          BY <2>0, <3>1, <4>1 DEF Remembered
        <5> QED
          BY <2>0, <2>10, <4>1, <5>1 DEF Restore, RestoreUserDeletion, UserTypeOK, Operation
      <4>2. CASE op.kind # "delete"
        <5>1. /\ keys' = [k \in DOMAIN keys |->
                             IF k \in DOMAIN op.keys THEN op.keys[k] ELSE "deleted"]
              /\ routed' = op.routed /\ UNCHANGED <<internal, born>>
          BY <2>10, <4>2 DEF Restore, RestoreRows
        <5>2. \A k \in DOMAIN keys : keys'[k] \in KeyStatus
          BY <2>0, <5>1 DEF UserTypeOK, Operation, KeyStatus
        <5> QED
          BY <2>0, <5>1, <5>2, Rewritten DEF UserTypeOK, Operation
      <4> QED
        BY <4>1, <4>2
    <3>3. op' \in Operation /\ Stage' /\ Remembered' /\ retired' \subseteq DOMAIN keys'
      BY <2>10, <3>1, <3>2, DoneBase DEF Restore
    <3> QED
      BY <2>0, <2>10, <3>2, <3>3 DEF Restore, UserBase, UserTypeOK
  <2>11. CASE RestoreInternal
    <3>1. op' \in Operation /\ Stage' /\ Remembered' /\ retired' \subseteq DOMAIN keys'
      BY <2>11, DoneBase DEF RestoreInternal, At
    <3> QED
      BY <2>0, <2>11, <3>1 DEF RestoreInternal, UserBase, UserTypeOK, Operation
  <2>12. CASE StepRefused \/ StepFails
    <3>1. GiveUp /\ op.kind \notin {"none", "start"}
      BY <2>12 DEF StepRefused, StepFails, Refuses, At
    <3>2. op' \in Operation /\ Stage' /\ Remembered'
      BY <2>12, <3>1, GiveUpBase DEF StepRefused, StepFails
    <3> QED
      BY <2>0, <2>12, <3>2
      DEF StepRefused, StepFails, LeftUndone, StopWaiting, UserBase, UserTypeOK
  <2>21. ASSUME NEW step \in {"cred", "uncred"}, NEW password \in Password,
                PasswordFailsLate(step, password)
         PROVE  UserBase'
    <3>1. GiveUp /\ op.kind \notin {"none", "start"}
      BY <2>0, <2>21, AtCred, AtUncred DEF PasswordFailsLate, At
    <3>2. op' \in Operation /\ Stage' /\ Remembered'
      BY <2>21, <3>1, GiveUpBase DEF PasswordFailsLate
    <3>3. request' \in [Browser -> PortalRequest]
      BY ZenonT(60), <2>0, <2>21 DEF PasswordFailsLate, Outdate, PortalRequest, UserTypeOK
    <3> QED
      BY <2>0, <2>21, <3>2, <3>3
      DEF PasswordFailsLate, NewPassword, LeftUndone, StopWaiting, UserBase, UserTypeOK
  <2>22. CASE CredentialFailsLate
    BY <2>0, <2>21, <2>22 DEF CredentialFailsLate, Password, Operation
  <2>13. CASE WriteFailsLate
    <3>1. GiveUp /\ op.kind \notin {"none", "start"}
      BY <2>0, <2>13, AtWrite DEF WriteFailsLate, At
    <3>2. op' \in Operation /\ Stage' /\ Remembered'
      BY <2>13, <3>1, GiveUpBase DEF WriteFailsLate
    <3>3. /\ file' \in [gen : {"other", "awaited"}, key : Nat, internal : Nat]
          /\ published' = TRUE
      BY <2>0, <2>13, FileType DEF WriteFailsLate
    <3> QED
      BY <2>0, <2>13, <3>2, <3>3 DEF WriteFailsLate, UserBase, UserTypeOK
  <2>14. CASE AdminCrash
    BY <2>0, <2>14, StartStage DEF AdminCrash, StopWaiting, NoRequest, PortalRequest,
         UserBase, UserTypeOK
  <2>15. CASE StartRefused
    <3>1. Plan("start") = F2 /\ F2 \in Todo
      BY DEF Plan, F2, Todo
    <3>2. op.kind = "start" /\ ~op.rolling
      BY <2>0, <2>15 DEF StartRefused, Stage, Backward, NoOp
    <3>3. op' = [op EXCEPT !.todo = F2]
      BY <2>15, <3>1 DEF StartRefused
    <3>4. op' \in Operation /\ op'.kind = "start" /\ ~op'.rolling /\ op'.todo = F2
            /\ op'.keys = op.keys
      BY <2>0, <3>1, <3>2, <3>3 DEF Operation
    <3>5. Stage' /\ Remembered'
      BY <2>0, <2>15, <3>2, <3>4 DEF StartRefused, Stage, Forward, Remembered, Applied
    <3> QED
      BY <2>0, <2>15, <3>4, <3>5 DEF StartRefused, UserBase, UserTypeOK
  <2>16. ASSUME NEW b \in Browser, PortalStep(b)
         PROVE  UserBase'
    <3>1. CASE LoginVerified(b) \/ ChangeVerified(b) \/ AskRoute(b) \/ CreateSession(b)
                 \/ EndSession(b)
      <4>1. op' = op /\ keys' = keys
        BY <3>1 DEF LoginVerified, ChangeVerified, AskRoute, CreateSession, EndSession
      <4>2. request' \in [Browser -> PortalRequest]
        <5>1. /\ NoRequest \in PortalRequest
              /\ [NoRequest EXCEPT !.at = "login", !.password = "current"] \in PortalRequest
              /\ [NoRequest EXCEPT !.at = "change", !.password = "current"] \in PortalRequest
              /\ [NoRequest EXCEPT !.at = "assign"] \in PortalRequest
          BY DEF NoRequest, PortalRequest
        <5>2. \E r \in PortalRequest : request' = request \/ request' = [request EXCEPT ![b] = r]
          BY <3>1, <5>1
          DEF LoginVerified, ChangeVerified, AskRoute, CreateSession, EndSession, Ask, Respond
        <5> QED
          BY <2>0, <5>2 DEF UserTypeOK
      <4> QED
        BY <2>0, <3>1, <4>1, <4>2, SameOperation
        DEF LoginVerified, ChangeVerified, AskRoute, CreateSession, EndSession, UserBase,
            UserTypeOK
    <3>2. CASE AskRotation(b)
      <4>1. \A k \in Active : k \in Nat
        BY <2>0, ActiveKeys
      <4> QED
        <5>1. request' \in [Browser -> PortalRequest]
          <6>1. PICK k \in Active :
                  request' = [request EXCEPT ![b] = [NoRequest EXCEPT !.at = "rotate", !.key = k]]
            BY <3>2 DEF AskRotation, Ask
          <6>2. [NoRequest EXCEPT !.at = "rotate", !.key = k] \in PortalRequest
            BY <4>1 DEF NoRequest, PortalRequest
          <6> QED
            BY <2>0, <6>1, <6>2 DEF UserTypeOK
        <5> QED
          BY <2>0, <3>2, <5>1, SameOperation DEF AskRotation, UserBase, UserTypeOK
    <3>3. CASE ChangePassword(b)
      <4>0. op' = op \/ (op.kind = "create" /\ op' = [op EXCEPT !.intact = FALSE])
        BY <3>3 DEF ChangePassword
      <4>1. op' \in Operation /\ op'.kind = op.kind /\ op'.todo = op.todo
              /\ op'.rolling = op.rolling /\ op'.keys = op.keys
        BY <2>0, <4>0 DEF Operation
      <4>2. Stage'
        BY <2>0, <4>0, <4>1 DEF Stage, Forward, Backward, NoOp
      <4>3. Remembered'
        BY <2>0, <3>3, <4>1 DEF ChangePassword, Remembered, Applied
      <4> QED
        BY ZenonT(60), <2>0, <3>3, <4>1, <4>2, <4>3 DEF ChangePassword, NewPassword, Outdate, NoRequest,
             PortalRequest, UserBase, UserTypeOK, Password
    <3>4. CASE PortalOperation(b)
      <4>1. request[b].at \in {"rotate", "assign"} /\ request[b].key \in Nat
        BY <2>0, <3>4 DEF PortalOperation, PortalRequest, UserTypeOK
      <4>2. op' \in Operation /\ Stage' /\ Remembered'
        BY <3>4, <4>1, BeginBase DEF PortalOperation
      <4> QED
        BY <2>0, <3>4, <4>2 DEF PortalOperation, Begin, Respond, NoRequest,
             PortalRequest, UserBase, UserTypeOK
    <3> QED
      BY <2>16, <3>1, <3>2, <3>3, <3>4 DEF PortalStep
  <2>17. CASE ReadActiveUsers \/ LoadAuthSnapshot \/ GatewayRestart
    BY <2>0, <2>17, SameOperation DEF ReadActiveUsers, LoadAuthSnapshot, GatewayRestart,
         NothingLoaded, UserBase, UserTypeOK
  <2>18. CASE Synchronize
    <3>1. internal' \in InternalRow /\ born' \in Nat /\ keys' = keys /\ routed' = routed
      BY <2>0, <2>18, EnsureType DEF Synchronize
    <3> QED
      BY <2>0, <2>18, <3>1, SameOperation DEF Synchronize, UserBase, UserTypeOK
  <2>19. CASE ForeignPublish
    <3>1. \/ /\ file' \in [gen : {"other", "awaited"}, key : Nat, internal : Nat]
             /\ published' = TRUE
          \/ UNCHANGED <<file, published>>
      BY <2>0, <2>19, FileType DEF ForeignPublish
    <3> QED
      BY <2>0, <2>19, <3>1, SameOperation DEF ForeignPublish, UserBase, UserTypeOK
  <2>20. CASE UNCHANGED userVars
    BY <2>0, <2>20, SameOperation DEF userVars, UserBase, UserTypeOK
  <2> QED
    BY <2>1, <2>2, <2>4, <2>5, <2>6, <2>7, <2>8, <2>9, <2>10, <2>11, <2>12, <2>13, <2>14,
       <2>15, <2>16, <2>17, <2>18, <2>19, <2>20, <2>22 DEF UserNext, AdminStep
<1> QED
  BY <1>1, <1>2, PTL DEF UserSpec

-----------------------------------------------------------------------------
(* What is still ahead *)

Has(step, todo) == \E i \in 1..Len(todo) : todo[i] = step
Ahead(step) == Has(step, op.todo)

Step == {"apply", "cred", "sync", "render", "verify", "write", "wait", "erase",
         "restore", "uncred", "uninternal"}

\* Every tuple is a sequence of steps.
LEMMA TodoSeq == \A s \in Todo \ {<<>>} : s \in Seq(Step)
<1>1. /\ P1 \in Seq(Step) /\ P2 \in Seq(Step) /\ P3 \in Seq(Step) /\ A4 \in Seq(Step)
      /\ C4 \in Seq(Step) /\ C5 \in Seq(Step) /\ C6 \in Seq(Step) /\ C7 \in Seq(Step)
      /\ C8 \in Seq(Step) /\ F1 \in Seq(Step) /\ F2 \in Seq(Step) /\ V3 \in Seq(Step)
      /\ V4 \in Seq(Step) /\ V5 \in Seq(Step) /\ V6 \in Seq(Step) /\ D1 \in Seq(Step)
      /\ D2 \in Seq(Step) /\ D3 \in Seq(Step) /\ D4 \in Seq(Step) /\ D5 \in Seq(Step)
      /\ D6 \in Seq(Step) /\ D7 \in Seq(Step) /\ K1 \in Seq(Step) /\ U1 \in Seq(Step)
      /\ B1 \in Seq(Step) /\ B4 \in Seq(Step) /\ R4 \in Seq(Step) /\ R5 \in Seq(Step)
      /\ R6 \in Seq(Step) /\ R7 \in Seq(Step) /\ B6 \in Seq(Step) /\ B7 \in Seq(Step)
      /\ B8 \in Seq(Step)
  BY DEF Step, P1, P2, P3, A4, C4, C5, C6, C7, C8, F1, F2, V3, V4, V5, V6, D1, D2, D3, D4,
         D5, D6, D7, K1, U1, B1, B4, R4, R5, R6, R7, B6, B7, B8
<1> QED
  BY <1>1 DEF Todo

\* A step is ahead when it is the next or in the rest.
LEMMA HasRest ==
  ASSUME NEW s \in Seq(Step), s # <<>>, NEW step
  PROVE  Has(step, s) <=> (Head(s) = step \/ Has(step, Rest(s)))
<1>1. /\ Len(s) \in Nat \ {0} /\ Head(s) = s[1] /\ Len(Rest(s)) = Len(s) - 1
      /\ \A i \in 1..Len(s) - 1 : Rest(s)[i] = s[i + 1]
  BY DEF Rest
<1>2. Has(step, Rest(s)) => Has(step, s)
  BY <1>1 DEF Has
<1>3. Head(s) = step => Has(step, s)
  BY <1>1 DEF Has
<1>4. ASSUME Has(step, s), Head(s) # step PROVE Has(step, Rest(s))
  <2>1. PICK i \in 1..Len(s) : s[i] = step
    BY <1>4 DEF Has
  <2>2. i - 1 \in 1..Len(s) - 1 /\ Rest(s)[i - 1] = s[(i - 1) + 1]
    BY <1>1, <1>4, <2>1
  <2> QED
    BY <1>1, <2>1, <2>2 DEF Has
<1> QED
  BY <1>2, <1>3, <1>4

\* An operation under way has a step to take.
LEMMA StageTodo ==
  ASSUME UserBase, op.kind # "none"
  PROVE  op.todo \in Seq(Step) /\ op.todo # <<>>
<1>1. op.todo \in Todo /\ (op.todo # <<>> => op.todo \in Seq(Step))
  BY TodoSeq DEF UserBase, UserTypeOK, Operation
<1>2. \A s \in {P1, P2, P3, A4, C4, C5, C6, C7, C8, F1, F2, V3, V4, V5, V6, D1, D2, D3, D4,
              D5, D6, D7, K1, U1, B1, B4, R4, R5, R6, R7, B6, B7, B8} : s # <<>>
  BY TodoSeq DEF P1, P2, P3, A4, C4, C5, C6, C7, C8, F1, F2, V3, V4, V5, V6, D1, D2, D3, D4,
         D5, D6, D7, K1, U1, B1, B4, R4, R5, R6, R7, B6, B7, B8
<1> QED
  BY <1>1, <1>2 DEF UserBase, Stage, Forward, Backward, NoOp

\* What is ahead of an operation is its next step or ahead of what follows.
LEMMA AheadRest ==
  ASSUME UserBase, op.kind # "none", NEW step
  PROVE  Ahead(step) <=> (At(step) \/ Has(step, Rest(op.todo)))
BY StageTodo, HasRest DEF Ahead, At

\* The places with this step still ahead.
LEMMA HasWait ==
  /\ \A s \in {P1, P2, P3, A4, C4, C5, C6, C7, C8, V3, V4, V5, V6, D4, D5,
              D6, D7, B4, R4, R5, R6, R7, B6, B7, B8} : Has("wait", s)
  /\ \A s \in {F1, F2, D1, D2, D3, K1, U1, B1} : ~Has("wait", s)
BY DEF Has, P1, P2, P3, A4, C4, C5, C6, C7, C8, F1, F2, V3, V4, V5, V6, D1, D2, D3, D4,
         D5, D6, D7, K1, U1, B1, B4, R4, R5, R6, R7, B6, B7, B8

\* The places with this step still ahead.
LEMMA HasWrite ==
  /\ \A s \in {P2, P3, A4, C4, C5, C6, C7, C8, V4, V5, V6, D5, D6, D7, B4,
              R4, R5, R6, R7, B6, B7, B8} : Has("write", s)
  /\ \A s \in {P1, F1, F2, V3, D1, D2, D3, D4, K1, U1, B1} : ~Has("write", s)
BY DEF Has, P1, P2, P3, A4, C4, C5, C6, C7, C8, F1, F2, V3, V4, V5, V6, D1, D2, D3, D4,
         D5, D6, D7, K1, U1, B1, B4, R4, R5, R6, R7, B6, B7, B8

\* The places with this step still ahead.
LEMMA HasRender ==
  /\ \A s \in {C5, C6, C7, C8, F1, F2, V3, V4, V5, V6, D2, D3, D4, D5, D6,
              D7, R4, R5, R6, R7, B6, B7, B8} : Has("render", s)
  /\ \A s \in {P1, P2, P3, A4, C4, D1, K1, U1, B1, B4} : ~Has("render", s)
BY DEF Has, P1, P2, P3, A4, C4, C5, C6, C7, C8, F1, F2, V3, V4, V5, V6, D1, D2, D3, D4,
         D5, D6, D7, K1, U1, B1, B4, R4, R5, R6, R7, B6, B7, B8

\* The places with this step still ahead.
LEMMA HasRestore ==
  /\ \A s \in {B1, B4, B6, B7, B8} : Has("restore", s)
  /\ \A s \in {P1, P2, P3, A4, C4, C5, C6, C7, C8, F1, F2, V3, V4, V5, V6,
              D1, D2, D3, D4, D5, D6, D7, K1, U1, R4, R5, R6, R7} : ~Has("restore", s)
BY DEF Has, P1, P2, P3, A4, C4, C5, C6, C7, C8, F1, F2, V3, V4, V5, V6, D1, D2, D3, D4,
         D5, D6, D7, K1, U1, B1, B4, R4, R5, R6, R7, B6, B7, B8

\* The places with this step still ahead.
LEMMA HasCred ==
  /\ \A s \in {C7, C8, K1} : Has("cred", s)
  /\ \A s \in {P1, P2, P3, A4, C4, C5, C6, F1, F2, V3, V4, V5, V6, D1, D2,
              D3, D4, D5, D6, D7, U1, B1, B4, R4, R5, R6, R7, B6, B7, B8} : ~Has("cred", s)
BY DEF Has, P1, P2, P3, A4, C4, C5, C6, C7, C8, F1, F2, V3, V4, V5, V6, D1, D2, D3, D4,
         D5, D6, D7, K1, U1, B1, B4, R4, R5, R6, R7, B6, B7, B8

\* The places with this step still ahead.
LEMMA HasUncred ==
  /\ \A s \in {U1, R7, B8} : Has("uncred", s)
  /\ \A s \in {P1, P2, P3, A4, C4, C5, C6, C7, C8, F1, F2, V3, V4, V5, V6,
              D1, D2, D3, D4, D5, D6, D7, K1, B1, B4, R4, R5, R6, B6, B7} : ~Has("uncred", s)
BY DEF Has, P1, P2, P3, A4, C4, C5, C6, C7, C8, F1, F2, V3, V4, V5, V6, D1, D2, D3, D4,
         D5, D6, D7, K1, U1, B1, B4, R4, R5, R6, R7, B6, B7, B8
-----------------------------------------------------------------------------
(***************************************************************************)
(* RetiredKeysRefused.  A retired key is active nowhere: not in the store, *)
(* not in the rows a rollback would put back, not in the file, not in the  *)
(* gateway.  For that a key must have left the file and the gateway when   *)
(* its operation ends: what the awaited generation lists is active as long *)
(* as it is awaited, and from then on while the operation goes on.         *)
(***************************************************************************)
Listed(k) == k = 0 \/ k \in Active

RetiredGone ==
    \A k \in retired :
        /\ k \notin Active
        /\ k \in DOMAIN op.keys => op.keys[k] # "active"
        /\ file.key # k /\ gw.key # k

Generations ==
    /\ file.gen = "awaited" \/ gw.gen = "awaited" => At("wait")
    /\ gw.gen = "awaited" => Listed(gw.key)
    /\ At("wait") => Listed(file.key)

\* The gateway has confirmed what the operation has published.
Confirmed == op.kind \in {"revoke", "delete"} /\ ~op.rolling /\ ~Ahead("wait")

RetiredInv ==
    /\ RetiredGone
    /\ Generations
    /\ Confirmed => Listed(file.key) /\ Listed(gw.key)

\* The rows say which keys are active.
LEMMA ActiveSame == ASSUME keys' = keys PROVE Active' = Active
BY DEF Active, KeysWith

\* A key the operation ends is a row that is not active.
LEMMA EndedKeys ==
  ASSUME NEW k \in Ended(op)
  PROVE  k \in DOMAIN op.keys /\ keys[k] # "active" /\ k \notin Active
BY DEF Ended, Active, KeysWith

\* A step after which no wait is ahead comes after the wait.
LEMMA WaitStaysAhead ==
  ASSUME UserBase, op.kind \in {"revoke", "delete"}, ~op.rolling, Ahead("wait"),
         ~At("wait"), Len(op.todo) # 1
  PROVE  Has("wait", Rest(op.todo))
BY AheadRest

\* The last step of an operation that does not end by waiting retires keys
\* that the gateway has confirmed to be gone, or none.
LEMMA RetiredByOthers ==
  ASSUME UserBase, RetiredInv, op.kind # "none", ~op.rolling, ~At("wait"), Len(op.todo) = 1
  PROVE  Ended(op) = {} \/ Confirmed
<1>1. op.todo \in {K1, F1, D1} /\ op.kind \in {"revoke", "delete", "reset", "start"}
  <2>1. Forward
    BY DEF UserBase, Stage, NoOp
  <2>2. CASE op.kind = "create" /\ op.todo \in {C8, C7, C6, C5, C4, P3, P2, P1}
    BY <2>2, Heads, Lengths DEF At
  <2>3. CASE op.kind \in {"rotate", "assign"} /\ op.todo \in {A4, P3, P2, P1}
    BY <2>3, Heads, Lengths DEF At
  <2>4. CASE op.kind = "revoke" /\ op.todo \in {V6, V5, V4, V3, F2, F1}
    BY <2>4, Lengths
  <2>5. CASE op.kind = "delete" /\ op.todo \in {D7, D6, D5, D4, D3, D2, D1}
    BY <2>5, Lengths
  <2>6. CASE \/ op.kind = "reset" /\ op.todo = K1
             \/ op.kind = "start" /\ op.todo \in {F2, F1}
    BY <2>6, Lengths
  <2> QED
    BY <2>1, <2>2, <2>3, <2>4, <2>5, <2>6 DEF Forward
<1>2. CASE op.kind \in {"revoke", "delete"}
  BY <1>1, <1>2, HasWait DEF Confirmed, Ahead
<1>3. CASE op.kind \in {"reset", "start"}
  BY <1>3 DEF UserBase, Remembered, Applied, Ended
<1> QED
  BY <1>1, <1>2, <1>3

\* The wait follows the write.
LEMMA WaitFollowsWrite ==
  ASSUME UserBase, op.kind # "none", Len(op.todo) # 1, Head(Rest(op.todo)) = "wait"
  PROVE  At("write")
<1>1. CASE Forward
  <2>1. op.todo \in {P2, V4, D5}
    <3>1. CASE op.kind = "create" /\ op.todo \in {C8, C7, C6, C5, C4, P3, P2, P1}
      BY <3>1, Tails, Heads, Lengths
    <3>2. CASE op.kind \in {"rotate", "assign"} /\ op.todo \in {A4, P3, P2, P1}
      BY <3>2, Tails, Heads, Lengths
    <3>3. CASE op.kind = "revoke" /\ op.todo \in {V6, V5, V4, V3, F2, F1}
      BY <3>3, Tails, Heads, Lengths
    <3>4. CASE op.kind = "delete" /\ op.todo \in {D7, D6, D5, D4, D3, D2, D1}
      BY <3>4, Tails, Heads, Lengths
    <3>5. CASE op.todo \in {K1, F2, F1}
      BY <3>5, Tails, Heads, Lengths
    <3> QED
      BY <1>1, <3>1, <3>2, <3>3, <3>4, <3>5 DEF Forward
  <2> QED
    BY <2>1, Heads DEF At
<1>2. CASE Backward
  <2>1. op.todo \in {B1, B4, B6, B7, B8, R7, R6, R5, R4, P3, P2, P1, U1}
    BY <1>2 DEF Backward
  <2>2. op.todo = P2
    BY <2>1, Tails, Heads, Lengths
  <2> QED
    BY <2>2, Heads DEF At
<1> QED
  BY <1>1, <1>2 DEF UserBase, Stage, NoOp

\* A step that changes neither the rows, the file nor the gateway.
LEMMA DoneRetired ==
  ASSUME UserBase, UserBase', RetiredInv, op.kind # "none",
         ~At("wait"), ~At("write"), Done(op), keys' = keys, file' = file, gw' = gw
  PROVE  RetiredInv'
<1>0. Active' = Active /\ (\A k : Listed(k)' <=> Listed(k))
  BY ActiveSame DEF Listed
<1>1. file.gen # "awaited" /\ gw.gen # "awaited"
  BY DEF RetiredInv, Generations
<1>2. op' = NoOp \/ (/\ op'.kind = op.kind /\ op'.rolling = op.rolling /\ op'.keys = op.keys
                     /\ op'.todo = Rest(op.todo) /\ Len(op.todo) # 1)
  BY DEF Done, Rest, UserBase, UserTypeOK, Operation
<1>3. RetiredGone'
  <2>1. retired' = retired \/ (Len(op.todo) = 1 /\ ~op.rolling /\ op' = NoOp
                                /\ retired' = retired \cup Ended(op))
    BY DEF Done
  <2>2. \A k \in retired : k \notin Active' /\ file.key # k /\ gw.key # k
                             /\ (k \in DOMAIN op'.keys => op'.keys[k] # "active")
    BY <1>0, <1>2 DEF RetiredInv, RetiredGone, NoOp
  <2>3. CASE retired' = retired
    BY <2>2, <2>3 DEF RetiredGone
  <2>4. CASE retired' # retired
    <3>1. Confirmed /\ op' = NoOp /\ retired' = retired \cup Ended(op)
      BY <2>1, <2>4, RetiredByOthers
    <3>2. \A k \in Ended(op) : k \notin Active /\ k # 0
      BY EndedKeys, ActiveKeys DEF UserBase, Remembered
    <3>3. Listed(file.key) /\ Listed(gw.key)
      BY <3>1 DEF RetiredInv
    <3> QED
      BY <1>0, <2>2, <3>1, <3>2, <3>3 DEF RetiredGone, Listed, NoOp
  <2> QED
    BY <2>3, <2>4
<1>4. ~At("wait")'
  <2>1. CASE op' = NoOp
    BY <2>1 DEF At, NoOp
  <2>2. CASE op' # NoOp
    BY <1>2, <2>2, WaitFollowsWrite DEF At
  <2> QED
    BY <2>1, <2>2
<1>5. Confirmed' => Confirmed
  <2>1. SUFFICES ASSUME Confirmed' PROVE Confirmed
    OBVIOUS
  <2>2. op' # NoOp
    BY <2>1 DEF Confirmed, NoOp
  <2>3. /\ op.kind \in {"revoke", "delete"} /\ ~op.rolling /\ ~Has("wait", Rest(op.todo))
        /\ Len(op.todo) # 1
    BY <1>2, <2>1, <2>2 DEF Confirmed, Ahead
  <2> QED
    BY <2>3, WaitStaysAhead DEF Confirmed
<1>6. Generations'
  BY <1>1, <1>4 DEF Generations
<1>7. Confirmed' => Listed(file.key)' /\ Listed(gw.key)'
  BY <1>0, <1>5 DEF RetiredInv, Listed
<1> QED
  BY <1>3, <1>6, <1>7 DEF RetiredInv

\* A failing step, with the file as it was or listing an active key.
LEMMA GiveUpRetired ==
  ASSUME UserBase, UserBase', RetiredInv, GiveUp, op.kind \notin {"none", "start"},
         keys' = keys, retired' = retired,
         file'.gen = "other", file'.key = file.key \/ Listed(file'.key),
         gw'.gen = "other", gw'.key = gw.key
  PROVE  RetiredInv'
<1>0. Active' = Active
  BY ActiveSame
<1>1. op' = NoOp \/ (op'.rolling = TRUE /\ op'.keys = op.keys)
  BY ZenonT(60), AfterGiveUp DEF UserBase, UserTypeOK, Operation
<1>2. ~At("wait")'
  <2>1. op' = NoOp \/ op'.todo \in {B1, B8, B4, B7, B6, R6, U1}
    BY ZenonT(60), AfterGiveUp DEF UserBase, UserTypeOK, Operation
  <2>2. \A s \in {B1, B8, B4, B7, B6, R6, U1} : Head(s) # "wait"
    BY Heads
  <2> QED
    BY <2>1, <2>2 DEF At, NoOp
<1>3. RetiredGone'
  <2>1. \A k \in retired : k # 0
    BY ActiveKeys DEF UserBase, UserTypeOK
  <2> QED
    BY <1>0, <1>1, <2>1 DEF RetiredInv, RetiredGone, Listed, NoOp
<1>4. ~Confirmed'
  BY <1>1 DEF Confirmed, NoOp
<1> QED
  BY <1>2, <1>3, <1>4 DEF RetiredInv, Generations

\* Steps of the others: the file is rewritten from the rows or loaded.
LEMMA PassiveRetired ==
  ASSUME UserBase, RetiredInv, keys' = keys, retired' = retired,
         op'.kind = op.kind, op'.todo = op.todo, op'.rolling = op.rolling, op'.keys = op.keys,
         file' = file \/ (file'.gen = "other" /\ Listed(file'.key)),
         \/ gw' = gw
         \/ gw'.key = 0 /\ gw'.gen = "other"
         \/ gw'.key = file.key /\ gw'.gen = file.gen /\ file' = file
  PROVE  RetiredInv'
<1>0. Active' = Active
  BY ActiveSame
<1>1. \A k \in retired : k # 0
  BY ActiveKeys DEF UserBase, UserTypeOK
<1>2. At("wait")' <=> At("wait")
  BY DEF At
<1>3. Confirmed' <=> Confirmed
  BY DEF Confirmed, Ahead
<1>4. RetiredGone'
  BY <1>0, <1>1 DEF RetiredInv, RetiredGone, Listed
<1>5. Generations'
  BY <1>0, <1>2 DEF RetiredInv, Generations, Listed
<1>6. Confirmed' => Listed(file.key)' /\ Listed(gw.key)'
  BY <1>0, <1>3 DEF RetiredInv, Listed
<1> QED
  BY <1>4, <1>5, <1>6 DEF RetiredInv

\* The file gets a key that is active, or none.
LEMMA FileListed ==
  ASSUME UserTypeOK, NEW gen, NEW read, ReplaceFile(gen, read)
  PROVE  Listed(file'.key) /\ file'.gen = gen
BY ServedCurrent DEF ReplaceFile, Listed

\* No transaction of an operation makes an old row active.
LEMMA ApplyRows ==
  ASSUME UserBase, Apply
  PROVE  \A k \in DOMAIN keys : keys'[k] = "active" => keys[k] = "active"
<1>0. keys \in Seq(KeyStatus)
  BY DEF UserBase, UserTypeOK
<1>1. CASE op.kind = "create"
  BY <1>0, <1>1 DEF Apply, Applies, ApplyUserCreation
<1>2. CASE op.kind = "rotate"
  <2>1. op.key \in DOMAIN keys /\ keys' = Append([keys EXCEPT ![op.key] = "rotated"], "active")
    BY <1>2, ActiveKeys DEF UserBase, Apply, Applies, ApplyUserKeyRotationExpected
  <2> QED
    BY <1>0, <2>1
<1>3. CASE op.kind = "revoke"
  BY <1>3 DEF Apply, Applies, ApplyUserRevocation
<1>4. CASE op.kind = "delete"
  BY <1>4 DEF Apply, Applies, ApplyUserDeletion
<1>5. CASE op.kind = "assign"
  BY <1>5 DEF Apply, Applies, ApplyAssignment
<1> QED
  BY <1>1, <1>2, <1>3, <1>4, <1>5, AtApply DEF Apply, UserBase

\* What the operation is after its transaction.
LEMMA ApplyOp ==
  ASSUME UserBase, Apply
  PROVE  /\ op'.kind = op.kind /\ ~op.rolling /\ ~op'.rolling /\ op'.keys = keys
         /\ op'.routed = routed /\ op'.cred = op.cred /\ op'.intact = op.intact
         /\ retired' = retired
         /\ \/ op.kind = "create" /\ op'.todo = C7
            \/ op.kind \in {"rotate", "assign"} /\ op'.todo = P3
            \/ op.kind = "revoke" /\ op'.todo = V5
            \/ op.kind = "delete" /\ op'.todo = D6
<1>1. \/ op.todo = C8 /\ ~op.rolling /\ op.kind = "create"
      \/ op.todo = A4 /\ ~op.rolling /\ op.kind \in {"rotate", "assign"}
      \/ op.todo = V6 /\ ~op.rolling /\ op.kind = "revoke"
      \/ op.todo = D7 /\ ~op.rolling /\ op.kind = "delete"
  BY AtApply DEF Apply, UserBase
<1>2. Len(op.todo) # 1
  BY <1>1, Lengths
<1>3. /\ op'.kind = op.kind /\ op'.rolling = op.rolling /\ op'.keys = keys
      /\ op'.routed = routed /\ op'.cred = op.cred /\ op'.intact = op.intact
      /\ op'.todo = Rest(op.todo) /\ retired' = retired
  BY <1>2 DEF Apply, Remember, Done, Rest, UserBase, UserTypeOK, Operation
<1> QED
  BY <1>1, <1>3, Tails

\* The rows of every account are as the operation remembers them.
RowsBack == \A k \in DOMAIN keys :
               keys[k] = IF k \in DOMAIN op.keys THEN op.keys[k] ELSE "deleted"

\* A restored row is as remembered, a row added since is deleted.
LEMMA RestoredRows ==
  ASSUME UserBase, Restore
  PROVE  /\ DOMAIN keys' = DOMAIN keys /\ routed' = op.routed
         /\ \A k \in DOMAIN keys :
               keys'[k] = IF k \in DOMAIN op.keys THEN op.keys[k] ELSE "deleted"
<1>1. CASE op.kind = "delete"
  <2>1. DOMAIN op.keys = DOMAIN keys
    BY <1>1 DEF UserBase, Remembered, Applied, Restore, At
  <2> QED
    BY <1>1, <2>1 DEF Restore, RestoreUserDeletion
<1>2. CASE op.kind # "delete"
  BY <1>2 DEF Restore, RestoreRows
<1> QED
  BY <1>1, <1>2

\* The inductive invariant behind RetiredKeysRefused.
THEOREM KeysRetire == UserSpec => []RetiredInv
<1>1. UserInit => RetiredInv
  BY DEF UserInit, RetiredInv, RetiredGone, Generations, Confirmed, At, NoOp
<1>2. UserBase /\ UserBase' /\ RetiredInv /\ [UserNext]_userVars => RetiredInv'
  <2> SUFFICES ASSUME UserBase, UserBase', RetiredInv, [UserNext]_userVars PROVE RetiredInv'
    OBVIOUS
  <2> USE DEF storeVars, portalVars, planeVars, observers, bounds
  <2>0. UserTypeOK /\ Stage /\ UserTypeOK' /\ op \in Operation
    BY DEF UserBase, UserTypeOK
  <2>1. ASSUME NEW kind \in {"create", "rotate", "assign", "revoke", "delete", "reset"},
               NEW key \in Nat, Begin(kind, key)
        PROVE  RetiredInv'
    <3>1. /\ op = NoOp /\ op'.keys = <<>> /\ op'.kind = kind
          /\ op'.todo = IF kind = "create" THEN C8
                        ELSE IF kind \in {"rotate", "assign"} THEN A4
                        ELSE IF kind = "revoke" THEN V6
                        ELSE IF kind = "delete" THEN D7 ELSE K1
      BY <2>1 DEF Begin, NoOp, Plan, C8, A4, V6, D7, K1
    <3>2. ~At("wait")' /\ ~At("wait")
      BY <3>1, Heads DEF At, NoOp
    <3>3. ~Confirmed'
      BY <3>1, HasWait DEF Confirmed, Ahead
    <3>4. keys' = keys /\ retired' = retired /\ file' = file /\ gw' = gw
      BY <2>1 DEF Begin
    <3> QED
      BY <3>1, <3>2, <3>3, <3>4, ActiveSame DEF RetiredInv, RetiredGone, Generations, Listed
  <2>2. CASE AdminRequest
    <3>1. \A k \in Active : k \in Nat
      BY <2>0, ActiveKeys
    <3> QED
      BY <2>1, <2>2, <3>1 DEF AdminRequest, CreateUser, RevokeUser, DeleteUser,
                              ResetUserPassword, RotateUserKey
  <2>3. CASE Apply
    <3>1. /\ op'.keys = keys /\ op'.kind = op.kind /\ retired' = retired
          /\ op'.todo \in {C7, P3, V5, D6}
          /\ op.kind \in {"revoke", "delete"} => op'.todo \in {V5, D6}
      BY <2>3, ApplyOp
    <3>2. ~At("wait")' /\ ~At("wait")
      BY <2>3, <3>1, Heads DEF At, Apply
    <3>3. ~Confirmed'
      BY <3>1, HasWait DEF Confirmed, Ahead
    <3>4. file' = file /\ gw' = gw
      BY <2>3 DEF Apply
    <3>5. \A k \in retired : keys[k] # "active" /\ keys'[k] # "active"
      BY <2>0, <2>3, ApplyRows DEF RetiredInv, RetiredGone, Active, KeysWith, UserTypeOK
    <3>6. RetiredGone'
      BY <3>1, <3>4, <3>5 DEF RetiredInv, RetiredGone, Active, KeysWith
    <3> QED
      BY <3>2, <3>3, <3>4, <3>6 DEF RetiredInv, Generations
  <2>4. CASE SetCredential \/ RestoreCredential \/ DeleteUserState \/ Sync \/ Render
               \/ VerifyUserKey \/ RestoreInternal
    <3>1. /\ op.kind # "none" /\ ~At("wait") /\ ~At("write") /\ Done(op)
          /\ keys' = keys /\ file' = file /\ gw' = gw
      BY <2>4 DEF SetCredential, RestoreCredential, DeleteUserState, SetPassword, Sync,
           EnsureInternalKeys, Render, VerifyUserKey, RestoreInternal, At
    <3> QED
      BY <3>1, DoneRetired
  <2>5. CASE WriteFile
    <3>1. /\ Len(op.todo) # 1 /\ Has("wait", Rest(op.todo)) /\ Head(Rest(op.todo)) = "wait"
          /\ op.kind # "none"
      <4>1. op.todo \in {P2, V4, D5}
        BY <2>0, <2>5, AtWrite DEF WriteFile
      <4>2. Len(op.todo) # 1
        BY <4>1, Lengths
      <4>3. Rest(op.todo) \in {P1, V3, D4}
        BY <4>1, Tails
      <4> QED
        BY <2>5, <4>2, <4>3, Heads, HasWait DEF WriteFile, At
    <3>2. /\ op'.todo = Rest(op.todo) /\ op'.keys = op.keys /\ op'.kind = op.kind
          /\ op'.rolling = op.rolling /\ retired' = retired
      BY <2>0, <2>5, <3>1 DEF WriteFile, Done, Rest, Operation
    <3>3. Listed(file'.key) /\ file'.gen = "awaited" /\ gw'.gen = "other" /\ gw'.key = gw.key
           /\ keys' = keys
      BY <2>0, <2>5, FileListed DEF WriteFile, UserTypeOK
    <3>4. At("wait")' /\ ~Confirmed'
      BY <3>1, <3>2 DEF At, Confirmed, Ahead
    <3>5. \A k \in retired : k # 0
      BY <2>0, ActiveKeys DEF UserTypeOK
    <3> QED
      BY <3>2, <3>3, <3>4, <3>5, ActiveSame DEF RetiredInv, RetiredGone, Generations, Listed
  <2>6. CASE Activated
    <3>1. Listed(gw.key) /\ Listed(file.key) /\ op.kind # "none"
      BY <2>6 DEF Activated, RetiredInv, Generations, At
    <3>2. /\ file'.key = file.key /\ file'.gen = "other" /\ gw'.key = gw.key /\ gw'.gen = "other"
          /\ keys' = keys
      BY <2>0, <2>6 DEF Activated, StopWaiting, UserTypeOK
    <3>3. \/ op' = NoOp
          \/ /\ op'.todo = Rest(op.todo) /\ op'.keys = op.keys /\ op'.kind = op.kind
             /\ Len(op.todo) # 1
      BY <2>0, <2>6 DEF Activated, Done, Rest, Operation
    <3>4. ~At("wait")'
      <4>1. CASE op' = NoOp
        BY <4>1 DEF At, NoOp
      <4>2. CASE op' # NoOp
        BY <2>6, <3>1, <3>3, <4>2, WaitFollowsWrite DEF At, Activated
      <4> QED
        BY <4>1, <4>2
    <3>5. retired' \subseteq retired \cup Ended(op) /\ (retired' # retired => op' = NoOp)
      BY <2>6 DEF Activated, Done
    <3>6. \A k \in Ended(op) : k \notin Active /\ k # 0
      BY <2>0, EndedKeys, ActiveKeys DEF UserBase, Remembered
    <3>7. RetiredGone'
      BY <3>1, <3>2, <3>3, <3>5, <3>6, ActiveSame DEF RetiredInv, RetiredGone, Listed, NoOp
    <3> QED
      BY <3>1, <3>2, <3>4, <3>7, ActiveSame DEF RetiredInv, Generations, Listed
  <2>7. CASE Restore
    <3>1. op.kind # "none" /\ ~At("wait") /\ ~At("write") /\ Done(op) /\ op.rolling
          /\ file' = file /\ gw' = gw
      BY <2>0, <2>7, AtRestore DEF Restore, At
    <3>2. /\ retired' = retired
          /\ \/ op' = NoOp
             \/ /\ op'.todo = Rest(op.todo) /\ op'.keys = op.keys /\ op'.rolling = TRUE
                /\ Len(op.todo) # 1
      BY <2>0, <3>1 DEF Done, Rest, Operation
    <3>3. ~At("wait")' /\ ~Confirmed'
      <4>1. CASE op' = NoOp
        BY <4>1 DEF At, NoOp, Confirmed
      <4>2. CASE op' # NoOp
        BY <3>1, <3>2, <4>2, WaitFollowsWrite DEF At, Confirmed
      <4> QED
        BY <4>1, <4>2
    <3>4. \A k \in retired : k \notin Active'
      BY <2>0, <2>7, RestoredRows DEF RetiredInv, RetiredGone, Active, KeysWith, UserTypeOK
    <3>5. RetiredGone'
      BY <3>1, <3>2, <3>4 DEF RetiredInv, RetiredGone, NoOp
    <3> QED
      BY <3>1, <3>3, <3>5 DEF RetiredInv, Generations
  <2>8. CASE StepRefused \/ StepFails \/ CredentialFailsLate
    <3>1. GiveUp /\ op.kind \notin {"none", "start"} /\ keys' = keys /\ retired' = retired
      BY <2>0, <2>8, AtCred, AtUncred
      DEF StepRefused, StepFails, CredentialFailsLate, PasswordFailsLate, Refuses, At
    <3>2. /\ file'.gen = "other" /\ file'.key = file.key
          /\ gw'.gen = "other" /\ gw'.key = gw.key
      BY <2>0, <2>8
      DEF StepRefused, StepFails, CredentialFailsLate, PasswordFailsLate, StopWaiting, UserTypeOK
    <3> QED
      BY <3>1, <3>2, GiveUpRetired
  <2>9. CASE WriteFailsLate
    <3>1. GiveUp /\ op.kind \notin {"none", "start"} /\ keys' = keys /\ retired' = retired
            /\ ~At("wait") /\ gw' = gw
      BY <2>0, <2>9, AtWrite DEF WriteFailsLate, At
    <3>2. file'.gen = "other" /\ Listed(file'.key)
      BY <2>0, <2>9, FileListed DEF WriteFailsLate
    <3>3. gw.gen = "other"
      BY <2>0, <3>1 DEF RetiredInv, Generations, UserTypeOK
    <3> QED
      BY <3>1, <3>2, <3>3, GiveUpRetired
  <2>10. CASE AdminCrash
    <3>1. op'.kind = "start" /\ op'.todo = F2 /\ op'.keys = <<>>
      BY <2>10 DEF AdminCrash, NoOp, Plan, F2
    <3>2. /\ file'.gen = "other" /\ file'.key = file.key
          /\ gw'.gen = "other" /\ gw'.key = gw.key /\ keys' = keys /\ retired' = retired
      BY <2>0, <2>10 DEF AdminCrash, StopWaiting, UserTypeOK
    <3>3. ~At("wait")'
      BY <3>1, Heads DEF At
    <3> QED
      BY <3>1, <3>2, <3>3, ActiveSame DEF RetiredInv, RetiredGone, Generations, Confirmed, Listed
  <2>11. CASE StartRefused
    <3>1. op'.kind = "start" /\ op.kind = "start" /\ op'.todo = F2 /\ op'.keys = op.keys
      BY <2>0, <2>11 DEF StartRefused, Plan, F2, Operation
    <3>2. ~At("wait")' /\ ~At("wait")
      BY <2>11, <3>1, Heads DEF At, StartRefused
    <3>3. file' = file /\ gw' = gw /\ keys' = keys /\ retired' = retired
      BY <2>11 DEF StartRefused
    <3> QED
      BY <3>1, <3>2, <3>3, ActiveSame DEF RetiredInv, RetiredGone, Generations, Confirmed, Listed
  <2>12. ASSUME NEW b \in Browser, PortalStep(b)
         PROVE  RetiredInv'
    <3>1. CASE PortalOperation(b)
      <4>1. request[b].at \in {"rotate", "assign"} /\ request[b].key \in Nat
        BY <2>0, <3>1 DEF PortalOperation, PortalRequest, UserTypeOK
      <4> QED
        BY <2>1, <3>1, <4>1 DEF PortalOperation
    <3>2. CASE ~PortalOperation(b)
      <4>1. /\ op'.kind = op.kind /\ op'.todo = op.todo /\ op'.rolling = op.rolling
            /\ op'.keys = op.keys
            /\ keys' = keys /\ retired' = retired /\ file' = file /\ gw' = gw
        BY <2>0, <2>12, <3>2 DEF PortalStep, LoginVerified, CreateSession, EndSession,
             ChangeVerified, ChangePassword, AskRotation, AskRoute, Operation
      <4> QED
        BY <4>1, PassiveRetired
    <3> QED
      BY <3>1, <3>2
  <2>13. CASE ReadActiveUsers \/ Synchronize \/ LoadAuthSnapshot \/ GatewayRestart
    <3>1. op' = op /\ keys' = keys /\ retired' = retired /\ file' = file
      BY <2>13 DEF ReadActiveUsers, Synchronize, EnsureInternalKeys, LoadAuthSnapshot,
           GatewayRestart
    <3>2. \/ gw' = gw
          \/ gw'.key = 0 /\ gw'.gen = "other"
          \/ gw'.key = file.key /\ gw'.gen = file.gen /\ file' = file
      BY <2>13, <3>1 DEF ReadActiveUsers, Synchronize, LoadAuthSnapshot, GatewayRestart,
           NothingLoaded
    <3> QED
      BY <3>1, <3>2, PassiveRetired
  <2>14. CASE ForeignPublish
    <3>1. op' = op /\ keys' = keys /\ retired' = retired /\ gw' = gw
      BY <2>14 DEF ForeignPublish
    <3>2. file' = file \/ (file'.gen = "other" /\ Listed(file'.key))
      BY <2>0, <2>14, FileListed DEF ForeignPublish
    <3> QED
      BY <3>1, <3>2, PassiveRetired
  <2>15. CASE UNCHANGED userVars
    BY <2>15, PassiveRetired DEF userVars
  <2> QED
    BY <2>2, <2>3, <2>4, <2>5, <2>6, <2>7, <2>8, <2>9, <2>10, <2>11, <2>12, <2>13, <2>14,
       <2>15 DEF UserNext, AdminStep
<1> QED
  BY <1>1, <1>2, UserTypes, PTL DEF UserSpec

\* A key whose rotation, revocation or deletion was reported as done is never
\* accepted by the gateway again, for any number of operations, faults and
\* rounds of the other processes (PublishAuthSnapshot, Authorize).
THEOREM RetiredKeysStayRefused == UserSpec => []RetiredKeysRefused
<1>1. RetiredInv => RetiredKeysRefused
  BY DEF RetiredInv, RetiredGone, RetiredKeysRefused, Authorized
<1> QED
  BY <1>1, KeysRetire, PTL

-----------------------------------------------------------------------------
(***************************************************************************)
(* Settled.  The file says what the store says except while an operation   *)
(* has its publication ahead, and the CPA configuration holds the internal *)
(* key of an active user except while an operation has its rendering       *)
(* ahead; a row of the internal key that exists keeps its secret.          *)
(***************************************************************************)
Dirty == op.kind # "create" /\ Applied /\ Ahead("write")

Unrendered == /\ op.kind \in {"create", "revoke", "delete"} /\ Applied
              /\ Ahead("render") \/ Ahead("restore")

\* A creation changes nothing the file lists: it starts from a user without
\* an active key and leaves one without a route.
CreationQuiet ==
    op.kind = "create" /\ Applied =>
        /\ \A k \in DOMAIN op.keys : op.keys[k] # "active"
        /\ routed => Active = {}

\* A rotation or an assignment starts from and leaves an active user.
MoveActive ==
    op.kind \in {"rotate", "assign"} /\ Applied =>
        Active # {} /\ \E k \in DOMAIN op.keys : op.keys[k] = "active"

FileAsStored ==
    published /\ ~Dirty =>
        /\ file.key = Served(Active)
        /\ file.key # 0 => internal # NoInternal /\ file.internal = internal.secret

ConfigAsStored ==
    projected /\ ~Unrendered /\ Active # {} =>
        internal # NoInternal /\ config = internal.secret

SettledInv == CreationQuiet /\ MoveActive /\ FileAsStored /\ ConfigAsStored

\* The rows and the route say which key is served.
LEMMA ServedSame ==
  ASSUME keys' = keys, routed' = routed
  PROVE  Served(Active)' = Served(Active) /\ Active' = Active
BY DEF Served, Active, KeysWith

\* Steps that leave the rows and the route alone.
LEMMA QuietStays ==
  ASSUME SettledInv, keys' = keys, routed' = routed,
         Applied' => Applied /\ op'.kind = op.kind /\ op'.keys = op.keys
  PROVE  CreationQuiet' /\ MoveActive'
BY ServedSame DEF SettledInv, CreationQuiet, MoveActive

\* A step that leaves the rows, the file and the configuration alone, keeps the
\* secret of an internal key, and ends no operation with work ahead unless it
\* notes so.
LEMMA SettledStays ==
  ASSUME SettledInv, keys' = keys, routed' = routed, config' = config,
         Applied' => Applied /\ op'.kind = op.kind /\ op'.keys = op.keys,
         internal # NoInternal => internal' # NoInternal /\ internal'.secret = internal.secret,
         file'.key = file.key, file'.internal = file.internal,
         published' /\ ~Dirty' => published /\ ~Dirty,
         projected' /\ ~Unrendered' => projected /\ ~Unrendered
  PROVE  SettledInv'
<1>1. CreationQuiet' /\ MoveActive'
  BY QuietStays
<1>2. FileAsStored'
  BY ServedSame DEF SettledInv, FileAsStored
<1>3. ConfigAsStored'
  BY ServedSame DEF SettledInv, ConfigAsStored
<1> QED
  BY <1>1, <1>2, <1>3 DEF SettledInv

\* A step done is off the list, and the last one ends the operation.
LEMMA DoneOp ==
  ASSUME UserBase, Done(op)
  PROVE  \/ Len(op.todo) = 1 /\ op' = NoOp
         \/ /\ Len(op.todo) # 1 /\ op'.todo = Rest(op.todo)
            /\ op'.kind = op.kind /\ op'.rolling = op.rolling /\ op'.keys = op.keys
            /\ op'.routed = op.routed /\ op'.cred = op.cred /\ op'.intact = op.intact
            /\ op'.internal = op.internal
BY DEF Done, Rest, UserBase, UserTypeOK, Operation

\* What is ahead of the last step is that step.
LEMMA LastStep ==
  ASSUME UserBase, op.kind # "none", Len(op.todo) = 1, NEW step, Ahead(step)
  PROVE  At(step)
<1>1. op.todo \in Seq(Step) /\ Head(op.todo) = op.todo[1]
  BY StageTodo
<1> QED
  BY <1>1 DEF Ahead, Has, At

\* What a step that is done leaves ahead.
LEMMA DoneFlags ==
  ASSUME UserBase, UserBase', op.kind # "none", ~At("apply"), Done(op)
  PROVE  /\ Applied' => Applied /\ op'.kind = op.kind /\ op'.keys = op.keys
         /\ ~At("write") /\ ~Dirty' => ~Dirty
         /\ ~At("render") /\ ~At("restore") /\ ~Unrendered' => ~Unrendered
<1>0. op' = NoOp \/ Head(op'.todo) # "apply"
  BY AfterDone DEF UserBase, UserTypeOK
<1>1. CASE op' = NoOp
  <2>1. ~Applied' /\ ~Dirty' /\ ~Unrendered'
    BY <1>1 DEF Applied, Dirty, Unrendered, NoOp
  <2>2. Len(op.todo) = 1
    BY <1>1, DoneOp DEF NoOp
  <2> QED
    BY <2>1, <2>2, LastStep DEF Dirty, Unrendered
<1>2. CASE op' # NoOp
  <2>1. /\ op'.todo = Rest(op.todo) /\ op'.kind = op.kind /\ op'.keys = op.keys
    BY <1>2, DoneOp
  <2>2. Applied' <=> Applied
    BY <1>0, <1>2, <2>1 DEF Applied, At
  <2>3. \A step : Ahead(step)' <=> Has(step, Rest(op.todo))
    BY <2>1 DEF Ahead
  <2>4. ~At("write") /\ Ahead("write") => Has("write", Rest(op.todo))
    BY AheadRest
  <2>5. ~At("render") /\ Ahead("render") => Has("render", Rest(op.todo))
    BY AheadRest
  <2>6. ~At("restore") /\ Ahead("restore") => Has("restore", Rest(op.todo))
    BY AheadRest
  <2> QED
    BY <2>1, <2>2, <2>3, <2>4, <2>5, <2>6 DEF Dirty, Unrendered
<1> QED
  BY <1>1, <1>2

\* What a failing step leaves ahead, and what it notes.
LEMMA GiveUpFlags ==
  ASSUME UserBase, UserBase', GiveUp, op.kind \notin {"none", "start"}
  PROVE  /\ Applied' => Applied /\ op'.kind = op.kind /\ op'.keys = op.keys
         /\ ~op.rolling \/ At("uncred") \/ At("wait") => (Dirty => Dirty')
         /\ ~op.rolling \/ At("uncred") \/ At("wait") \/ At("write") =>
               (Unrendered => Unrendered')
<1>0. op \in Operation /\ Stage
  BY DEF UserBase, UserTypeOK
<1>1. CASE op' = NoOp /\ ~op.rolling /\ (At("apply") \/ op.kind = "reset")
  BY <1>1 DEF Applied, Dirty, Unrendered, At, NoOp
<1>2. ASSUME ~op.rolling, ~At("apply"),
             NEW todo, op' = [op EXCEPT !.todo = todo, !.rolling = TRUE],
             \/ op.kind = "create" /\ todo \in {B1, B8}
             \/ op.kind \in {"rotate", "assign"} /\ todo = B4
             \/ op.kind = "revoke" /\ todo = B7
             \/ op.kind = "delete" /\ todo = B6
      PROVE  Applied /\ op'.kind = op.kind /\ op'.keys = op.keys
             /\ (Dirty => Dirty') /\ (Unrendered => Unrendered')
  <2>1. op'.kind = op.kind /\ op'.keys = op.keys /\ op'.todo = todo
    BY <1>0, <1>2 DEF Operation
  <2>2. /\ Has("restore", todo) /\ Head(todo) # "apply"
        /\ op.kind # "create" => Has("write", todo)
    BY <1>2, HasRestore, HasWrite, Heads
  <2>3. Applied /\ Applied'
    BY <1>2, <2>1, <2>2 DEF Applied, At
  <2>4. Ahead("restore")' /\ (op.kind # "create" => Ahead("write")')
    BY <2>1, <2>2 DEF Ahead
  <2> QED
    BY <2>1, <2>3, <2>4 DEF Dirty, Unrendered
<1>3. CASE op.rolling /\ op.kind = "create" /\ op.todo = R7
             /\ op' = [op EXCEPT !.todo = R6, !.intact = FALSE]
  <2>1. op'.kind = op.kind /\ op'.keys = op.keys /\ op'.todo = R6
    BY <1>0, <1>3 DEF Operation
  <2>2. Head(R6) # "apply" /\ Head(R7) # "apply" /\ Has("render", R6)
    BY Heads, HasRender
  <2> QED
    BY <1>3, <2>1, <2>2 DEF Applied, Dirty, Unrendered, Ahead
<1>4. CASE op.rolling /\ op.kind = "create" /\ op.todo = B8
             /\ op' = [op EXCEPT !.todo = U1, !.intact = FALSE]
  <2>1. op'.kind = op.kind /\ op'.keys = op.keys
    BY <1>0, <1>4 DEF Operation
  <2>2. Head(B8) = "restore"
    BY Heads
  <2> QED
    BY <1>4, <2>1, <2>2 DEF Applied, At
<1>5. CASE op.rolling /\ op' = NoOp /\ (At("uncred") => op.todo = U1)
  <2>1. At("uncred") => op.kind = "create" /\ ~Ahead("render") /\ ~Ahead("restore")
    BY <1>0, <1>5, AtUncred, HasRender, HasRestore DEF Ahead
  <2>2. At("wait") => ~Ahead("write") /\ ~Ahead("render") /\ ~Ahead("restore")
    BY <1>0, <1>5, AtWait, HasWrite, HasRender, HasRestore DEF Ahead
  <2>3. At("write") => ~Ahead("render") /\ ~Ahead("restore")
    BY <1>0, <1>5, AtWrite, HasRender, HasRestore DEF Ahead
  <2> QED
    BY <1>5, <2>1, <2>2, <2>3 DEF Applied, Dirty, Unrendered, NoOp
<1>6. ASSUME ~op.rolling, ~(At("apply") \/ op.kind = "reset")
      PROVE  \E todo :
                /\ op' = [op EXCEPT !.todo = todo, !.rolling = TRUE]
                /\ \/ op.kind = "create" /\ todo \in {B1, B8}
                   \/ op.kind \in {"rotate", "assign"} /\ todo = B4
                   \/ op.kind = "revoke" /\ todo = B7
                   \/ op.kind = "delete" /\ todo = B6
  BY <1>6, AfterGiveUp DEF UserBase
<1>7. CASE ~op.rolling
  <2>1. CASE At("apply") \/ op.kind = "reset"
    <3>1. op' = NoOp
      BY <1>7, <2>1, AfterGiveUp DEF UserBase, At
    <3> QED
      BY <1>1, <1>7, <2>1, <3>1
  <2>2. CASE ~(At("apply") \/ op.kind = "reset")
    BY <1>2, <1>6, <1>7, <2>2
  <2> QED
    BY <2>1, <2>2
<1>8. CASE op.rolling
  BY <1>3, <1>4, <1>5, <1>8, AfterGiveUp DEF UserBase
<1> QED
  BY <1>0, <1>7, <1>8

\* Before its transaction an operation leaves nothing to publish or render.
LEMMA IdleFlags ==
  ASSUME ~Applied
  PROVE  ~Dirty /\ ~Unrendered
BY DEF Dirty, Unrendered

\* The file gets what the store says.
LEMMA FileStored ==
  ASSUME UserTypeOK, NEW gen, NEW read, ReplaceFile(gen, read), UNCHANGED storeVars
  PROVE  FileAsStored'
<1>1. Served(Active)' = Served(Active) /\ internal' = internal
  BY ServedSame DEF storeVars
<1>2. file'.key = Served(Active)
  BY DEF ReplaceFile
<1>3. ASSUME file'.key # 0
      PROVE  internal # NoInternal /\ file'.internal = internal.secret
  <2>1. Active # {}
    BY <1>2, <1>3 DEF Served
  <2>2. internal.status = "active"
    BY <2>1 DEF ReplaceFile, InternalReady
  <2> QED
    BY <1>2, <1>3, <2>2 DEF ReplaceFile, NoInternal
<1> QED
  BY <1>1, <1>2, <1>3 DEF FileAsStored

\* The inductive invariant behind Settled.
THEOREM StoreSettles == UserSpec => []SettledInv
<1>1. UserInit => SettledInv
  <2> SUFFICES ASSUME UserInit PROVE SettledInv
    OBVIOUS
  <2>1. ~Applied
    BY DEF UserInit, Applied, NoOp
  <2>2. Active = {1}
    BY DEF UserInit, Active, KeysWith
  <2>3. Served(Active) = file.key
    BY <2>2 DEF UserInit, Served
  <2> QED
    BY <2>1, <2>2, <2>3
    DEF UserInit, SettledInv, CreationQuiet, MoveActive, FileAsStored, ConfigAsStored, NoInternal
<1>2. UserBase /\ UserBase' /\ SettledInv /\ [UserNext]_userVars => SettledInv'
  <2> SUFFICES ASSUME UserBase, UserBase', SettledInv, [UserNext]_userVars PROVE SettledInv'
    OBVIOUS
  <2> USE DEF storeVars, portalVars, planeVars, observers, bounds
  <2>0. UserTypeOK /\ Stage /\ UserTypeOK' /\ op \in Operation
    BY DEF UserBase, UserTypeOK
  <2>1. ASSUME NEW kind \in {"create", "rotate", "assign", "revoke", "delete", "reset"},
               NEW key \in Nat, Begin(kind, key)
        PROVE  SettledInv'
    <3>0. ~Applied
      BY <2>1 DEF Begin, Applied, NoOp
    <3>1. ~Applied' /\ ~Applied
      BY <2>1, <3>0, BeginBase
    <3>2. ~Dirty /\ ~Unrendered
      BY <3>1, IdleFlags
    <3> QED
      BY <2>1, <3>1, <3>2, SettledStays DEF Begin
  <2>2. CASE AdminRequest
    <3>1. \A k \in Active : k \in Nat
      BY <2>0, ActiveKeys
    <3> QED
      BY <2>1, <2>2, <3>1 DEF AdminRequest, CreateUser, RevokeUser, DeleteUser,
                              ResetUserPassword, RotateUserKey
  <2>3. CASE Apply
    <3>0. ~Applied /\ ~Dirty /\ ~Unrendered
      BY <2>3, IdleFlags DEF Apply, Applied, At
    <3>1. /\ op'.kind = op.kind /\ op'.keys = keys
          /\ \/ op.kind = "create" /\ op'.todo = C7
             \/ op.kind \in {"rotate", "assign"} /\ op'.todo = P3
             \/ op.kind = "revoke" /\ op'.todo = V5
             \/ op.kind = "delete" /\ op'.todo = D6
      BY <2>3, ApplyOp
    <3>2. Applied'
      BY <3>1, Heads DEF Applied
    <3>3. /\ config' = config /\ file' = file /\ published' = published
          /\ projected' = projected
      BY <2>3 DEF Apply
    <3>4. op.kind # "create" => Dirty'
      BY <3>1, <3>2, HasWrite DEF Dirty, Ahead
    <3>5. op.kind \in {"create", "revoke", "delete"} => Unrendered'
      BY <3>1, <3>2, HasRender DEF Unrendered, Ahead
    <3>6. CASE op.kind = "create"
      <4>1. Active = {} /\ routed' = FALSE
        BY <2>3, <3>6 DEF Apply, Applies, ApplyUserCreation
      <4>2. Served(Active) = 0 /\ Served(Active)' = 0
        BY <4>1 DEF Served
      <4>3. internal' = internal
        BY <2>3, <3>6 DEF Apply, Applies, ApplyUserCreation
      <4>4. CreationQuiet' /\ MoveActive'
        BY <3>1, <3>6, <4>1 DEF CreationQuiet, MoveActive, Active, KeysWith
      <4>5. FileAsStored'
        BY <3>0, <3>3, <4>2, <4>3 DEF SettledInv, FileAsStored
      <4> QED
        BY <3>5, <3>6, <4>4, <4>5 DEF SettledInv, ConfigAsStored
    <3>7. CASE op.kind \in {"rotate", "assign"}
      <4>1. Active # {} /\ Active' # {} /\ internal' = internal
        <5>1. CASE op.kind = "rotate"
          <6>1. /\ Active = {op.key} /\ internal' = internal
                /\ keys' = Append([keys EXCEPT ![op.key] = "rotated"], "active")
            BY <2>3, <5>1 DEF Apply, Applies, ApplyUserKeyRotationExpected
          <6>2. Len(keys) + 1 \in DOMAIN keys' /\ keys'[Len(keys) + 1] = "active"
            BY <2>0, <6>1 DEF UserTypeOK
          <6> QED
            BY <6>1, <6>2 DEF Active, KeysWith
        <5>2. CASE op.kind = "assign"
          BY <2>3, <5>2, ActiveSame DEF Apply, Applies, ApplyAssignment
        <5> QED
          BY <3>7, <5>1, <5>2
      <4>2. CreationQuiet' /\ MoveActive'
        BY <3>1, <3>7, <4>1 DEF CreationQuiet, MoveActive, Active, KeysWith
      <4>3. ConfigAsStored'
        BY <3>0, <3>3, <4>1 DEF SettledInv, ConfigAsStored
      <4> QED
        BY <3>4, <3>7, <4>2, <4>3 DEF SettledInv, FileAsStored
    <3>8. CASE op.kind \in {"revoke", "delete"}
      BY <3>1, <3>4, <3>5, <3>8
      DEF SettledInv, CreationQuiet, MoveActive, FileAsStored, ConfigAsStored
    <3> QED
      BY <3>1, <3>6, <3>7, <3>8
  <2>4. CASE SetCredential \/ RestoreCredential \/ DeleteUserState \/ VerifyUserKey
    <3>1. /\ op.kind # "none" /\ ~At("apply") /\ ~At("write") /\ ~At("render")
          /\ ~At("restore") /\ Done(op)
          /\ UNCHANGED <<keys, routed, internal, config, file, published, projected>>
      BY <2>4 DEF SetCredential, RestoreCredential, DeleteUserState, SetPassword,
           VerifyUserKey, At
    <3> QED
      BY <3>1, DoneFlags, SettledStays
  <2>5. CASE Sync
    <3>1. /\ op.kind # "none" /\ ~At("apply") /\ ~At("write") /\ ~At("render")
          /\ ~At("restore") /\ Done(op)
          /\ UNCHANGED <<keys, routed, config, file, published, projected>>
      BY <2>5 DEF Sync, EnsureInternalKeys, At
    <3>2. internal # NoInternal => internal' # NoInternal /\ internal'.secret = internal.secret
      BY <2>0, <2>5, EnsureType DEF Sync
    <3> QED
      BY <3>1, <3>2, DoneFlags, SettledStays
  <2>6. CASE Render
    <3>1. /\ op.kind # "none" /\ ~At("apply") /\ ~At("write") /\ Done(op)
          /\ UNCHANGED <<keys, routed, internal, file, published>>
      BY <2>6 DEF Render, At
    <3>2. CreationQuiet' /\ MoveActive'
      BY <3>1, DoneFlags, QuietStays
    <3>3. FileAsStored'
      BY <3>1, DoneFlags, ServedSame DEF SettledInv, FileAsStored
    <3>4. Active # {} => internal # NoInternal /\ config' = internal.secret
      BY <2>6 DEF Render, RenderConfig, InternalReady, NoInternal
    <3>5. ConfigAsStored'
      BY <3>1, <3>4, ServedSame DEF ConfigAsStored
    <3> QED
      BY <3>2, <3>3, <3>5 DEF SettledInv
  <2>7. CASE WriteFile
    <3>1. /\ op.kind # "none" /\ ~At("apply") /\ ~At("render") /\ ~At("restore") /\ Done(op)
          /\ UNCHANGED <<keys, routed, internal, born, config, projected>>
      BY <2>7 DEF WriteFile, At
    <3>2. CreationQuiet' /\ MoveActive'
      BY <3>1, DoneFlags, QuietStays
    <3>3. FileAsStored'
      BY <2>0, <2>7, FileStored DEF WriteFile
    <3>4. ConfigAsStored'
      BY <3>1, DoneFlags, ServedSame DEF SettledInv, ConfigAsStored
    <3> QED
      BY <3>2, <3>3, <3>4 DEF SettledInv
  <2>8. CASE Activated
    <3>1. /\ op.kind # "none" /\ ~At("apply") /\ ~At("write") /\ ~At("render")
          /\ ~At("restore") /\ Done(op)
          /\ UNCHANGED <<keys, routed, internal, config, published, projected>>
          /\ file'.key = file.key /\ file'.internal = file.internal
      BY <2>0, <2>8 DEF Activated, StopWaiting, At, UserTypeOK
    <3> QED
      BY <3>1, DoneFlags, SettledStays
  <2>9. CASE Restore
    <3>0. /\ op.kind # "none" /\ ~At("apply") /\ ~At("write") /\ ~At("render") /\ Done(op)
          /\ config' = config /\ file' = file /\ published' = published
          /\ projected' = projected /\ Applied
          /\ \/ op.kind = "create" /\ op.todo \in {B1, B8}
             \/ op.kind \in {"rotate", "assign"} /\ op.todo = B4
             \/ op.kind = "revoke" /\ op.todo = B7
             \/ op.kind = "delete" /\ op.todo = B6
      BY <2>0, <2>9, AtRestore DEF Restore, At, Applied
    <3>1. op' = NoOp \/ (op'.kind = op.kind /\ op'.keys = op.keys /\ op'.todo = Rest(op.todo))
      BY <3>0, DoneOp
    <3>2. CASE op.kind = "create"
      <4>1. \A k \in DOMAIN keys' : keys'[k] # "active"
        BY <2>9, <3>0, <3>2, RestoredRows DEF SettledInv, CreationQuiet
      <4>2. Active' = {} /\ Served(Active)' = 0
        BY <4>1 DEF Active, KeysWith, Served
      <4>3. Served(Active) = 0 /\ ~Dirty
        BY <3>0, <3>2 DEF SettledInv, CreationQuiet, Served, Dirty
      <4>4. internal' = internal
        BY <2>9, <3>2 DEF Restore, RestoreRows
      <4>5. CreationQuiet' /\ MoveActive'
        BY <3>0, <3>1, <3>2, <4>2 DEF SettledInv, CreationQuiet, MoveActive, NoOp
      <4> QED
        BY <3>0, <4>2, <4>3, <4>4, <4>5 DEF SettledInv, FileAsStored, ConfigAsStored
    <3>3. CASE op.kind # "create"
      <4>1. Len(op.todo) # 1
        BY <3>0, <3>3, Lengths
      <4>2. op'.kind = op.kind /\ op'.keys = op.keys /\ op'.todo = Rest(op.todo)
        BY <3>0, <4>1, DoneOp
      <4>3. \/ op.kind \in {"rotate", "assign"} /\ op'.todo = P3
            \/ op.kind = "revoke" /\ op'.todo = R6
            \/ op.kind = "delete" /\ op'.todo = R5
        BY <3>0, <3>3, <4>2, Tails
      <4>4. Applied' /\ Dirty' /\ (op.kind \in {"revoke", "delete"} => Unrendered')
        BY <4>2, <4>3, Heads, HasWrite, HasRender DEF Applied, Dirty, Unrendered, Ahead
      <4>5. CASE op.kind \in {"revoke", "delete"}
        BY <4>2, <4>4, <4>5
        DEF SettledInv, CreationQuiet, MoveActive, FileAsStored, ConfigAsStored
      <4>6. CASE op.kind \in {"rotate", "assign"}
        <5>1. Active # {} /\ \E k \in DOMAIN op.keys : op.keys[k] = "active"
          BY <3>0, <4>6 DEF SettledInv, MoveActive
        <5>2. DOMAIN op.keys \subseteq DOMAIN keys
          BY DEF UserBase, Remembered
        <5>3. Active' # {} /\ \E k \in DOMAIN op'.keys : op'.keys[k] = "active"
          BY <2>9, <4>2, <5>1, <5>2, RestoredRows DEF Active, KeysWith
        <5>4. internal' = internal /\ ~Unrendered
          BY <2>9, <4>6 DEF Restore, RestoreRows, Unrendered
        <5>5. CreationQuiet' /\ MoveActive' /\ FileAsStored'
          BY <4>2, <4>4, <4>6, <5>3 DEF CreationQuiet, MoveActive, FileAsStored
        <5>6. ConfigAsStored'
          BY <3>0, <5>1, <5>4 DEF SettledInv, ConfigAsStored
        <5> QED
          BY <5>5, <5>6 DEF SettledInv
      <4> QED
        BY <4>3, <4>5, <4>6
    <3> QED
      BY <3>2, <3>3
  <2>10. CASE RestoreInternal
    <3>0. /\ op.kind \in {"create", "revoke"} /\ op.todo = R6 /\ ~At("apply") /\ ~At("write")
          /\ op.kind # "none" /\ Done(op) /\ Applied
          /\ UNCHANGED <<keys, routed, config, file, published, projected>>
      BY <2>0, <2>10, AtUninternal DEF RestoreInternal, At, Applied
    <3>1. op'.kind = op.kind /\ op'.keys = op.keys /\ op'.todo = R5
      BY <3>0, DoneOp, Lengths, Tails
    <3>2. Applied' /\ Unrendered' /\ (op.kind = "revoke" => Dirty')
      BY <3>0, <3>1, Heads, HasWrite, HasRender DEF Applied, Dirty, Unrendered, Ahead
    <3>3. CreationQuiet' /\ MoveActive'
      BY <3>0, <3>1, QuietStays
    <3>4. FileAsStored'
      <4>1. CASE op.kind = "create"
        BY <3>0, <4>1, ServedSame DEF SettledInv, FileAsStored, CreationQuiet, Served, Dirty
      <4>2. CASE op.kind = "revoke"
        BY <3>2, <4>2 DEF FileAsStored
      <4> QED
        BY <3>0, <4>1, <4>2
    <3> QED
      BY <3>2, <3>3, <3>4 DEF SettledInv, ConfigAsStored
  <2>11. CASE StepRefused \/ StepFails \/ CredentialFailsLate
    <3>1. /\ GiveUp /\ op.kind \notin {"none", "start"}
          /\ UNCHANGED <<keys, routed, internal, config>>
          /\ LeftUndone
      BY <2>0, <2>11, AtCred, AtUncred
      DEF StepRefused, StepFails, CredentialFailsLate, PasswordFailsLate, Refuses, At
    <3>2. file'.key = file.key /\ file'.internal = file.internal
      BY <2>0, <2>11
      DEF StepRefused, StepFails, CredentialFailsLate, PasswordFailsLate, StopWaiting, UserTypeOK
    <3>3. /\ Applied' => Applied /\ op'.kind = op.kind /\ op'.keys = op.keys
          /\ ~op.rolling \/ At("uncred") \/ At("wait") => (Dirty => Dirty')
          /\ ~op.rolling \/ At("uncred") \/ At("wait") \/ At("write") =>
                (Unrendered => Unrendered')
      BY <3>1, GiveUpFlags
    <3>4. /\ published' => published /\ (~op.rolling \/ At("uncred") \/ At("wait"))
          /\ projected' => /\ projected
                           /\ ~op.rolling \/ At("uncred") \/ At("wait") \/ At("write")
      BY <3>1 DEF LeftUndone
    <3> QED
      BY <3>1, <3>2, <3>3, <3>4, SettledStays
  <2>12. CASE WriteFailsLate
    <3>1. /\ GiveUp /\ op.kind \notin {"none", "start"} /\ At("write")
          /\ UNCHANGED <<keys, routed, internal, born, config, projected>>
      BY <2>0, <2>12, AtWrite DEF WriteFailsLate, At
    <3>2. /\ Applied' => Applied /\ op'.kind = op.kind /\ op'.keys = op.keys
          /\ Unrendered => Unrendered'
      BY <3>1, GiveUpFlags
    <3>3. CreationQuiet' /\ MoveActive'
      BY <3>1, <3>2, QuietStays
    <3>4. FileAsStored'
      BY <2>0, <2>12, FileStored DEF WriteFailsLate
    <3>5. ConfigAsStored'
      BY <3>1, <3>2, ServedSame DEF SettledInv, ConfigAsStored
    <3> QED
      BY <3>3, <3>4, <3>5 DEF SettledInv
  <2>13. CASE AdminCrash
    <3>1. ~Applied' /\ published' = FALSE /\ projected' = FALSE
      BY <2>13 DEF AdminCrash, Applied, NoOp
    <3>2. /\ file'.key = file.key /\ file'.internal = file.internal
          /\ UNCHANGED <<keys, routed, internal, config>>
      BY <2>0, <2>13 DEF AdminCrash, StopWaiting, UserTypeOK
    <3> QED
      BY <3>1, <3>2, SettledStays
  <2>14. CASE StartRefused
    <3>1. ~Applied /\ ~Applied'
      BY <2>0, <2>14 DEF StartRefused, Applied, Operation
    <3> QED
      BY <2>14, <3>1, IdleFlags, SettledStays DEF StartRefused
  <2>15. ASSUME op'.kind = op.kind, op'.todo = op.todo, op'.keys = op.keys,
                keys' = keys, routed' = routed,
                config' = config, file' = file, published' = published, projected' = projected,
                internal # NoInternal =>
                    internal' # NoInternal /\ internal'.secret = internal.secret
         PROVE  SettledInv'
    <3>1. (Applied' <=> Applied) /\ (Dirty' <=> Dirty) /\ (Unrendered' <=> Unrendered)
      BY <2>15 DEF Applied, Dirty, Unrendered, Ahead
    <3> QED
      BY <2>15, <3>1, SettledStays
  <2>16. ASSUME NEW b \in Browser, PortalStep(b)
         PROVE  SettledInv'
    <3>1. CASE PortalOperation(b)
      <4>1. request[b].at \in {"rotate", "assign"} /\ request[b].key \in Nat
        BY <2>0, <3>1 DEF PortalOperation, PortalRequest, UserTypeOK
      <4> QED
        BY <2>1, <3>1, <4>1 DEF PortalOperation
    <3>2. CASE ~PortalOperation(b)
      <4>1. /\ op'.kind = op.kind /\ op'.todo = op.todo /\ op'.keys = op.keys
            /\ UNCHANGED <<keys, routed, internal, config, file, published, projected>>
        BY <2>0, <2>16, <3>2 DEF PortalStep, LoginVerified, CreateSession, EndSession,
             ChangeVerified, ChangePassword, AskRotation, AskRoute, Operation
      <4> QED
        BY <2>15, <4>1
    <3> QED
      BY <3>1, <3>2
  <2>17. CASE ReadActiveUsers \/ LoadAuthSnapshot \/ GatewayRestart \/ UNCHANGED userVars
    <3>1. UNCHANGED <<op, keys, routed, internal, config, file, published, projected>>
      BY <2>17 DEF ReadActiveUsers, LoadAuthSnapshot, GatewayRestart, userVars
    <3> QED
      BY <2>15, <3>1
  <2>18. CASE Synchronize
    <3>1. /\ UNCHANGED <<op, keys, routed, config, file, published, projected>>
          /\ internal # NoInternal =>
                 internal' # NoInternal /\ internal'.secret = internal.secret
      BY <2>0, <2>18, EnsureType DEF Synchronize
    <3> QED
      BY <2>15, <3>1
  <2>19. CASE ForeignPublish
    <3>1. UNCHANGED <<op, keys, routed, internal, born, config, projected>>
      BY <2>19 DEF ForeignPublish
    <3>2. CASE UNCHANGED <<file, published>>
      BY <2>15, <3>1, <3>2
    <3>3. CASE ReplaceFile("other", foreign.active)
      <4>1. FileAsStored'
        BY <2>0, <3>1, <3>3, FileStored
      <4>2. (Applied' <=> Applied) /\ (Unrendered' <=> Unrendered)
        BY <3>1 DEF Applied, Unrendered, Ahead
      <4>3. CreationQuiet' /\ MoveActive'
        BY <3>1, <4>2, QuietStays
      <4>4. ConfigAsStored'
        BY <3>1, <4>2, ServedSame DEF SettledInv, ConfigAsStored
      <4> QED
        BY <4>1, <4>3, <4>4 DEF SettledInv
    <3> QED
      BY <2>19, <3>2, <3>3 DEF ForeignPublish
  <2> QED
    BY <2>2, <2>3, <2>4, <2>5, <2>6, <2>7, <2>8, <2>9, <2>10, <2>11, <2>12, <2>13, <2>14,
       <2>16, <2>17, <2>18, <2>19 DEF UserNext, AdminStep
<1> QED
  BY <1>1, <1>2, UserTypes, PTL DEF UserSpec

\* Between operations the file lists the user's key exactly when it is active
\* and routed, with the internal key the accounts accept, unless a crash or a
\* failed rollback is on record (rollbackCreation, rollbackRevocation,
\* rollbackDeletion, PublishAuthSnapshot).
THEOREM SettledSafe == UserSpec => []Settled
<1>1. SettledInv => Settled
  <2> SUFFICES ASSUME SettledInv, op = NoOp
               PROVE  /\ published => file.key = Served(Active)
                      /\ published /\ projected /\ file.key # 0 =>
                            config = file.internal /\ file.internal = internal.secret
    BY DEF Settled
  <2>1. ~Dirty /\ ~Unrendered
    BY DEF Dirty, Unrendered, Applied, NoOp
  <2>2. published => file.key = Served(Active)
    BY <2>1 DEF SettledInv, FileAsStored
  <2>3. Served(Active) # 0 => Active # {}
    BY DEF Served
  <2> QED
    BY <2>1, <2>2, <2>3 DEF SettledInv, FileAsStored, ConfigAsStored
<1> QED
  BY <1>1, StoreSettles, PTL

-----------------------------------------------------------------------------
(***************************************************************************)
(* RolledBackExactly.  Once a rollback is past its first step the rows are *)
(* as the operation found them, and stay so.                               *)
(***************************************************************************)
RowsPutBack ==
    op.rolling /\ op.todo \in {R7, R6, R5, R4, P3, P2, P1} =>
        RowsBack /\ routed = op.routed

PasswordPutBack ==
    op.kind = "create" /\ op.intact =>
        \/ cred = op.cred
        \/ ~op.rolling /\ op.todo \notin {C8, C7}
        \/ op.rolling /\ op.todo \in {B8, R7}
        \/ op.rolling /\ op.todo = B1 /\ cred = "initial"

PutBack ==
    /\ RowsPutBack
    /\ PasswordPutBack
    /\ op.todo = U1 => ~op.intact

\* Without an operation there is nothing to put back.
LEMMA IdlePutBack == ASSUME op' = NoOp PROVE PutBack'
BY DEF PutBack, RowsPutBack, PasswordPutBack, NoOp, U1

\* The plan of a start is at no place of a rollback.
LEMMA StartIsNoRollback == F2 \notin {R7, R6, R5, R4, P3, P2, P1} /\ F2 # U1
<1>1. F2 \notin {R7, R6, R4, P2, P1, U1}
  BY Heads
<1>2. Len(F2) = 2 /\ Len(R5) = 5 /\ Len(P3) = 3
  BY Lengths
<1>3. F2 # R5 /\ F2 # P3
  BY <1>2
<1> QED
  BY <1>1, <1>3

\* Nothing the rollback is about changes.
LEMMA SamePutBack ==
  ASSUME PutBack, keys' = keys, routed' = routed, cred' = cred,
         op'.todo = op.todo, op'.kind = op.kind, op'.rolling = op.rolling,
         op'.keys = op.keys, op'.routed = op.routed, op'.cred = op.cred,
         op'.intact = op.intact
  PROVE  PutBack'
BY DEF PutBack, RowsPutBack, PasswordPutBack, RowsBack

\* A step done that leaves the rows, the route and the password alone.
LEMMA DonePutBack ==
  ASSUME UserBase, PutBack, op.kind # "none", Done(op),
         ~At("restore"), ~At("cred"), ~At("uncred"), ~At("apply"),
         keys' = keys, routed' = routed,
         cred' = cred \/ op.kind # "create"
  PROVE  PutBack'
<1>1. CASE op' = NoOp
  BY <1>1, IdlePutBack
<1>2. CASE op' # NoOp
  <2>1. /\ Len(op.todo) # 1 /\ op'.todo = Rest(op.todo)
        /\ op'.kind = op.kind /\ op'.rolling = op.rolling /\ op'.keys = op.keys
        /\ op'.routed = op.routed /\ op'.cred = op.cred /\ op'.intact = op.intact
    BY <1>2, DoneOp
  <2>2. /\ Head(op.todo) # "restore" /\ Head(op.todo) # "cred"
        /\ Head(op.todo) # "uncred" /\ Head(op.todo) # "apply"
    BY DEF At
  <2>3. CASE op.rolling
    <3>1. Backward
      BY <2>3 DEF UserBase, Stage, NoOp
    <3>2. op.todo \in {R6, R5, R4, P3, P2}
      BY <2>1, <2>2, <3>1, Heads, Lengths DEF Backward
    <3>3. op'.todo \in {R5, R4, P3, P2, P1}
      BY <2>1, <3>2, Tails
    <3>4. op'.todo # U1 /\ op.todo \notin {B8, R7, B1}
      BY <3>2, <3>3, Heads
    <3>5. RowsPutBack'
      BY <2>1, <2>3, <3>2 DEF PutBack, RowsPutBack, RowsBack
    <3>6. PasswordPutBack'
      BY <2>1, <2>3, <3>4 DEF PutBack, PasswordPutBack
    <3> QED
      BY <3>4, <3>5, <3>6 DEF PutBack
  <2>4. CASE ~op.rolling
    <3>1. Forward
      BY <2>4 DEF UserBase, Stage, NoOp
    <3>2. op.kind = "create" => op.todo \in {C6, C5, C4, P3, P2}
      BY <2>1, <2>2, <3>1, Heads, Lengths DEF Forward
    <3>3. op.kind = "create" => op'.todo \in {C5, C4, P3, P2, P1}
      BY <2>1, <3>2, Tails
    <3>4. op.kind = "create" => op'.todo \notin {C8, C7}
      BY <3>3, Lengths
    <3>5. op'.todo # U1
      <4>1. op'.todo \in {P1, P2, P3, C4, C5, V4, V3, F2, F1, D5, D4, D3, D2, D1}
        BY <2>1, <2>2, <3>1, Heads, Lengths, Tails DEF Forward
      <4> QED
        BY <4>1, Heads
    <3>6. RowsPutBack'
      BY <2>1, <2>4 DEF RowsPutBack
    <3>7. PasswordPutBack'
      BY <2>1, <2>4, <3>4 DEF PasswordPutBack
    <3> QED
      BY <3>5, <3>6, <3>7 DEF PutBack
  <2> QED
    BY <2>3, <2>4
<1> QED
  BY <1>1, <1>2

\* A failing step leaves what the rollback has to put back.
LEMMA GiveUpPutBack ==
  ASSUME UserBase, PutBack, GiveUp, op.kind \notin {"none", "start"},
         keys' = keys, routed' = routed,
         cred' = cred \/ At("uncred") \/ (At("cred") /\ cred' = "initial")
  PROVE  PutBack'
<1>0. UserTypeOK /\ Stage /\ op \in Operation
  BY DEF UserBase, UserTypeOK
<1>1. CASE op' = NoOp
  BY <1>1, IdlePutBack
<1>2. CASE /\ ~op.rolling /\ op.kind = "create" /\ At("cred")
           /\ op' = [op EXCEPT !.todo = B1, !.rolling = TRUE]
  <2>1. op.todo = C7
    BY <1>0, <1>2, AtCred
  <2>2. B1 \notin {R7, R6, R5, R4, P3, P2, P1} /\ B1 # U1
    BY Heads
  <2>3. op.intact => cred' = op.cred \/ cred' = "initial"
    <3>1. ~At("uncred")
      BY <1>2 DEF At
    <3> QED
      BY <1>2, <2>1, <3>1 DEF PutBack, PasswordPutBack
  <2>4. /\ op'.todo = B1 /\ op'.rolling /\ op'.intact = op.intact /\ op'.cred = op.cred
    BY <1>0, <1>2 DEF Operation
  <2> QED
    BY <2>2, <2>3, <2>4 DEF PutBack, RowsPutBack, PasswordPutBack
<1>3. CASE \E todo \in {B8, B4, B7, B6} :
               /\ op' = [op EXCEPT !.todo = todo, !.rolling = TRUE]
               /\ todo = B8 \/ op.kind # "create"
  <2>1. PICK todo \in {B8, B4, B7, B6} :
               /\ op' = [op EXCEPT !.todo = todo, !.rolling = TRUE]
               /\ todo = B8 \/ op.kind # "create"
    BY <1>3
  <2>2. todo \notin {R7, R6, R5, R4, P3, P2, P1} /\ todo # U1
    BY <2>1, Heads
  <2>3. op'.todo = todo /\ op'.rolling /\ op'.kind = op.kind
    BY <1>0, <2>1 DEF Operation
  <2> QED
    BY <2>1, <2>2, <2>3 DEF PutBack, RowsPutBack, PasswordPutBack
<1>4. CASE /\ op.rolling /\ op.kind = "create" /\ op.todo = R7
           /\ op' = [op EXCEPT !.todo = R6, !.intact = FALSE]
  <2>1. /\ op'.todo = R6 /\ ~op'.intact /\ op'.keys = op.keys /\ op'.routed = op.routed
    BY <1>0, <1>4 DEF Operation
  <2>2. RowsBack /\ routed = op.routed
    BY <1>4 DEF PutBack, RowsPutBack
  <2> QED
    BY <2>1, <2>2 DEF PutBack, RowsPutBack, PasswordPutBack, RowsBack
<1>5. CASE /\ op.rolling /\ op.kind = "create" /\ op.todo = B8
           /\ op' = [op EXCEPT !.todo = U1, !.intact = FALSE]
  <2>1. op'.todo = U1 /\ ~op'.intact
    BY <1>0, <1>5 DEF Operation
  <2>2. U1 \notin {R7, R6, R5, R4, P3, P2, P1}
    BY Heads, Lengths
  <2> QED
    BY <2>1, <2>2 DEF PutBack, RowsPutBack, PasswordPutBack
<1> QED
  BY <1>0, <1>1, <1>2, <1>3, <1>4, <1>5, AfterGiveUp

\* The inductive invariant behind RolledBackExactly.
THEOREM RollbackKeeps == UserSpec => []PutBack
<1>1. UserInit => PutBack
  BY DEF UserInit, PutBack, RowsPutBack, PasswordPutBack, NoOp, U1
<1>2. UserBase /\ UserBase' /\ PutBack /\ [UserNext]_userVars => PutBack'
  <2> SUFFICES ASSUME UserBase, UserBase', PutBack, [UserNext]_userVars PROVE PutBack'
    OBVIOUS
  <2> USE DEF storeVars, portalVars, planeVars, observers, bounds
  <2>0. UserTypeOK /\ Stage /\ UserTypeOK' /\ op \in Operation /\ op' \in Operation
    BY DEF UserBase, UserTypeOK
  <2>1. ASSUME NEW kind \in {"create", "rotate", "assign", "revoke", "delete", "reset"},
               NEW key \in Nat, Begin(kind, key)
        PROVE  PutBack'
    <3>1. /\ op'.kind = kind /\ ~op'.rolling /\ cred' = cred
          /\ kind = "create" => op'.cred = cred
          /\ op'.todo = Plan(kind)
      BY <2>1 DEF Begin, NoOp
    <3>2. Plan(kind) # U1
      BY DEF Plan, U1
    <3> QED
      BY <3>1, <3>2 DEF PutBack, RowsPutBack, PasswordPutBack
  <2>2. CASE AdminRequest
    <3>1. \A k \in Active : k \in Nat
      BY <2>0, ActiveKeys
    <3> QED
      BY <2>1, <2>2, <3>1 DEF AdminRequest, CreateUser, RevokeUser, DeleteUser,
                              ResetUserPassword, RotateUserKey
  <2>3. CASE Apply
    <3>1. /\ op'.kind = op.kind /\ ~op.rolling /\ ~op'.rolling
          /\ op'.cred = op.cred /\ op'.intact = op.intact /\ cred' = cred
          /\ \/ op.kind = "create" /\ op'.todo = C7
             \/ op'.todo \in {P3, V5, D6}
      BY <2>3, ApplyOp DEF Apply
    <3>2. op'.todo # U1
      BY <3>1, Heads
    <3>3. op.kind = "create" => op.todo = C8
      BY <2>0, <2>3, AtApply DEF Apply
    <3>4. op.kind = "create" /\ op.intact => cred = op.cred
      BY <3>1, <3>3 DEF PutBack, PasswordPutBack
    <3> QED
      BY <3>1, <3>2, <3>4 DEF PutBack, RowsPutBack, PasswordPutBack
  <2>4. CASE SetCredential
    <3>1. \/ op.todo = C7 /\ ~op.rolling /\ op.kind = "create"
          \/ op.todo = K1 /\ ~op.rolling /\ op.kind = "reset"
      BY <2>0, <2>4, AtCred DEF SetCredential, SetPassword
    <3>2. op' = NoOp \/ (op'.todo = C6 /\ ~op'.rolling)
      BY <2>4, <3>1, DoneOp, Tails, Lengths DEF SetCredential, SetPassword
    <3>3. C6 # U1 /\ C6 \notin {C8, C7}
      BY SMTT(30), Lengths
    <3> QED
      BY <3>2, <3>3, IdlePutBack DEF PutBack, RowsPutBack, PasswordPutBack
  <2>5. CASE RestoreCredential
    <3>1. op.todo \in {R7, U1} /\ op.rolling /\ op.kind = "create"
      BY <2>0, <2>5, AtUncred DEF RestoreCredential, SetPassword
    <3>2. /\ cred' = op.cred /\ keys' = keys /\ routed' = routed /\ Done(op)
      BY <2>5 DEF RestoreCredential, SetPassword, NewPassword
    <3>3. CASE op.todo = U1
      <4>1. op' = NoOp
        BY <3>2, <3>3, DoneOp, Lengths
      <4> QED
        BY <4>1, IdlePutBack
    <3>4. CASE op.todo = R7
      <4>1. /\ op'.todo = R6 /\ op'.keys = op.keys /\ op'.routed = op.routed
            /\ op'.cred = op.cred
        BY <3>2, <3>4, DoneOp, Lengths, Tails
      <4>2. RowsBack /\ routed = op.routed
        BY <3>1, <3>4 DEF PutBack, RowsPutBack
      <4>3. R6 # U1
        BY Lengths
      <4> QED
        BY <3>2, <4>1, <4>2, <4>3 DEF PutBack, RowsPutBack, PasswordPutBack, RowsBack
    <3> QED
      BY <3>1, <3>3, <3>4
  <2>6. CASE Restore
    <3>1. Done(op) /\ cred' = cred /\ op.rolling
      BY <2>0, <2>6, AtRestore DEF Restore
    <3>2. CASE op' = NoOp
      BY <3>2, IdlePutBack
    <3>3. CASE op' # NoOp
      <4>1. /\ Len(op.todo) # 1 /\ op'.todo = Rest(op.todo)
            /\ op'.kind = op.kind /\ op'.rolling = op.rolling /\ op'.keys = op.keys
            /\ op'.routed = op.routed /\ op'.cred = op.cred /\ op'.intact = op.intact
        BY <3>1, <3>3, DoneOp
      <4>2. \/ op.kind = "create" /\ op.todo \in {B1, B8}
            \/ op.kind # "create" /\ op.todo \in {B4, B6, B7}
        BY <2>0, <2>6, AtRestore DEF Restore
      <4>3. \/ op'.todo = R7
            \/ op.kind # "create" /\ op'.todo \in {P3, R5, R6}
        <5>1. op.todo # B1
          BY <4>1, Lengths
        <5> QED
          BY <4>1, <4>2, <5>1, Tails
      <4>4. op'.todo # U1
        BY <4>3, Lengths
      <4>5. RowsBack' /\ routed' = op'.routed
        BY <2>6, <4>1, RestoredRows DEF RowsBack
      <4>6. RowsPutBack'
        BY <4>5 DEF RowsPutBack
      <4>7. PasswordPutBack'
        BY <3>1, <4>1, <4>3 DEF PasswordPutBack
      <4> QED
        BY <4>4, <4>6, <4>7 DEF PutBack
    <3> QED
      BY <3>2, <3>3
  <2>7. CASE \/ Sync \/ Render \/ VerifyUserKey \/ WriteFile \/ Activated
             \/ RestoreInternal \/ DeleteUserState
    <3>1. /\ Done(op) /\ keys' = keys /\ routed' = routed
          /\ op.kind # "none" /\ ~At("restore") /\ ~At("cred") /\ ~At("uncred") /\ ~At("apply")
          /\ cred' = cred \/ At("erase")
      BY <2>7 DEF Sync, Render, VerifyUserKey, WriteFile, Activated, RestoreInternal,
           DeleteUserState, SetPassword, EnsureInternalKeys, At
    <3>2. At("erase") => op.kind # "create"
      BY <2>0, AtErase
    <3> QED
      BY <3>1, <3>2, DonePutBack
  <2>8. CASE StepRefused \/ StepFails \/ WriteFailsLate \/ CredentialFailsLate
    <3>1. /\ GiveUp /\ keys' = keys /\ routed' = routed
          /\ cred' = cred \/ At("uncred") \/ (At("cred") /\ cred' = "initial")
      BY <2>8 DEF StepRefused, StepFails, WriteFailsLate, CredentialFailsLate, PasswordFailsLate,
           NewPassword
    <3>2. op.kind \notin {"none", "start"}
      BY <2>0, <2>8, AtWrite, AtCred, AtUncred
      DEF StepRefused, StepFails, WriteFailsLate, CredentialFailsLate, PasswordFailsLate, Refuses, At
    <3> QED
      BY <3>1, <3>2, GiveUpPutBack
  <2>9. CASE AdminCrash \/ StartRefused
    <3>1. op'.kind = "start" /\ op'.todo = Plan("start")
      BY <2>0, <2>9 DEF AdminCrash, StartRefused, NoOp, Operation
    <3>2. op'.todo = F2
      BY <3>1 DEF Plan, F2
    <3>3. F2 \notin {R7, R6, R5, R4, P3, P2, P1} /\ F2 # U1
      BY StartIsNoRollback
    <3>4. RowsPutBack' /\ PasswordPutBack'
      BY <3>1, <3>2, <3>3 DEF RowsPutBack, PasswordPutBack
    <3> QED
      BY <3>2, <3>3, <3>4 DEF PutBack
  <2>10. ASSUME NEW b \in Browser, PortalStep(b)
         PROVE  PutBack'
    <3>1. CASE PortalOperation(b)
      <4>1. request[b].at \in {"rotate", "assign"} /\ request[b].key \in Nat
        BY <2>0, <3>1 DEF PortalOperation, PortalRequest, UserTypeOK
      <4> QED
        BY <2>1, <3>1, <4>1 DEF PortalOperation
    <3>2. CASE ChangePassword(b)
      <4>1. /\ keys' = keys /\ routed' = routed
            /\ op'.todo = op.todo /\ op'.kind = op.kind /\ op'.rolling = op.rolling
            /\ op'.keys = op.keys /\ op'.routed = op.routed
            /\ op'.intact => op.kind # "create" /\ op.intact
        BY <2>0, <3>2 DEF ChangePassword, Operation
      <4> QED
        BY <4>1 DEF PutBack, RowsPutBack, PasswordPutBack, RowsBack
    <3>3. CASE \/ LoginVerified(b) \/ CreateSession(b) \/ EndSession(b)
               \/ ChangeVerified(b) \/ AskRotation(b) \/ AskRoute(b)
      <4>1. UNCHANGED <<keys, routed, cred, op>>
        BY <3>3 DEF LoginVerified, CreateSession, EndSession, ChangeVerified, AskRotation,
             AskRoute
      <4> QED
        BY <4>1, SamePutBack
    <3> QED
      BY <2>10, <3>1, <3>2, <3>3 DEF PortalStep
  <2>11. CASE \/ ReadActiveUsers \/ LoadAuthSnapshot \/ GatewayRestart \/ Synchronize
              \/ ForeignPublish \/ UNCHANGED userVars
    <3>1. UNCHANGED <<keys, routed, cred, op>>
      BY <2>11 DEF ReadActiveUsers, LoadAuthSnapshot, GatewayRestart, Synchronize,
           EnsureInternalKeys, ForeignPublish, userVars
    <3> QED
      BY <3>1, SamePutBack
  <2> QED
    BY <2>2, <2>3, <2>4, <2>5, <2>6, <2>7, <2>8, <2>9, <2>10, <2>11 DEF UserNext, AdminStep
<1> QED
  BY <1>1, <1>2, UserTypes, PTL DEF UserSpec

\* What the last step of a rollback leaves, if it gives nothing up.
LEMMA LastStepOfRollback ==
  ASSUME UserBase, PutBack, [UserNext]_userVars, op.rolling, op.intact,
         Len(op.todo) = 1, op' = NoOp, published', projected'
  PROVE  /\ \A k \in DOMAIN keys :
               keys'[k] = IF k \in DOMAIN op.keys THEN op.keys[k] ELSE "deleted"
         /\ routed' = op.routed
         /\ op.kind = "create" => \/ cred' = op.cred
                                  \/ At("restore") /\ cred' = "initial"
<1> USE DEF storeVars, portalVars, planeVars, observers, bounds
<1>0. UserTypeOK /\ Stage /\ op \in Operation
  BY DEF UserBase, UserTypeOK
<1>1. Backward
  BY <1>0 DEF Stage, NoOp
<1>2. op.todo = P1 \/ (op.todo = B1 /\ op.kind = "create")
  <2>1. op.todo # U1
    BY DEF PutBack
  <2> QED
    BY <1>1, <2>1, Lengths DEF Backward
<1>3. op.kind = "create" => cred = op.cred \/ (op.todo = B1 /\ cred = "initial")
  <2>1. op.todo \notin {B8, R7}
    BY Lengths
  <2> QED
    BY <2>1 DEF PutBack, PasswordPutBack
<1>4. op.kind \notin {"none", "start"} /\ op # NoOp
  BY <1>1 DEF Backward, NoOp
<1>5. CASE op.todo = B1
  <2>1. At("restore") /\ \A s \in Step \ {"restore"} : ~At(s)
    BY <1>4, <1>5, Heads DEF At
  <2>2. ~StepRefused /\ ~StepFails /\ ~CredentialFailsLate
    BY <2>1 DEF StepRefused, StepFails, CredentialFailsLate, PasswordFailsLate, LeftUndone, Step
  <2>3. ~AdminCrash /\ ~WriteFailsLate /\ ~StartRefused
    BY <1>4, <2>1 DEF AdminCrash, WriteFailsLate, StartRefused, NoOp, Step
  <2>4. Restore
    <3>1. \A kind, key : ~Begin(kind, key)
      BY <1>4 DEF Begin
    <3>2. ~AdminRequest
      BY <3>1 DEF AdminRequest, CreateUser, RevokeUser, DeleteUser, ResetUserPassword,
           RotateUserKey
    <3>3. \A b \in Browser : ~PortalStep(b)
      <4>1. op'.kind # op.kind
        BY <1>4 DEF NoOp
      <4> QED
        BY <1>0, <3>1, <4>1 DEF PortalStep, LoginVerified, CreateSession, EndSession,
             ChangeVerified, ChangePassword, AskRotation, AskRoute, PortalOperation, Operation
    <3>4. ~(\/ ReadActiveUsers \/ LoadAuthSnapshot \/ GatewayRestart \/ Synchronize
            \/ ForeignPublish \/ UNCHANGED userVars)
      BY <1>4 DEF ReadActiveUsers, LoadAuthSnapshot, GatewayRestart, Synchronize,
           ForeignPublish, userVars
    <3>5. ~(\/ Apply \/ SetCredential \/ RestoreCredential \/ DeleteUserState
            \/ Sync \/ Render \/ VerifyUserKey \/ WriteFile \/ Activated
            \/ RestoreInternal)
      BY <2>1 DEF Apply, SetCredential, RestoreCredential, DeleteUserState, SetPassword,
           Sync, Render, VerifyUserKey, WriteFile, Activated, RestoreInternal, Step
    <3> QED
      BY <2>2, <2>3, <3>2, <3>3, <3>4, <3>5 DEF UserNext, AdminStep
  <2> QED
    BY <1>3, <2>1, <2>4, RestoredRows DEF Restore
<1>6. CASE op.todo = P1
  <2>1. At("wait") /\ \A s \in Step \ {"wait"} : ~At(s)
    BY <1>4, <1>6, Heads DEF At
  <2>2. RowsBack /\ routed = op.routed
    BY <1>6 DEF PutBack, RowsPutBack
  <2>3. UNCHANGED <<keys, routed>> /\ (op.kind = "create" => cred' = cred)
    <3>1. \A kind, key : ~Begin(kind, key)
      BY <1>4 DEF Begin
    <3>2. ~AdminRequest
      BY <3>1 DEF AdminRequest, CreateUser, RevokeUser, DeleteUser, ResetUserPassword,
           RotateUserKey
    <3>3. \A b \in Browser : ~PortalStep(b)
      <4>1. op'.kind # op.kind
        BY <1>4 DEF NoOp
      <4> QED
        BY <1>0, <3>1, <4>1 DEF PortalStep, LoginVerified, CreateSession, EndSession,
             ChangeVerified, ChangePassword, AskRotation, AskRoute, PortalOperation, Operation
    <3>4. ~(\/ Apply \/ SetCredential \/ RestoreCredential \/ DeleteUserState
            \/ Sync \/ Render \/ VerifyUserKey \/ WriteFile \/ Restore
            \/ RestoreInternal \/ CredentialFailsLate)
      BY <2>1 DEF Apply, SetCredential, RestoreCredential, DeleteUserState, SetPassword,
           Sync, Render, VerifyUserKey, WriteFile, Restore, RestoreInternal,
           CredentialFailsLate, PasswordFailsLate, Step
    <3>5. CASE \/ Activated \/ StepRefused \/ StepFails \/ WriteFailsLate \/ AdminCrash
               \/ StartRefused
      BY <3>5 DEF Activated, StepRefused, StepFails, WriteFailsLate, AdminCrash, StartRefused
    <3>6. CASE \/ ReadActiveUsers \/ LoadAuthSnapshot \/ GatewayRestart \/ Synchronize
               \/ ForeignPublish \/ UNCHANGED userVars
      BY <3>6 DEF ReadActiveUsers, LoadAuthSnapshot, GatewayRestart, Synchronize,
           EnsureInternalKeys, ForeignPublish, userVars
    <3> QED
      BY <3>2, <3>3, <3>4, <3>5, <3>6 DEF UserNext, AdminStep
  <2>4. op.todo # B1
    BY <1>6, Heads
  <2> QED
    BY <1>3, <2>2, <2>3, <2>4 DEF RowsBack
<1> QED
  BY <1>2, <1>5, <1>6

\* An operation that fails and takes all its steps back leaves the keys and the
\* route as they were, and the password unless SetCredential itself failed, which
\* may be after its commit (CreateUser, rollbackCreation, rollbackRevocation,
\* rollbackDeletion and the rollbacks of RotateUserKey and applyPlan).
THEOREM RollbacksAreExact == UserSpec => RolledBackExactly
<1>1. UserBase /\ PutBack /\ [UserNext]_userVars =>
        [op.rolling /\ op.intact /\ Len(op.todo) = 1 /\ op' = NoOp
           /\ published' /\ projected' =>
              /\ \A k \in DOMAIN keys :
                    keys'[k] = IF k \in DOMAIN op.keys THEN op.keys[k] ELSE "deleted"
              /\ routed' = op.routed
              /\ op.kind = "create" => \/ cred' = op.cred
                                       \/ At("restore") /\ cred' = "initial"]_userVars
  BY LastStepOfRollback
<1> QED
  BY <1>1, UserTypes, RollbackKeeps, PTL DEF UserSpec, RolledBackExactly

=============================================================================
