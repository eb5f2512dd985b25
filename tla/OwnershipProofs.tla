-------------------------- MODULE OwnershipProofs --------------------------
(***************************************************************************)
(* Proofs about Ownership, for every set of processes, scopes, owners and  *)
(* operators, every TTL and whatever the wall clock does.                  *)
(***************************************************************************)
EXTENDS Ownership, TLAPS

\* The type invariant is inductive: every lease operation writes a
\* well-formed row and every process step keeps its local copies well-typed.
THEOREM TypeCorrect == Spec => []TypeOK
<1>1. Init => TypeOK
  BY ConstantsAssumption
  DEF Init, TypeOK, Scopes, NoRow, LeaseRow, NoLease, LeaseId, IdleOp, OpState, Holder
<1>2. TypeOK /\ [Next]_vars => TypeOK'
  <2> SUFFICES ASSUME TypeOK, [Next]_vars PROVE TypeOK'
    OBVIOUS
  <2> USE ConstantsAssumption DEF TypeOK, Scopes, LeaseRow, LeaseId, Holder, procVars
  <2>1. ASSUME NEW p \in Proc, Join(p) PROVE TypeOK'
    BY <2>1 DEF Join, JoinLease, Renewed, IdOf
  <2>2. ASSUME NEW p \in Proc, Take(p) PROVE TypeOK'
    BY <2>2 DEF Take, TakeLease, TakenRow, IdOf
  <2>3. ASSUME NEW p \in Proc, TakeRefused(p) PROVE TypeOK'
    BY <2>3 DEF TakeRefused, Gone, NoLease
  <2>4. ASSUME NEW p \in Proc, HeartbeatRuntime(p) PROVE TypeOK'
    BY <2>4 DEF HeartbeatRuntime, RenewLease, Renewed
  <2>5. ASSUME NEW p \in Proc, HeartbeatWorker(p) PROVE TypeOK'
    BY <2>5 DEF HeartbeatWorker, RenewLease, Renewed
  <2>6. ASSUME NEW p \in Proc, HeartbeatLost(p) \/ HeartbeatTimeout(p) PROVE TypeOK'
    <3>1. CASE HeartbeatLost(p)
      <4>1. pc' \in [Proc -> {"down", "joined", "running", "stopping", "cancelled"}]
        BY <3>1 DEF HeartbeatLost, Cancel
      <4> QED
        BY <3>1, <4>1 DEF HeartbeatLost, Cancel
    <3>2. CASE HeartbeatTimeout(p)
      <4>1. pc' \in [Proc -> {"down", "joined", "running", "stopping", "cancelled"}]
        BY <3>2 DEF HeartbeatTimeout, Cancel
      <4> QED
        BY <3>2, <4>1 DEF HeartbeatTimeout, Cancel
    <3> QED
      BY <2>6, <3>1, <3>2
  <2>7. ASSUME NEW p \in Proc, WriteTransaction(p) PROVE TypeOK'
    BY <2>7 DEF WriteTransaction, Stamped
  <2>8. ASSUME NEW p \in Proc, BeginExternal(p) \/ FailExternal(p) PROVE TypeOK'
    BY <2>8 DEF BeginExternal, FailExternal
  <2>9. ASSUME NEW p \in Proc, CommitExternal(p) PROVE TypeOK'
    BY <2>9 DEF CommitExternal, Stamped
  <2>10. ASSUME NEW p \in Proc, OperationReturns(p) PROVE TypeOK'
    BY <2>10 DEF OperationReturns
  <2>11. ASSUME NEW p \in Proc, Release(p) PROVE TypeOK'
    BY <2>11 DEF Release, ReleaseLease, Released, Gone, NoLease
  <2>12. ASSUME NEW p \in Proc, ReleaseFails(p) PROVE TypeOK'
    BY <2>12 DEF ReleaseFails, Gone, NoLease
  <2>22. ASSUME NEW p \in Proc, Exit(p) PROVE TypeOK'
    BY <2>22 DEF Exit, Gone, NoLease
  <2>21. ASSUME NEW p \in Proc, Crash(p) PROVE TypeOK'
    <3>1. flock' \in Proc \cup {None}
      BY <2>21 DEF Crash
    <3> QED
      BY <2>21, <3>1 DEF Crash, Gone, NoLease
  <2>13. ASSUME NEW o \in Operator, ActivateRead(o) PROVE TypeOK'
    BY <2>13 DEF ActivateRead, OpState, IdOf
  <2>14. ASSUME NEW o \in Operator, NEW owner \in Owner, ActivateTake(o, owner) PROVE TypeOK'
    BY <2>14 DEF ActivateTake, TakeLease, TakenRow, OpState, IdleOp, NoLease
  <2>15. ASSUME NEW o \in Operator, NEW s \in Scopes, ReleaseRead(o, s) PROVE TypeOK'
    BY <2>15 DEF ReleaseRead, OpState, IdOf
  <2>16. ASSUME NEW o \in Operator, ReleaseExact(o) PROVE TypeOK'
    BY <2>16 DEF ReleaseExact, ReleaseLease, Released, OpState, IdleOp, NoLease
  <2>17. ASSUME NEW o \in Operator, OperatorQuits(o) PROVE TypeOK'
    BY <2>17 DEF OperatorQuits, OpState, IdleOp, NoLease
  <2>18. CASE Tick
    BY <2>18 DEF Tick
  <2>20. CASE StepBack
    <3>1. setBack' \in [Scopes -> BOOLEAN]
      BY <2>20, Zenon DEF StepBack
    <3> QED
      BY <2>20, <3>1 DEF StepBack
  <2>19. CASE UNCHANGED vars
    BY <2>19 DEF vars
  <2> QED
    BY <2>1, <2>2, <2>3, <2>4, <2>5, <2>6, <2>7, <2>8, <2>9, <2>10, <2>11, <2>12,
       <2>13, <2>14, <2>15, <2>16, <2>17, <2>18, <2>19, <2>20, <2>21, <2>22
    DEF Next, ProcNext, OperatorNext
<1> QED
  BY <1>1, <1>2, PTL DEF Spec

-----------------------------------------------------------------------------
(* The safety invariants are not inductive by themselves.  What carries     *)
(* them is that a process's copy of a worker lease is never ahead of the    *)
(* row and never shared with another process, and that the process that     *)
(* keeps the file lock still has both rows as it validated them.            *)

\* A process holds a worker lease exactly while it runs under the guard.
FencedWhileRunning ==
    \A p \in Proc : Fenced(p) <=> pc[p] \in {"running", "stopping", "cancelled"}

\* The file lock is kept across steps only by a running operation.
LockHolderRuns ==
    \A p \in Proc : flock = p => pc[p] \in {"running", "cancelled"}

\* No process has a generation the row has not reached.
CopiesNotAhead ==
    \A p \in Proc : wk[p].gen <= lease[ScopeOf[p]].gen

\* A generation of a worker scope is handed to one process only.
GenerationsUnique ==
    \A p, q \in Proc :
        p # q /\ ScopeOf[p] = ScopeOf[q] /\ wk[p].gen = wk[q].gen
        => wk[p].gen = 0

IInv ==
    /\ FencedWhileRunning
    /\ LockHolderRuns
    /\ CopiesNotAhead
    /\ GenerationsUnique
    /\ ExternalUnderItsLeases

\* Nobody runs and nothing is under way at the start.
LEMMA IInvInit == Init => IInv
BY ConstantsAssumption
DEF Init, IInv, FencedWhileRunning, Fenced, LockHolderRuns, CopiesNotAhead,
    GenerationsUnique, ExternalUnderItsLeases, NoLease, NoRow, Scopes

\* A step of an operator, the clock or a heartbeat, or the end of a write:
\* no process comes or goes, generations do not decrease, and the rows stay
\* as they are as long as a process keeps the file lock.
LEMMA IInvFrame ==
    ASSUME TypeOK, TypeOK', IInv,
           UNCHANGED <<pc, wk>>,
           flock' = flock \/ flock' = None,
           \A s \in Scopes : lease[s].gen <= lease'[s].gen,
           flock' # None => UNCHANGED <<lease, rt>>
    PROVE  IInv'
<1> USE ConstantsAssumption DEF TypeOK, IInv, Scopes
<1>1. FencedWhileRunning' /\ LockHolderRuns' /\ GenerationsUnique'
  BY DEF FencedWhileRunning, LockHolderRuns, GenerationsUnique, Fenced
<1>2. CopiesNotAhead'
  <2> SUFFICES ASSUME NEW q \in Proc
               PROVE  wk[q].gen <= lease'[ScopeOf[q]].gen
    BY DEF CopiesNotAhead
  <2>1. ScopeOf[q] \in Scopes
    OBVIOUS
  <2>2. wk[q].gen \in Nat /\ lease[ScopeOf[q]].gen \in Nat /\ lease'[ScopeOf[q]].gen \in Nat
    BY <2>1 DEF LeaseRow, LeaseId
  <2> QED
    BY <2>1, <2>2 DEF CopiesNotAhead
<1>3. ExternalUnderItsLeases'
  BY DEF ExternalUnderItsLeases, IdOf
<1> QED
  BY <1>1, <1>2, <1>3

\* What becomes of a process that ends, by itself or by a crash.
LEMMA IInvGone ==
    ASSUME TypeOK, TypeOK', IInv, NEW p \in Proc, Gone(p),
           flock' # p, flock' = flock \/ flock' = None,
           \A s \in Scopes : lease'[s].gen = lease[s].gen,
           \A s \in Scopes : flock # None /\ flock' = flock => lease'[s] = lease[s]
    PROVE  IInv'
<1> USE ConstantsAssumption DEF TypeOK, IInv, Scopes, Gone, NoLease
<1>1. FencedWhileRunning'
  BY DEF FencedWhileRunning, Fenced
<1>2. LockHolderRuns'
  BY DEF LockHolderRuns
<1>3. GenerationsUnique'
  <2>1. \A q \in Proc : wk'[q] = IF q = p THEN NoLease ELSE wk[q]
    OBVIOUS
  <2>2. NoLease.gen = 0
    OBVIOUS
  <2> QED
    BY <2>1, <2>2 DEF GenerationsUnique
<1>4. CopiesNotAhead'
  <2> SUFFICES ASSUME NEW q \in Proc
               PROVE  wk'[q].gen <= lease'[ScopeOf[q]].gen
    BY DEF CopiesNotAhead
  <2>1. ScopeOf[q] \in Scopes /\ lease'[ScopeOf[q]].gen = lease[ScopeOf[q]].gen
    OBVIOUS
  <2>2. lease[ScopeOf[q]].gen \in Nat
    BY <2>1 DEF LeaseRow
  <2>3. wk'[q] = IF q = p THEN NoLease ELSE wk[q]
    OBVIOUS
  <2> QED
    BY <2>1, <2>2, <2>3 DEF CopiesNotAhead
<1>5. ExternalUnderItsLeases'
  BY DEF ExternalUnderItsLeases, IdOf
<1> QED
  BY <1>1, <1>2, <1>3, <1>4, <1>5

\* A new worker lease has a generation no process has had in that scope.
LEMMA IInvTake ==
    ASSUME TypeOK, TypeOK', IInv, NEW p \in Proc, Take(p)
    PROVE  IInv'
<1> USE ConstantsAssumption DEF TypeOK, IInv, Scopes
<1> DEFINE sc == ScopeOf[p]
<1>1. /\ sc \in Scopes
      /\ lease[sc].gen \in Nat
      /\ lease'[sc].gen = lease[sc].gen + 1
      /\ \A s \in Scopes : s # sc => lease'[s] = lease[s]
      /\ wk'[p].gen = lease[sc].gen + 1
      /\ \A q \in Proc : q # p => wk'[q] = wk[q]
      /\ pc'[p] = "running"
      /\ \A q \in Proc : q # p => pc'[q] = pc[q]
      /\ flock' = None
  BY DEF Take, TakeLease, TakenRow, IdOf, LeaseRow, LockFree
<1>2. FencedWhileRunning'
  BY <1>1 DEF FencedWhileRunning, Fenced
<1>3. LockHolderRuns'
  BY <1>1 DEF LockHolderRuns
<1>4. CopiesNotAhead'
  <2> SUFFICES ASSUME NEW q \in Proc
               PROVE  wk'[q].gen <= lease'[ScopeOf[q]].gen
    BY DEF CopiesNotAhead
  <2>1. ScopeOf[q] \in Scopes /\ wk[q].gen \in Nat /\ lease[ScopeOf[q]].gen \in Nat
    BY DEF LeaseRow, LeaseId
  <2>2. CASE q = p
    BY <1>1, <2>1, <2>2
  <2>3. CASE q # p
    <3>1. wk'[q] = wk[q] /\ wk[q].gen <= lease[ScopeOf[q]].gen
      BY <1>1, <2>3 DEF CopiesNotAhead
    <3>2. CASE ScopeOf[q] = sc
      BY <1>1, <2>1, <3>1, <3>2
    <3>3. CASE ScopeOf[q] # sc
      BY <1>1, <2>1, <3>1, <3>3
    <3> QED
      BY <3>2, <3>3
  <2> QED
    BY <2>2, <2>3
<1>5. GenerationsUnique'
  <2> SUFFICES ASSUME NEW q \in Proc, NEW r \in Proc, q # r,
                      ScopeOf[q] = ScopeOf[r], wk'[q].gen = wk'[r].gen
               PROVE  wk'[q].gen = 0
    BY DEF GenerationsUnique
  <2>1. wk[q].gen \in Nat /\ wk[r].gen \in Nat
    BY DEF LeaseId
  <2>2. CASE q # p /\ r # p
    BY <1>1, <2>2 DEF GenerationsUnique
  <2>3. CASE q = p
    BY <1>1, <2>1, <2>3 DEF CopiesNotAhead
  <2>4. CASE r = p
    BY <1>1, <2>1, <2>4 DEF CopiesNotAhead
  <2> QED
    BY <2>2, <2>3, <2>4
<1>6. ExternalUnderItsLeases'
  BY <1>1 DEF ExternalUnderItsLeases
<1> QED
  BY <1>2, <1>3, <1>4, <1>5, <1>6

\* Every step preserves the invariant.
LEMMA IInvStep == TypeOK /\ TypeOK' /\ IInv /\ [Next]_vars => IInv'
<1> SUFFICES ASSUME TypeOK, TypeOK', IInv, [Next]_vars PROVE IInv'
  OBVIOUS
<1>g. \A s \in Scopes : lease[s].gen \in Nat
  BY DEF TypeOK, LeaseRow
<1>1. ASSUME NEW p \in Proc, Join(p) PROVE IInv'
  <2>1. /\ lease' = [lease EXCEPT ![RuntimeScope] = Renewed(lease[RuntimeScope])]
        /\ wk' = wk /\ pc[p] = "down" /\ pc' = [pc EXCEPT ![p] = "joined"]
        /\ flock' = None /\ flock = None
    BY <1>1 DEF Join, JoinLease, LockFree
  <2>2. \A s \in Scopes : lease'[s].gen = lease[s].gen
    BY <2>1 DEF Renewed, TypeOK, Scopes
  <2>3. FencedWhileRunning'
    BY <2>1 DEF IInv, FencedWhileRunning, Fenced, TypeOK
  <2>4. LockHolderRuns' /\ ExternalUnderItsLeases'
    BY <2>1, ConstantsAssumption DEF LockHolderRuns, ExternalUnderItsLeases
  <2>5. GenerationsUnique'
    BY <2>1 DEF IInv, GenerationsUnique
  <2>6. CopiesNotAhead'
    BY <2>1, <2>2, ConstantsAssumption DEF IInv, CopiesNotAhead, Scopes
  <2> QED
    BY <2>3, <2>4, <2>5, <2>6 DEF IInv
<1>2. ASSUME NEW p \in Proc, Take(p) PROVE IInv'
  BY <1>2, IInvTake
<1>3. ASSUME NEW p \in Proc, TakeRefused(p) PROVE IInv'
  BY <1>3, IInvGone, ConstantsAssumption DEF TakeRefused, LockFree
<1>4. ASSUME NEW p \in Proc, HeartbeatRuntime(p) PROVE IInv'
  <2>1. \A s \in Scopes : lease[s].gen <= lease'[s].gen
    BY <1>4, <1>g DEF HeartbeatRuntime, RenewLease, Renewed, TypeOK, Scopes
  <2> QED
    BY <1>4, <2>1, IInvFrame DEF HeartbeatRuntime, LockFree
<1>5. ASSUME NEW p \in Proc, HeartbeatWorker(p) PROVE IInv'
  <2>1. \A s \in Scopes : lease[s].gen <= lease'[s].gen
    BY <1>5, <1>g DEF HeartbeatWorker, RenewLease, Renewed, TypeOK, Scopes
  <2> QED
    BY <1>5, <2>1, IInvFrame DEF HeartbeatWorker, LockFree
<1>6. ASSUME NEW p \in Proc, HeartbeatLost(p) \/ HeartbeatTimeout(p) PROVE IInv'
  <2>1. /\ pc[p] \in {"running", "stopping"}
        /\ pc' = [pc EXCEPT ![p] = "cancelled"]
        /\ UNCHANGED <<lease, flock, rt, wk>>
    BY <1>6 DEF HeartbeatLost, HeartbeatTimeout, Cancel
  <2>2. FencedWhileRunning' /\ LockHolderRuns'
    BY <2>1 DEF IInv, TypeOK, FencedWhileRunning, Fenced, LockHolderRuns
  <2>3. CopiesNotAhead' /\ GenerationsUnique' /\ ExternalUnderItsLeases'
    BY <2>1 DEF IInv, CopiesNotAhead, GenerationsUnique, ExternalUnderItsLeases, IdOf
  <2> QED
    BY <2>2, <2>3 DEF IInv
<1>7. ASSUME NEW p \in Proc,
             WriteTransaction(p) \/ CommitExternal(p) \/ FailExternal(p)
      PROVE  IInv'
  BY <1>7, <1>g, IInvFrame DEF WriteTransaction, CommitExternal, FailExternal, procVars
<1>8. ASSUME NEW p \in Proc, BeginExternal(p) PROVE IInv'
  <2>1. /\ pc[p] \in {"running", "cancelled"}
        /\ FenceValid(p)
        /\ flock' = p
        /\ UNCHANGED <<lease, pc, rt, wk>>
    BY <1>8 DEF BeginExternal, procVars
  <2>2. Fenced(p)
    BY <2>1 DEF IInv, FencedWhileRunning
  <2>3. /\ IdOf(lease[RuntimeScope]) = rt[p]
        /\ IdOf(lease[ScopeOf[p]]) = wk[p]
        /\ lease[RuntimeScope].token # 0 /\ lease[ScopeOf[p]].token # 0
    BY <2>1, <2>2 DEF FenceValid, LeaseValid
  <2>4. rt[p].token # 0 /\ wk[p].token # 0
    BY <2>3 DEF IdOf
  <2>5. ExternalUnderItsLeases'
    BY <2>1, <2>3, <2>4 DEF ExternalUnderItsLeases, IdOf
  <2>6. LockHolderRuns'
    BY <2>1 DEF LockHolderRuns
  <2>7. FencedWhileRunning' /\ CopiesNotAhead' /\ GenerationsUnique'
    BY <2>1 DEF IInv, FencedWhileRunning, Fenced, CopiesNotAhead, GenerationsUnique
  <2> QED
    BY <2>5, <2>6, <2>7 DEF IInv
<1>9. ASSUME NEW p \in Proc, OperationReturns(p) PROVE IInv'
  <2>1. /\ pc[p] = "running" /\ flock # p
        /\ pc' = [pc EXCEPT ![p] = "stopping"]
        /\ UNCHANGED <<lease, flock, rt, wk>>
    BY <1>9 DEF OperationReturns
  <2>2. FencedWhileRunning' /\ LockHolderRuns'
    BY <2>1 DEF IInv, TypeOK, FencedWhileRunning, Fenced, LockHolderRuns
  <2>3. CopiesNotAhead' /\ GenerationsUnique' /\ ExternalUnderItsLeases'
    BY <2>1 DEF IInv, CopiesNotAhead, GenerationsUnique, ExternalUnderItsLeases, IdOf
  <2> QED
    BY <2>2, <2>3 DEF IInv
<1>10. ASSUME NEW p \in Proc, Release(p) PROVE IInv'
  <2>1. \A s \in Scopes : lease'[s].gen = lease[s].gen
    BY <1>10 DEF Release, ReleaseLease, Released, TypeOK, Scopes
  <2> QED
    BY <1>10, <2>1, IInvGone, ConstantsAssumption DEF Release, LockFree
<1>11. ASSUME NEW p \in Proc, ReleaseFails(p) PROVE IInv'
  <2>1. flock # p
    BY <1>11 DEF ReleaseFails, IInv, LockHolderRuns
  <2> QED
    BY <1>11, <2>1, IInvGone DEF ReleaseFails
<1>12. ASSUME NEW p \in Proc, Exit(p) PROVE IInv'
  BY <1>12, IInvGone DEF Exit
<1>13. ASSUME NEW p \in Proc, Crash(p) PROVE IInv'
  <2>1. flock' # p /\ (flock' = flock \/ flock' = None)
    BY <1>13, ConstantsAssumption DEF Crash
  <2> QED
    BY <1>13, <2>1, IInvGone DEF Crash
<1>14. ASSUME NEW o \in Operator, NEW owner \in Owner, ActivateTake(o, owner) PROVE IInv'
  <2>1. \A s \in Scopes : lease[s].gen <= lease'[s].gen
    BY <1>14, <1>g DEF ActivateTake, TakeLease, TakenRow, TypeOK, Scopes
  <2> QED
    BY <1>14, <2>1, IInvFrame DEF ActivateTake, LockFree, procVars
<1>15. ASSUME NEW o \in Operator, ReleaseExact(o) PROVE IInv'
  <2>1. \A s \in Scopes : lease[s].gen <= lease'[s].gen
    BY <1>15, <1>g DEF ReleaseExact, ReleaseLease, Released, TypeOK, OpState, Scopes
  <2> QED
    BY <1>15, <2>1, IInvFrame DEF ReleaseExact, LockFree, procVars
<1>16. ASSUME NEW o \in Operator,
              \/ ActivateRead(o) \/ OperatorQuits(o)
              \/ \E s \in Scopes : ReleaseRead(o, s)
       PROVE  IInv'
  BY <1>16, <1>g, IInvFrame DEF ActivateRead, ReleaseRead, OperatorQuits, procVars
<1>17. CASE Tick \/ StepBack
  BY <1>17, <1>g, IInvFrame DEF Tick, StepBack, procVars
<1>18. CASE UNCHANGED vars
  BY <1>18, <1>g, IInvFrame DEF vars
<1> QED
  BY <1>1, <1>2, <1>3, <1>4, <1>5, <1>6, <1>7, <1>8, <1>9, <1>10, <1>11, <1>12,
     <1>13, <1>14, <1>15, <1>16, <1>17, <1>18
  DEF Next, ProcNext, OperatorNext

\* The inductive invariant of the leases, the fence and the copies processes
\* hold of them (TakeLease, RenewLease, WithWriteFence).
THEOREM Invariance == Spec => [](TypeOK /\ IInv)
<1>1. Init => IInv
  BY IInvInit
<1>2. TypeOK /\ TypeOK' /\ IInv /\ [Next]_vars => IInv'
  BY IInvStep
<1> QED
  BY <1>1, <1>2, TypeCorrect, PTL DEF Spec

\* A mutation of another store under WithWriteFence runs to its end under the
\* leases it validated: ownership cannot be transferred or released meanwhile.
THEOREM ExternalSafe == Spec => []ExternalUnderItsLeases
<1>1. IInv => ExternalUnderItsLeases
  BY DEF IInv
<1> QED
  BY <1>1, Invariance, PTL

\* No two processes of one worker scope, and no two processes of different
\* activations of the runtime, can both have a write accepted.
THEOREM SingleWriterSafe == Spec => []SingleWriter
<1>1. ASSUME TypeOK, IInv PROVE SingleWriter
  <2> SUFFICES ASSUME NEW p \in Proc, NEW q \in Proc, p # q, MayWrite(p), MayWrite(q)
               PROVE  ScopeOf[p] # ScopeOf[q] /\ rt[p] = rt[q]
    BY DEF SingleWriter
  <2>1. ASSUME NEW r \in Proc, MayWrite(r)
        PROVE  /\ IdOf(lease[RuntimeScope]) = rt[r]
               /\ IdOf(lease[ScopeOf[r]]) = wk[r]
               /\ wk[r].gen > 0
    BY <1>1, <2>1 DEF IInv, MayWrite, Fenced, FenceValid, LeaseValid, ExternalUnderItsLeases
  <2>2. rt[p] = rt[q]
    BY <2>1
  <2>3. ScopeOf[p] = ScopeOf[q] => wk[p].gen = wk[q].gen
    BY <2>1
  <2> QED
    BY <1>1, <2>1, <2>2, <2>3 DEF IInv, GenerationsUnique
<1> QED
  BY <1>1, Invariance, PTL

-----------------------------------------------------------------------------
(* Refinement: the leases implement the abstract fenced store. *)

\* The abstract store starts where the leases do.
LEMMA RefinementInit == Init => FS!Init
<1> SUFFICES ASSUME Init PROVE FS!Init
  OBVIOUS
<1>1. \A s \in Scopes : lease[s].gen = 0 /\ lease[s].token = 0
  BY DEF Init, NoRow
<1>2. [s \in Scopes |-> lease[s].gen] = [s \in Scopes |-> 0]
  BY <1>1
<1>3. [s \in Scopes |-> lease[s].token # 0] = [s \in Scopes |-> FALSE]
  BY <1>1
<1> QED
  BY <1>2, <1>3 DEF FS!Init, Init, FS!Scopes, Scopes

\* A lease operation that keeps every generation and token is no step of the
\* abstract store.
LEMMA RefinementFrame ==
    ASSUME \A s \in Scopes : lease'[s].gen = lease[s].gen /\ lease'[s].token = lease[s].token,
           stamp' = stamp
    PROVE  UNCHANGED FS!vars
<1>1. [s \in Scopes |-> lease[s].gen]' = [s \in Scopes |-> lease[s].gen]
  OBVIOUS
<1>2. [s \in Scopes |-> lease[s].token # 0]' = [s \in Scopes |-> lease[s].token # 0]
  BY Zenon
<1> QED
  BY <1>1, <1>2 DEF FS!vars

\* TakeLease is Advance.
LEMMA RefinementTake ==
    ASSUME TypeOK, NEW s \in Scopes, NEW owner, TakeLease(s, owner), stamp' = stamp
    PROVE  FS!Advance(s)
<1>1. /\ lease'[s].gen = lease[s].gen + 1 /\ lease'[s].token # 0
      /\ \A t \in Scopes : t # s => lease'[t] = lease[t]
  BY DEF TypeOK, TakeLease, TakenRow
<1>2. [t \in Scopes |-> lease[t].gen]'
        = [[t \in Scopes |-> lease[t].gen] EXCEPT ![s] = @ + 1]
  BY <1>1
<1>3. [t \in Scopes |-> lease[t].token # 0]'
        = [[t \in Scopes |-> lease[t].token # 0] EXCEPT ![s] = TRUE]
  BY <1>1
<1> QED
  BY <1>2, <1>3 DEF FS!Advance

\* ReleaseLease is Release.
LEMMA RefinementRelease ==
    ASSUME TypeOK, NEW s \in Scopes, NEW held, ReleaseLease(s, held), stamp' = stamp
    PROVE  FS!Release(s)
<1>1. /\ lease[s].token # 0
      /\ lease'[s].token = 0 /\ lease'[s].gen = lease[s].gen
      /\ \A t \in Scopes : t # s => lease'[t] = lease[t]
  BY DEF TypeOK, ReleaseLease, CanRelease, IdOf, Released
<1>2. [t \in Scopes |-> lease[t].gen]' = [t \in Scopes |-> lease[t].gen]
  BY <1>1
<1>3. [t \in Scopes |-> lease[t].token # 0]'
        = [[t \in Scopes |-> lease[t].token # 0] EXCEPT ![s] = FALSE]
  BY <1>1
<1> QED
  BY <1>1, <1>2, <1>3 DEF FS!Release

\* An accepted write, in a transaction or outside, is Write.
LEMMA RefinementWrite ==
    ASSUME TypeOK, NEW p \in Proc, stamp' = Stamped(p), lease' = lease,
           IdOf(lease[RuntimeScope]) = rt[p], IdOf(lease[ScopeOf[p]]) = wk[p],
           rt[p].token # 0, wk[p].token # 0
    PROVE  FS!Write(ScopeOf[p])
<1>1. ScopeOf[p] \in WorkerScopes /\ ScopeOf[p] \in Scopes /\ RuntimeScope \in Scopes
  BY ConstantsAssumption DEF Scopes
<1>2. /\ lease[RuntimeScope].gen = rt[p].gen /\ lease[ScopeOf[p]].gen = wk[p].gen
      /\ lease[RuntimeScope].token # 0 /\ lease[ScopeOf[p]].token # 0
  BY DEF IdOf
<1> QED
  BY <1>1, <1>2 DEF FS!Write, Stamped, TypeOK

\* The leases, the guard and the operator command together implement the
\* abstract store: whatever the processes, the operators and the clock do,
\* a write is accepted only from the newest, unreleased generations.
THEOREM Refinement == Spec => ImplementsFencedStore
<1>1. Init => FS!Init
  BY RefinementInit
<1>2. TypeOK /\ IInv /\ [Next]_vars => [FS!Next]_(FS!vars)
  <2> SUFFICES ASSUME TypeOK, IInv, [Next]_vars PROVE [FS!Next]_(FS!vars)
    OBVIOUS
  <2>s. /\ RuntimeScope \in Scopes
        /\ \A p \in Proc : ScopeOf[p] \in WorkerScopes /\ ScopeOf[p] \in Scopes
        /\ FS!Scopes = Scopes
    BY ConstantsAssumption DEF Scopes, FS!Scopes
  <2>1. ASSUME NEW p \in Proc, Join(p) PROVE UNCHANGED FS!vars
    BY <2>1, <2>s, RefinementFrame DEF Join, JoinLease, Renewed, TypeOK
  <2>2. ASSUME NEW p \in Proc, Take(p) PROVE FS!Next
    BY <2>2, <2>s, RefinementTake DEF Take, FS!Next
  <2>3. ASSUME NEW p \in Proc, HeartbeatRuntime(p) PROVE UNCHANGED FS!vars
    BY <2>3, <2>s, RefinementFrame DEF HeartbeatRuntime, RenewLease, Renewed, TypeOK
  <2>4. ASSUME NEW p \in Proc, HeartbeatWorker(p) PROVE UNCHANGED FS!vars
    BY <2>4, <2>s, RefinementFrame DEF HeartbeatWorker, RenewLease, Renewed, TypeOK
  <2>5. ASSUME NEW p \in Proc, WriteTransaction(p) PROVE FS!Next
    <3>1. Fenced(p) /\ FenceValid(p)
      BY <2>5 DEF WriteTransaction, IInv, FencedWhileRunning
    <3>2. /\ IdOf(lease[RuntimeScope]) = rt[p] /\ IdOf(lease[ScopeOf[p]]) = wk[p]
          /\ rt[p].token # 0 /\ wk[p].token # 0
      BY <3>1 DEF FenceValid, LeaseValid, IdOf
    <3> QED
      BY <2>5, <2>s, <3>2, RefinementWrite DEF WriteTransaction, FS!Next
  <2>6. ASSUME NEW p \in Proc, CommitExternal(p) PROVE FS!Next
    BY <2>6, <2>s, RefinementWrite DEF CommitExternal, IInv, ExternalUnderItsLeases, FS!Next
  <2>7. ASSUME NEW p \in Proc, Release(p) PROVE FS!Next
    BY <2>7, <2>s, RefinementRelease DEF Release, FS!Next
  <2>8. ASSUME NEW o \in Operator, NEW owner \in Owner, ActivateTake(o, owner) PROVE FS!Next
    BY <2>8, <2>s, RefinementTake DEF ActivateTake, FS!Next
  <2>9. ASSUME NEW o \in Operator, ReleaseExact(o) PROVE FS!Next
    <3>1. op[o].scope \in Scopes
      BY DEF TypeOK, OpState
    <3> QED
      BY <2>9, <2>s, <3>1, RefinementRelease DEF ReleaseExact, FS!Next
  <2>10. ASSUME lease' = lease, stamp' = stamp PROVE UNCHANGED FS!vars
    BY <2>10, RefinementFrame
  <2>11. ASSUME NEW p \in Proc,
                \/ TakeRefused(p) \/ HeartbeatLost(p) \/ HeartbeatTimeout(p)
                \/ BeginExternal(p) \/ FailExternal(p) \/ OperationReturns(p)
                \/ ReleaseFails(p) \/ Exit(p) \/ Crash(p)
         PROVE  lease' = lease /\ stamp' = stamp
    BY <2>11 DEF TakeRefused, HeartbeatLost, HeartbeatTimeout, Cancel, BeginExternal,
                 FailExternal, OperationReturns, ReleaseFails, Exit, Crash
  <2>12. ASSUME NEW o \in Operator,
                \/ ActivateRead(o) \/ OperatorQuits(o)
                \/ \E s \in Scopes : ReleaseRead(o, s)
         PROVE  lease' = lease /\ stamp' = stamp
    BY <2>12 DEF ActivateRead, OperatorQuits, ReleaseRead
  <2>13. CASE Tick \/ StepBack \/ UNCHANGED vars
    <3>1. lease' = lease /\ stamp' = stamp
      BY <2>13 DEF Tick, StepBack, vars
    <3> QED
      BY <3>1, <2>10
  <2> QED
    BY <2>1, <2>2, <2>3, <2>4, <2>5, <2>6, <2>7, <2>8, <2>9, <2>10, <2>11, <2>12, <2>13
    DEF Next, ProcNext, OperatorNext
<1> QED
  BY <1>1, <1>2, Invariance, PTL DEF Spec, ImplementsFencedStore, FS!Spec

-----------------------------------------------------------------------------
(* Rows that can be read *)

\* The times of a row are in the order readLease asks for, or the clock was
\* set back behind its acquisition; until then the acquisition is not ahead
\* of the clock, which is what the next renewal or release relies on.
RowTimes(s) ==
    Found(s) => /\ 1 <= lease[s].acquired
                /\ lease[s].renewed <= lease[s].expires
                /\ setBack[s] \/ lease[s].acquired <= lease[s].renewed
                /\ setBack[s] \/ lease[s].acquired <= now

TimesOrdered == now >= 1 /\ \A s \in Scopes : RowTimes(s)

\* Whatever the wall clock does, a row readLease refuses (as it then does in
\* every later operation on the scope) was renewed or released while the
\* clock was set back behind its acquisition: no order of takes, joins,
\* renewals and releases by itself leaves one.
THEOREM RowsReadable == Spec => []RowsStayReadable
<1> USE ConstantsAssumption
<1>1. Init => TimesOrdered
  BY DEF Init, TimesOrdered, RowTimes, Found, NoRow
<1>2. TypeOK /\ TimesOrdered /\ [Next]_vars => TimesOrdered'
  <2> SUFFICES ASSUME TypeOK, TimesOrdered, [Next]_vars PROVE TimesOrdered'
    OBVIOUS
  <2>0. /\ now \in Nat /\ now >= 1
        /\ \A s \in Scopes : lease[s] \in LeaseRow
        /\ lease \in [Scopes -> LeaseRow]
        /\ setBack \in [Scopes -> BOOLEAN]
    BY DEF TypeOK, TimesOrdered
  <2>s. RuntimeScope \in Scopes /\ \A p \in Proc : ScopeOf[p] \in Scopes
    BY DEF Scopes
  <2>f. ASSUME NEW s \in Scopes, lease'[s] = lease[s], setBack'[s] = setBack[s], now' = now
        PROVE  RowTimes(s)'
    BY <2>f DEF TimesOrdered, RowTimes, Found
  \* A row taken at the present time.
  <2>t. ASSUME NEW s \in Scopes, NEW o, TakeLease(s, o), now' = now
        PROVE  TimesOrdered'
    <3>1. lease'[s] = TakenRow(s, o) /\ setBack'[s] = FALSE
      BY <2>t, <2>0 DEF TakeLease
    <3>2. RowTimes(s)'
      BY <3>1, <2>t, <2>0 DEF RowTimes, TakenRow
    <3>3. ASSUME NEW u \in Scopes, u # s PROVE RowTimes(u)'
      <4>1. lease'[u] = lease[u] /\ setBack'[u] = setBack[u]
        BY <2>t, <2>0, <3>3 DEF TakeLease
      <4> QED
        BY <2>f, <2>t, <4>1
    <3> QED
      BY <2>t, <2>0, <3>2, <3>3 DEF TimesOrdered
  \* A row renewed or released at the present time.
  <2>w. ASSUME NEW s \in Scopes, Found(s),
               NEW row \in {Renewed(lease[s]), Released(lease[s])},
               lease' = [lease EXCEPT ![s] = row], now' = now, setBack' = setBack
        PROVE  TimesOrdered'
    <3>1. lease'[s].acquired = lease[s].acquired /\ lease'[s].renewed = now
          /\ lease'[s].expires \in {now, now + TTL}
      BY <2>w, <2>0 DEF Renewed, Released
    <3>2. RowTimes(s)'
      BY <3>1, <2>w, <2>0 DEF TimesOrdered, RowTimes, LeaseRow
    <3>3. ASSUME NEW u \in Scopes, u # s PROVE RowTimes(u)'
      BY <2>f, <2>w, <2>0, <3>3
    <3> QED
      BY <2>w, <2>0, <3>2, <3>3 DEF TimesOrdered
  <2>1. ASSUME NEW p \in Proc, Join(p) PROVE TimesOrdered'
    BY <2>1, <2>s, <2>w DEF Join, JoinLease, CanJoin, Active
  <2>2. ASSUME NEW p \in Proc, Take(p) PROVE TimesOrdered'
    BY <2>2, <2>s, <2>t DEF Take
  <2>3. ASSUME NEW p \in Proc, HeartbeatRuntime(p) \/ HeartbeatWorker(p) PROVE TimesOrdered'
    BY <2>3, <2>s, <2>w DEF HeartbeatRuntime, HeartbeatWorker, RenewLease, CanRenew, Active
  <2>4. ASSUME NEW s \in Scopes, NEW held, ReleaseLease(s, held), now' = now
        PROVE  TimesOrdered'
    <3>1. CASE Found(s)
      BY <2>4, <2>w, <3>1 DEF ReleaseLease
    <3>2. CASE ~Found(s)
      <4>1. ~Found(s)' /\ setBack' = setBack
        BY <2>4, <2>0, <3>2 DEF ReleaseLease, Released, Found
      <4>2. ASSUME NEW u \in Scopes, u # s PROVE RowTimes(u)'
        BY <2>f, <2>4, <2>0, <4>2 DEF ReleaseLease
      <4> QED
        BY <2>4, <2>0, <4>1, <4>2 DEF TimesOrdered, RowTimes
    <3> QED
      BY <3>1, <3>2
  <2>5. ASSUME NEW p \in Proc, Release(p) PROVE TimesOrdered'
    BY <2>5, <2>s, <2>4 DEF Release
  <2>6. ASSUME NEW o \in Operator, NEW owner \in Owner, ActivateTake(o, owner) PROVE TimesOrdered'
    BY <2>6, <2>s, <2>t DEF ActivateTake
  <2>7. ASSUME NEW o \in Operator, ReleaseExact(o) PROVE TimesOrdered'
    <3>1. op[o].scope \in Scopes
      BY DEF TypeOK, OpState
    <3> QED
      BY <2>7, <3>1, <2>4 DEF ReleaseExact
  <2>8. ASSUME lease' = lease, now' = now, setBack' = setBack PROVE TimesOrdered'
    BY <2>8, <2>0, <2>f DEF TimesOrdered
  <2>9. ASSUME NEW p \in Proc,
               \/ TakeRefused(p) \/ HeartbeatLost(p) \/ HeartbeatTimeout(p)
               \/ WriteTransaction(p) \/ BeginExternal(p) \/ CommitExternal(p)
               \/ FailExternal(p) \/ OperationReturns(p)
               \/ ReleaseFails(p) \/ Exit(p) \/ Crash(p)
        PROVE  lease' = lease /\ now' = now /\ setBack' = setBack
    BY <2>9 DEF TakeRefused, HeartbeatLost, HeartbeatTimeout, Cancel, WriteTransaction,
                BeginExternal, CommitExternal, FailExternal, OperationReturns,
                ReleaseFails, Exit, Crash
  <2>10. ASSUME NEW o \in Operator,
               \/ ActivateRead(o) \/ OperatorQuits(o)
               \/ \E s \in Scopes : ReleaseRead(o, s)
        PROVE  lease' = lease /\ now' = now /\ setBack' = setBack
    BY <2>10 DEF ActivateRead, OperatorQuits, ReleaseRead
  <2>11. CASE Tick
    <3>1. now' = now + 1 /\ lease' = lease /\ setBack' = setBack
      BY <2>11 DEF Tick
    <3>2. ASSUME NEW s \in Scopes PROVE RowTimes(s)'
      BY <2>0, <3>1 DEF TimesOrdered, RowTimes, Found, LeaseRow
    <3> QED
      BY <2>0, <3>1, <3>2 DEF TimesOrdered
  <2>12. CASE StepBack
    <3>1. now' \in Nat /\ now' >= 1 /\ lease' = lease
      BY <2>12 DEF StepBack
    <3>2. ASSUME NEW s \in Scopes PROVE RowTimes(s)'
      <4>1. setBack'[s] = (setBack[s] \/ now' < lease[s].acquired)
        BY <2>12 DEF StepBack
      <4>2. lease[s].acquired \in Nat
        BY <2>0 DEF LeaseRow
      <4>3. CASE setBack[s] \/ now' < lease[s].acquired
        <5>1. setBack'[s]
          BY <4>1, <4>3
        <5> QED
          BY <3>1, <5>1 DEF TimesOrdered, RowTimes, Found
      <4>4. CASE ~setBack[s] /\ lease[s].acquired <= now'
        BY <3>1, <4>4 DEF TimesOrdered, RowTimes, Found
      <4> QED
        BY <3>1, <4>2, <4>3, <4>4
    <3> QED
      BY <3>1, <3>2 DEF TimesOrdered
  <2>13. CASE UNCHANGED vars
    BY <2>13, <2>8 DEF vars
  <2> QED
    BY <2>1, <2>2, <2>3, <2>5, <2>6, <2>7, <2>8, <2>9, <2>10, <2>11, <2>12, <2>13
    DEF Next, ProcNext, OperatorNext
<1>3. TypeOK /\ TimesOrdered => RowsStayReadable
  BY DEF TypeOK, TimesOrdered, RowTimes, RowsStayReadable, Readable, LeaseRow, Found
<1> QED
  BY <1>1, <1>2, <1>3, TypeCorrect, PTL DEF Spec
=============================================================================
