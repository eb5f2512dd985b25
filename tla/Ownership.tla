----------------------------- MODULE Ownership -----------------------------
(***************************************************************************)
(* Runtime ownership of a codex-cpa root: the lease rows that live in      *)
(* control-plane.sqlite3 (internal/controlplane/lease.go), the guard every *)
(* worker process runs under (internal/ownership/guard.go) and the         *)
(* operator command that transfers ownership (cmd/ownership/main.go).      *)
(*                                                                         *)
(* One lease row is shared by the whole runtime (RuntimeScope); every      *)
(* worker scope (admin, collector, failover ...) has a row of its own.  A  *)
(* worker joins the runtime lease, takes its worker lease, installs both   *)
(* as its write fence and renews them from a heartbeat.  Every mutation    *)
(* happens under one cross-process file lock (store.exclusive): a          *)
(* transaction holds it for one atomic step, WithWriteFence keeps it while *)
(* a mutation of another store is under way.                               *)
(***************************************************************************)
EXTENDS Integers

CONSTANTS
    Proc,           \* process slots; a slot restarts as a new process
    WorkerScopes,   \* the worker lease scopes
    RuntimeScope,   \* ownership.RuntimeScope
    ScopeOf,        \* the worker scope of every process slot
    Owner,          \* runtime owner labels
    OwnerOf,        \* the runtime owner every process slot is configured with
    Operator,       \* concurrent invocations of cmd/ownership
    TTL,            \* lease time to live, in clock units
    MaxTime,        \* bound on the clock
    MaxGen,         \* bound on the generation of a lease
    None            \* no process

ASSUME ConstantsAssumption ==
    /\ RuntimeScope \notin WorkerScopes
    /\ ScopeOf \in [Proc -> WorkerScopes]
    /\ OwnerOf \in [Proc -> Owner]
    /\ Proc \cap Owner = {}
    /\ TTL \in Nat \ {0}
    /\ MaxTime \in Nat /\ MaxGen \in Nat
    /\ None \notin Proc /\ None \notin Owner

VARIABLES
    now,      \* store.now().Unix(), shared by every process of the host
    lease,    \* the runtime_state row of every scope
    minted,   \* how many lease tokens newLeaseToken has handed out
    flock,    \* the process holding the file lock across steps, or None
    pc,       \* where every process is in ownership.Run
    hb,       \* where its heartbeat goroutine is
    rt,       \* its copy of the runtime lease (first half of its fence)
    wk,       \* its copy of the worker lease (second half of its fence)
    op,       \* every operator invocation and the row it has read
    stamp,    \* observer: generations the last accepted writes were made under
    setBack   \* observer: the clock was set back behind the acquisition

vars == <<now, lease, minted, flock, pc, hb, rt, wk, op, stamp, setBack>>
procVars == <<pc, hb, rt, wk>>

Scopes == WorkerScopes \cup {RuntimeScope}
Holder == Proc \cup Owner

-----------------------------------------------------------------------------
(* Lease rows.  Generation 0 is "no row"; token 0 is the empty token of a   *)
(* released lease, any other token is unique (32 random bytes).  A worker   *)
(* lease is owned by the process itself: NewProcessOwner makes the label    *)
(* unique per start; the model keeps one label per slot, which tells less   *)
(* apart than the code does.                                                *)

LeaseRow == [owner : Holder \cup {None}, gen : Nat, token : Nat,
             acquired : Nat, renewed : Nat, expires : Nat]
LeaseId == [owner : Holder \cup {None}, gen : Nat, token : Nat]

NoRow == [owner |-> None, gen |-> 0, token |-> 0,
          acquired |-> 0, renewed |-> 0, expires |-> 0]
NoLease == [owner |-> None, gen |-> 0, token |-> 0]

IdOf(row) == [owner |-> row.owner, gen |-> row.gen, token |-> row.token]

Found(s) == lease[s].gen > 0
Active(s) == Found(s) /\ lease[s].expires > now

\* readLease refuses a row whose timestamps are out of order.
Readable(s) ==
    Found(s) => /\ lease[s].acquired >= 1
                /\ lease[s].renewed >= lease[s].acquired
                /\ lease[s].expires >= lease[s].renewed

\* Mutant: the identity of the row is not compared with the fence.
LeaseValidAnyHolder(s, held) ==
    Readable(s) /\ Active(s) /\ lease[s].token # 0

\* validateWriteFence for one expected lease.
LeaseValid(s, held) ==
    /\ Readable(s)
    /\ Active(s)
    /\ lease[s].token # 0
    /\ IdOf(lease[s]) = held

Fenced(p) == wk[p].gen > 0

\* Mutant: only the worker lease is validated.
FenceValidWorkerOnly(p) == Fenced(p) => LeaseValid(ScopeOf[p], wk[p])

\* validateWriteFence: no fence installed means no check.
FenceValid(p) ==
    Fenced(p) => /\ LeaseValid(RuntimeScope, rt[p])
                 /\ LeaseValid(ScopeOf[p], wk[p])

\* The row TakeLease writes.
TakenRow(s, owner) ==
    [owner |-> owner, gen |-> lease[s].gen + 1, token |-> minted + 1,
     acquired |-> now, renewed |-> now, expires |-> now + TTL]

CanTake(s) == Readable(s) /\ ~Active(s)

TakeLease(s, owner) ==
    /\ CanTake(s)
    /\ lease[s].gen < MaxGen
    /\ lease' = [lease EXCEPT ![s] = TakenRow(s, owner)]
    /\ minted' = minted + 1
    /\ setBack' = [setBack EXCEPT ![s] = FALSE]

CanJoin(s, owner) ==
    /\ Readable(s)
    /\ Active(s)
    /\ lease[s].token # 0
    /\ lease[s].owner = owner

Renewed(row) ==
    [owner |-> row.owner, gen |-> row.gen, token |-> row.token,
     acquired |-> row.acquired, renewed |-> now, expires |-> now + TTL]

JoinLease(s, owner) ==
    /\ CanJoin(s, owner)
    /\ lease' = [lease EXCEPT ![s] = Renewed(@)]
    /\ UNCHANGED <<minted, setBack>>

CanRenew(s, held) ==
    /\ Readable(s)
    /\ Active(s)
    /\ IdOf(lease[s]) = held

RenewLease(s, held) ==
    /\ CanRenew(s, held)
    /\ lease' = [lease EXCEPT ![s] = Renewed(@)]
    /\ UNCHANGED <<minted, setBack>>

\* ReleaseLease does not look at the expiry, only at the identity.
CanRelease(s, held) ==
    /\ held.token # 0
    /\ Readable(s)
    /\ IdOf(lease[s]) = held

\* Mutant: a release leaves a NULL token.
ReleasedNull(row) ==
    [row EXCEPT !.token = None, !.renewed = now, !.expires = now]

\* Mutant: a release clears the expiry.
ReleasedCleared(row) ==
    [row EXCEPT !.token = 0, !.renewed = now, !.expires = 0]

\* The generation stays, so that the next holder gets a larger one.
Released(row) ==
    [owner |-> row.owner, gen |-> row.gen, token |-> 0,
     acquired |-> row.acquired, renewed |-> now, expires |-> now]

ReleaseLease(s, held) ==
    /\ CanRelease(s, held)
    /\ lease' = [lease EXCEPT ![s] = Released(@)]
    /\ UNCHANGED <<minted, setBack>>

-----------------------------------------------------------------------------
(* A worker process: ownership.Run.  Each lease operation is one            *)
(* transaction under the file lock, so it needs the lock to be free.        *)

\* Mutant: WithWriteFence validates without taking the file lock.
NoFileLock == TRUE

LockFree == flock = None

\* The process is gone: its memory is lost and the kernel drops its flock.
Gone(p) ==
    /\ pc' = [pc EXCEPT ![p] = "down"]
    /\ hb' = [hb EXCEPT ![p] = "idle"]
    /\ rt' = [rt EXCEPT ![p] = NoLease]
    /\ wk' = [wk EXCEPT ![p] = NoLease]

Join(p) ==
    /\ pc[p] = "down"
    /\ LockFree
    /\ JoinLease(RuntimeScope, OwnerOf[p])
    /\ rt' = [rt EXCEPT ![p] = IdOf(lease[RuntimeScope])]
    /\ pc' = [pc EXCEPT ![p] = "joined"]
    /\ UNCHANGED <<now, flock, hb, wk, op, stamp>>

\* TakeLease of the worker scope; the fence is installed right after it,
\* before anything else can be written through this store.
Take(p) ==
    /\ pc[p] = "joined"
    /\ LockFree
    /\ TakeLease(ScopeOf[p], p)
    /\ wk' = [wk EXCEPT ![p] = IdOf(TakenRow(ScopeOf[p], p))]
    /\ pc' = [pc EXCEPT ![p] = "running"]
    /\ UNCHANGED <<now, flock, hb, rt, op, stamp>>

TakeRefused(p) ==
    /\ pc[p] = "joined"
    /\ LockFree
    /\ ~CanTake(ScopeOf[p])
    /\ Gone(p)
    /\ UNCHANGED <<now, lease, minted, flock, op, stamp, setBack>>

\* The heartbeat renews the runtime lease first.  RenewLease is itself a
\* fenced transaction: both leases must still be valid.
HeartbeatRuntime(p) ==
    /\ pc[p] \in {"running", "stopping"}
    /\ hb[p] = "idle"
    /\ LockFree
    /\ FenceValid(p)
    /\ RenewLease(RuntimeScope, rt[p])
    /\ hb' = [hb EXCEPT ![p] = "runtime_renewed"]
    /\ UNCHANGED <<now, flock, pc, rt, wk, op, stamp>>

HeartbeatWorker(p) ==
    /\ pc[p] \in {"running", "stopping"}
    /\ hb[p] = "runtime_renewed"
    /\ LockFree
    /\ FenceValid(p)
    /\ RenewLease(ScopeOf[p], wk[p])
    /\ hb' = [hb EXCEPT ![p] = "idle"]
    /\ UNCHANGED <<now, flock, pc, rt, wk, op, stamp>>

\* Mutant: a failed renewal is only logged.
KeepRunning(p) == UNCHANGED vars

\* A failed renewal cancels the fence context and the operation.
Cancel(p) ==
    /\ pc' = [pc EXCEPT ![p] = "cancelled"]
    /\ UNCHANGED <<now, lease, minted, flock, hb, rt, wk, op, stamp, setBack>>

HeartbeatLost(p) ==
    /\ pc[p] \in {"running", "stopping"}
    /\ LockFree
    /\ ~FenceValid(p)
    /\ Cancel(p)

\* The renewal runs under a context of RenewInterval: a database error, or
\* another process keeping the file lock that long, fails it as well.
HeartbeatTimeout(p) ==
    /\ pc[p] \in {"running", "stopping"}
    /\ Cancel(p)

\* The observer records the generations an accepted write was made under.
Stamped(p) ==
    [rt |-> rt[p].gen,
     wk |-> [stamp.wk EXCEPT ![ScopeOf[p]] = wk[p].gen],
     flip |-> ~stamp.flip]

\* writeTransaction: validation and mutation in one transaction.  Work the
\* operation still has in hand after the cancellation may try to write too.
WriteTransaction(p) ==
    /\ pc[p] \in {"running", "cancelled"}
    /\ LockFree
    /\ FenceValid(p)
    /\ stamp' = Stamped(p)
    /\ UNCHANGED <<now, lease, minted, flock, procVars, op, setBack>>

\* WithWriteFence: validate, keep the file lock, then mutate another store
\* (usage.sqlite3, a snapshot file, a webhook) in a later step.
BeginExternal(p) ==
    /\ pc[p] \in {"running", "cancelled"}
    /\ LockFree
    /\ FenceValid(p)
    /\ flock' = p
    /\ UNCHANGED <<now, lease, minted, procVars, op, stamp, setBack>>

CommitExternal(p) ==
    /\ flock = p
    /\ stamp' = Stamped(p)
    /\ flock' = None
    /\ UNCHANGED <<now, lease, minted, procVars, op, setBack>>

FailExternal(p) ==
    /\ flock = p
    /\ flock' = None
    /\ UNCHANGED <<now, lease, minted, procVars, op, stamp, setBack>>

\* The operation returns: stop the heartbeat, then release the worker lease.
OperationReturns(p) ==
    /\ pc[p] = "running"
    /\ flock # p
    /\ pc' = [pc EXCEPT ![p] = "stopping"]
    /\ UNCHANGED <<now, lease, minted, flock, hb, rt, wk, op, stamp, setBack>>

\* ReleaseLease of the worker lease, a fenced transaction like any other.
Release(p) ==
    /\ pc[p] = "stopping"
    /\ hb[p] = "idle"
    /\ LockFree
    /\ FenceValid(p)
    /\ ReleaseLease(ScopeOf[p], wk[p])
    /\ Gone(p)
    /\ UNCHANGED <<now, flock, op, stamp>>

\* The release is refused or times out: the row stays until it expires.
ReleaseFails(p) ==
    /\ pc[p] = "stopping"
    /\ hb[p] = "idle"
    /\ Gone(p)
    /\ UNCHANGED <<now, lease, minted, flock, op, stamp, setBack>>

\* After a heartbeat error Run returns without releasing anything.
Exit(p) ==
    /\ pc[p] = "cancelled"
    /\ flock # p
    /\ Gone(p)
    /\ UNCHANGED <<now, lease, minted, flock, op, stamp, setBack>>

Crash(p) ==
    /\ pc[p] # "down"
    /\ flock' = IF flock = p THEN None ELSE flock
    /\ Gone(p)
    /\ UNCHANGED <<now, lease, minted, op, stamp, setBack>>

-----------------------------------------------------------------------------
(* The operator command: it reads the row without the lock, compares it     *)
(* with the flags, then opens the store and runs one lease transaction.     *)

OpState == [state : {"idle", "activate", "release"}, scope : Scopes,
            seen : LeaseId]
IdleOp == [state |-> "idle", scope |-> RuntimeScope, seen |-> NoLease]

\* runActivate up to the store: an empty history needs the bootstrap
\* confirmation, an expired row must be the one the flags name.
ActivateRead(o) ==
    /\ op[o].state = "idle"
    /\ Readable(RuntimeScope)
    /\ ~Active(RuntimeScope)
    /\ op' = [op EXCEPT ![o] = [state |-> "activate", scope |-> RuntimeScope,
                                seen |-> IdOf(lease[RuntimeScope])]]
    /\ UNCHANGED <<now, lease, minted, flock, procVars, stamp, setBack>>

\* The rest of runActivate: TakeLease, which checks the expiry only.
ActivateTake(o, owner) ==
    /\ op[o].state = "activate"
    /\ LockFree
    /\ TakeLease(RuntimeScope, owner)
    /\ op' = [op EXCEPT ![o] = IdleOp]
    /\ UNCHANGED <<now, flock, procVars, stamp>>

\* runRelease: the flags must name the owner and the generation just read.
ReleaseRead(o, s) ==
    /\ op[o].state = "idle"
    /\ Readable(s)
    /\ Found(s)
    /\ op' = [op EXCEPT ![o] = [state |-> "release", scope |-> s,
                                seen |-> IdOf(lease[s])]]
    /\ UNCHANGED <<now, lease, minted, flock, procVars, stamp, setBack>>

ReleaseExact(o) ==
    /\ op[o].state = "release"
    /\ LockFree
    /\ ReleaseLease(op[o].scope, op[o].seen)
    /\ op' = [op EXCEPT ![o] = IdleOp]
    /\ UNCHANGED <<now, flock, procVars, stamp>>

\* The lease operation is refused, or the operator gives up.
OperatorQuits(o) ==
    /\ op[o].state # "idle"
    /\ op' = [op EXCEPT ![o] = IdleOp]
    /\ UNCHANGED <<now, lease, minted, flock, procVars, stamp, setBack>>

-----------------------------------------------------------------------------
(* The wall clock of the host. *)

Tick ==
    /\ now < MaxTime
    /\ now' = now + 1
    /\ UNCHANGED <<lease, minted, flock, procVars, op, stamp, setBack>>

\* time.Now().Unix() follows the host's clock when it is set back.
StepBack ==
    /\ now' \in {t \in 1..MaxTime : t < now}
    /\ setBack' = [s \in Scopes |-> setBack[s] \/ now' < lease[s].acquired]
    /\ UNCHANGED <<lease, minted, flock, procVars, op, stamp>>

Init ==
    /\ now = 1
    /\ lease = [s \in Scopes |-> NoRow]
    /\ minted = 0
    /\ flock = None
    /\ pc = [p \in Proc |-> "down"]
    /\ hb = [p \in Proc |-> "idle"]
    /\ rt = [p \in Proc |-> NoLease]
    /\ wk = [p \in Proc |-> NoLease]
    /\ op = [o \in Operator |-> IdleOp]
    /\ stamp = [rt |-> 0, wk |-> [s \in WorkerScopes |-> 0], flip |-> FALSE]
    /\ setBack = [s \in Scopes |-> FALSE]

ProcNext(p) ==
    \/ Join(p) \/ Take(p) \/ TakeRefused(p)
    \/ HeartbeatRuntime(p) \/ HeartbeatWorker(p)
    \/ HeartbeatLost(p) \/ HeartbeatTimeout(p)
    \/ WriteTransaction(p)
    \/ BeginExternal(p) \/ CommitExternal(p) \/ FailExternal(p)
    \/ OperationReturns(p) \/ Release(p) \/ ReleaseFails(p)
    \/ Exit(p) \/ Crash(p)

OperatorNext(o) ==
    \/ ActivateRead(o)
    \/ \E owner \in Owner : ActivateTake(o, owner)
    \/ \E s \in Scopes : ReleaseRead(o, s)
    \/ ReleaseExact(o)
    \/ OperatorQuits(o)

Next ==
    \/ \E p \in Proc : ProcNext(p)
    \/ \E o \in Operator : OperatorNext(o)
    \/ Tick \/ StepBack

Spec == Init /\ [][Next]_vars

\* The heartbeat goroutine ticks while the process lives; its flock call is
\* granted when the lock keeps becoming free (strong fairness); whoever
\* holds the lock across steps finishes or fails.
Fairness ==
    \A p \in Proc :
        /\ SF_vars(HeartbeatLost(p))
        /\ WF_vars(CommitExternal(p) \/ FailExternal(p))

FairSpec == Spec /\ Fairness

-----------------------------------------------------------------------------
(* Properties *)

TypeOK ==
    /\ now \in Nat
    /\ lease \in [Scopes -> LeaseRow]
    /\ minted \in Nat
    /\ flock \in Proc \cup {None}
    /\ pc \in [Proc -> {"down", "joined", "running", "stopping", "cancelled"}]
    /\ hb \in [Proc -> {"idle", "runtime_renewed"}]
    /\ rt \in [Proc -> LeaseId]
    /\ wk \in [Proc -> LeaseId]
    /\ op \in [Operator -> OpState]
    /\ stamp \in [rt : Nat, wk : [WorkerScopes -> Nat], flip : BOOLEAN]
    /\ setBack \in [Scopes -> BOOLEAN]

\* May p's next write be accepted?  Either its fence validates now, or it
\* validated and p has kept the file lock since.
MayWrite(p) ==
    /\ Fenced(p)
    /\ flock = p \/ (pc[p] \in {"running", "cancelled"} /\ FenceValid(p))

\* Two processes whose writes can be accepted at the same time belong to the
\* same activation of the same runtime and to different worker scopes
\* (InstallWriteFence: "a stale process cannot write after ownership is
\* transferred even if its heartbeat has not observed the transfer yet").
SingleWriter ==
    \A p, q \in Proc :
        p # q /\ MayWrite(p) /\ MayWrite(q) =>
            ScopeOf[p] # ScopeOf[q] /\ rt[p] = rt[q]

\* While a process keeps the file lock for a mutation of another store, the
\* two leases it validated stay the ones in the rows, even if they expire
\* meanwhile (WithWriteFence: "either finishes under the old generation or
\* is rejected before it starts under a new generation").
ExternalUnderItsLeases ==
    \A p \in Proc :
        flock = p => /\ IdOf(lease[RuntimeScope]) = rt[p]
                     /\ IdOf(lease[ScopeOf[p]]) = wk[p]
                     /\ wk[p].token # 0 /\ rt[p].token # 0

\* Every write the code accepts, in a transaction or outside, is one the
\* abstract store accepts: made by the newest generation of the runtime and
\* of its worker scope, neither of them released; and generations only grow.
FS == INSTANCE FencedStore WITH
        gen <- [s \in Scopes |-> lease[s].gen],
        live <- [s \in Scopes |-> lease[s].token # 0]
ImplementsFencedStore == FS!Spec

\* No sequence of takes, joins, renewals and releases leaves a row readLease
\* refuses as malformed, and with it every later operation on the scope; the
\* one way there is a clock set back to before the lease was taken, under
\* which it is then renewed or released.
RowsStayReadable ==
    \A s \in Scopes :
        \/ Readable(s)
        \/ /\ setBack[s]
           /\ lease[s].renewed < lease[s].acquired
           /\ lease[s].renewed <= lease[s].expires

\* A process that has lost its fence does not go on believing it owns the
\* runtime: its heartbeat finds out and cancels the operation, unless the
\* clock is set back and its leases have not expired after all.
LostFenceCancels ==
    \A p \in Proc :
        (pc[p] = "running" /\ ~FenceValid(p))
            ~> (pc[p] \in {"cancelled", "down"} \/ FenceValid(p))

\* cmd/ownership activate: "--expected-generation must exactly match the
\* expired prior generation" - the generation it replaces is the one the
\* operator has named.
ActivationReplacesExpected ==
    [][\A o \in Operator :
          op[o].state = "activate" /\ op'[o].state = "idle"
            /\ lease'[RuntimeScope].gen # lease[RuntimeScope].gen
          => lease[RuntimeScope].gen = op[o].seen.gen]_vars

=============================================================================
