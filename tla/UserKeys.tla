------------------------------ MODULE UserKeys ------------------------------
(***************************************************************************)
(* The life of one user: API keys, internal key, portal login, and what    *)
(* the gateway accepts (internal/admin/user_lifecycle.go,                  *)
(* internal/identity, internal/portal, internal/controlplane/              *)
(* user_lifecycle.go and records.go, internal/gateway).                    *)
(*                                                                         *)
(* Admin runs one operation at a time under identityOperationLock: a list  *)
(* of steps and, when one of them fails, the steps that take it back.      *)
(* Beside it run the portal's requests, which take the lock only for key   *)
(* rotation and route assignment; the failover worker and the collector,   *)
(* other processes that synchronise internal keys from a list of active    *)
(* users they have read before; and the gateway's loader.                  *)
(***************************************************************************)
EXTENDS Integers, Sequences, FiniteSets

CONSTANTS
    Browser,        \* portal sessions
    MaxKeys,        \* bound on the API keys ever made
    MaxUserOps,     \* bound on Admin operations
    MaxUserFaults,  \* bound on failing steps and crashes
    MaxForeign      \* bound on the rounds of the other processes

ASSUME UserKeysAssumption ==
    /\ MaxKeys \in Nat /\ MaxUserOps \in Nat
    /\ MaxUserFaults \in Nat /\ MaxForeign \in Nat

VARIABLES
    keys,       \* key_records: the status of every secret ever made
    routed,     \* user_routes has a row for the user
    internal,   \* internal_keys: the user's row
    born,       \* internal secrets made so far
    config,     \* the internal secret in the CPA configuration, 0 if none
    cred,       \* portal_credentials: "none", "initial" (must_change), "chosen"
    sessions,   \* portal_sessions: "none", or whether the password the
                \* session was opened with is still the "current" one or "old"
    request,    \* what the request in flight of every session has read
    op,         \* the operation that holds identityOperationLock
    foreign,    \* a round of the failover worker or of the collector
    file,       \* auth-snapshot.json: generation, key accepted, internal key
    gw,         \* engine.auth of the gateway: generation and key accepted
    retired,    \* observer: keys whose retirement was reported as done
    published,  \* observer: no store change was given up unpublished
    projected,  \* observer: no store change was given up unrendered
    rounds,     \* rounds of the other processes so far
    userOps, userFaults

storeVars == <<keys, routed, internal, born>>
portalVars == <<cred, sessions, request>>
planeVars == <<file, gw>>
observers == <<retired, published, projected>>
bounds == <<userOps, userFaults>>
userVars == <<keys, routed, internal, born, config, cred, sessions, request, op,
              foreign, file, gw, retired, published, projected,
              rounds, userOps, userFaults>>

KeysWith(status) == {k \in DOMAIN keys : keys[k] = status}
Active == KeysWith("active")
UserExists == \E k \in DOMAIN keys : keys[k] # "deleted"

NoInternal == [secret |-> 0, status |-> "none"]
NothingLoaded == [gen |-> "other", key |-> 0]
NoRequest == [at |-> "none", password |-> "none", key |-> 0]
Away == [at |-> "idle", active |-> {}]

NoOp == [kind |-> "none", todo |-> <<>>, rolling |-> FALSE, key |-> 0,
         keys |-> <<>>, routed |-> FALSE, cred |-> "none",
         internal |-> NoInternal, intact |-> TRUE]

UserFault == userFaults < MaxUserFaults /\ userFaults' = userFaults + 1

-----------------------------------------------------------------------------
(* Store transactions *)

\* A new row per account; a stale route is cleared.
ApplyUserCreation ==
    /\ Active = {}
    /\ Len(keys) < MaxKeys
    /\ keys' = Append(keys, "active")
    /\ routed' = FALSE
    /\ UNCHANGED <<internal, born>>

\* Every active row must carry the expected key.
ApplyUserKeyRotationExpected(expected) ==
    /\ Active = {expected}
    /\ Len(keys) < MaxKeys
    /\ keys' = Append([keys EXCEPT ![expected] = "rotated"], "active")
    /\ UNCHANGED <<routed, internal, born>>

ApplyUserRevocation ==
    /\ Active # {}
    /\ keys' = [k \in DOMAIN keys |->
                  IF k \in Active THEN "revoked" ELSE keys[k]]
    /\ UNCHANGED <<routed, internal, born>>

ApplyUserDeletion ==
    /\ UserExists
    /\ keys' = [k \in DOMAIN keys |-> "deleted"]
    /\ routed' = FALSE
    /\ internal' = NoInternal
    /\ UNCHANGED born

\* ApplyRoutesExpected of a user that has no route.
ApplyAssignment ==
    /\ ~routed /\ Active # {}
    /\ routed' = TRUE
    /\ UNCHANGED <<keys, internal, born>>

\* The rows Admin changed are put back.  Key rows change only under its lock,
\* so the checks of RestoreUserCreation, RestoreUserRevocation and
\* RestoreUserKeyRotation find what the operation left.
RestoreRows ==
    /\ keys' = [k \in DOMAIN keys |->
                  IF k \in DOMAIN op.keys THEN op.keys[k] ELSE "deleted"]
    /\ routed' = op.routed
    /\ UNCHANGED <<internal, born>>

\* The internal key is inserted again: a row another process has made in the
\* meantime is in the way (PRIMARY KEY), and the transaction fails.
CanRestoreDeletion == op.internal = NoInternal \/ internal = NoInternal

RestoreUserDeletion ==
    /\ CanRestoreDeletion
    /\ keys' = op.keys
    /\ routed' = op.routed
    /\ internal' = IF op.internal = NoInternal THEN internal ELSE op.internal
    /\ UNCHANGED born

\* One transaction: the listed user gets an active internal key, a user that
\* is not listed loses it.
EnsureInternalKeys(active) ==
    /\ internal' =
         IF active
         THEN [secret |-> IF internal = NoInternal THEN born + 1
                          ELSE internal.secret,
               status |-> "active"]
         ELSE IF internal = NoInternal THEN internal
              ELSE [internal EXCEPT !.status = "inactive"]
    /\ born' = IF active /\ internal = NoInternal THEN born + 1 ELSE born
    /\ UNCHANGED <<keys, routed>>

-----------------------------------------------------------------------------
(* The snapshot file, the CPA configuration and the gateway *)

\* buildPayload and activeInternalKeyList refuse an active user whose
\* internal key is not active.
InternalReady == Active # {} => internal.status = "active"

Served(active) == IF routed /\ active # {} THEN CHOOSE k \in active : TRUE ELSE 0

\* Mutant: the records read before the fence are used inside it.
ReplaceFileEarlier(gen, read) ==
    /\ InternalReady
    /\ LET served == Served(read)
       IN  file' = [gen |-> gen, key |-> served,
                    internal |-> IF served = 0 THEN 0 ELSE internal.secret]
    /\ published' = TRUE

\* Under the write fence the records are read again: the file gets what the
\* store holds at that moment, not what was read for EnsureInternalKeys.
ReplaceFile(gen, read) ==
    /\ InternalReady
    /\ LET served == Served(Active)
       IN  file' = [gen |-> gen, key |-> served,
                    internal |-> IF served = 0 THEN 0 ELSE internal.secret]
    /\ published' = TRUE

RenderConfig ==
    /\ InternalReady
    /\ config' = IF Active = {} THEN 0 ELSE internal.secret
    /\ projected' = TRUE

\* Authorize, up to freshness and quota (see Metering)
Authorized(k) == gw.key = k

-----------------------------------------------------------------------------
(* Operations under identityOperationLock *)

\* Mutant: the rows stay as the failed operation left them.
UndoKeepingRows(kind, step) ==
    IF step = "apply" \/ kind = "reset" THEN <<>>
    ELSE <<"sync", "render", "sync", "write", "wait">>

\* Mutant: the rows are put back and not published.
UndoUnpublished(kind, step) ==
    IF step = "apply" \/ kind = "reset" THEN <<>> ELSE <<"restore">>

\* PublishAuthSnapshot is "sync", "write", "wait"; a rendering of the CPA
\* configuration is "sync", "render".
Plan(kind) ==
    CASE kind = "create" ->
            <<"apply", "cred", "sync", "render", "verify", "sync", "write", "wait">>
      [] kind \in {"rotate", "assign"} -> <<"apply", "sync", "write", "wait">>
      [] kind = "revoke" -> <<"apply", "sync", "write", "wait", "sync", "render">>
      [] kind = "delete" ->
            <<"apply", "sync", "write", "wait", "sync", "render", "erase">>
      [] kind = "reset" -> <<"cred">>
      [] kind = "start" -> <<"sync", "render">>

\* rollbackCreation, rollbackRevocation, rollbackDeletion, and the rollbacks
\* of RotateUserKey and of applyPlan.
Undo(kind, step) ==
    IF step = "apply" \/ kind = "reset" THEN <<>>
    ELSE IF kind = "create" /\ step = "cred" THEN <<"restore">>
    ELSE CASE kind = "create" ->
                 <<"restore", "uncred", "uninternal",
                   "sync", "render", "sync", "write", "wait">>
           [] kind \in {"rotate", "assign"} -> <<"restore", "sync", "write", "wait">>
           [] kind = "revoke" ->
                 <<"restore", "uninternal", "sync", "render", "sync", "write", "wait">>
           [] kind = "delete" ->
                 <<"restore", "sync", "render", "sync", "write", "wait">>

At(step) == op.kind # "none" /\ Head(op.todo) = step

\* Keys the operation has taken out of service.
Ended(o) == {k \in DOMAIN o.keys : o.keys[k] = "active" /\ keys[k] # "active"}

\* The step of o is done; the last one ends the operation.
Done(o) ==
    /\ op' = IF Len(o.todo) = 1 THEN NoOp ELSE [o EXCEPT !.todo = Tail(@)]
    /\ retired' = IF Len(o.todo) = 1 /\ ~o.rolling THEN retired \cup Ended(o)
                  ELSE retired

Begin(kind, key) ==
    /\ op = NoOp
    /\ userOps < MaxUserOps
    /\ userOps' = userOps + 1
    /\ op' = [NoOp EXCEPT !.kind = kind, !.todo = Plan(kind), !.key = key,
                !.cred = IF kind = "create" THEN cred ELSE @,
                !.internal = IF kind \in {"create", "revoke"} THEN internal ELSE @]
    /\ UNCHANGED <<storeVars, config, cred, sessions, planeVars, foreign,
                   observers, rounds, userFaults>>

CreateUser == Begin("create", 0) /\ UNCHANGED request
RevokeUser == Begin("revoke", 0) /\ UNCHANGED request
DeleteUser == Begin("delete", 0) /\ UNCHANGED request
ResetUserPassword == UserExists /\ Begin("reset", 0) /\ UNCHANGED request

RotateUserKey ==
    \E k \in Active : Active = {k} /\ Begin("rotate", k) /\ UNCHANGED request

\* What the transaction of every operation remembers for its rollback.
Remember ==
    Done([op EXCEPT !.keys = keys, !.routed = routed,
                    !.internal = IF op.kind = "delete" THEN internal ELSE @])

Applies(kind) ==
    CASE kind = "create" -> ApplyUserCreation
      [] kind = "rotate" -> ApplyUserKeyRotationExpected(op.key)
      [] kind = "revoke" -> ApplyUserRevocation
      [] kind = "delete" -> ApplyUserDeletion
      [] kind = "assign" -> ApplyAssignment

Apply ==
    /\ At("apply")
    /\ Applies(op.kind)
    /\ Remember
    /\ UNCHANGED <<config, portalVars, planeVars, foreign, published, projected,
                   rounds, bounds>>

\* SetCredential and DeleteUserState drop every session of the user.
NewPassword(password, kept) ==
    /\ cred' = password
    /\ sessions' = [b \in Browser |->
                      IF b \in kept /\ sessions[b] # "none" THEN "current" ELSE "none"]

Outdate(idle) ==
    request' = [b \in Browser |->
                  IF b \in idle THEN NoRequest
                  ELSE [request[b] EXCEPT
                          !.password = IF @ = "none" THEN @ ELSE "old"]]

SetPassword(step, password) ==
    /\ At(step)
    /\ NewPassword(password, {})
    /\ Outdate({})
    /\ Done(op)
    /\ UNCHANGED <<storeVars, config, planeVars, foreign, published, projected,
                   rounds, bounds>>

SetCredential == SetPassword("cred", "initial")
RestoreCredential == SetPassword("uncred", op.cred)
DeleteUserState == SetPassword("erase", "none")

Sync ==
    /\ At("sync")
    /\ EnsureInternalKeys(Active # {})
    /\ Done(op)
    /\ UNCHANGED <<config, portalVars, planeVars, foreign, published, projected,
                   rounds, bounds>>

Render ==
    /\ At("render")
    /\ RenderConfig
    /\ Done(op)
    /\ UNCHANGED <<storeVars, portalVars, planeVars, foreign, published,
                   rounds, bounds>>

\* The account accepts the user's internal key.
VerifyUserKey ==
    /\ At("verify")
    /\ internal.status = "active" /\ config = internal.secret
    /\ Done(op)
    /\ UNCHANGED <<storeVars, config, portalVars, planeVars, foreign, published,
                   projected, rounds, bounds>>

WriteFile ==
    /\ At("write")
    /\ ReplaceFile("awaited", Active)
    /\ gw' = [gw EXCEPT !.gen = "other"]
    /\ Done(op)
    /\ UNCHANGED <<storeVars, config, portalVars, foreign, projected,
                   rounds, bounds>>

\* Generations are random names; only whether one is the generation Admin
\* waits for is ever looked at.
StopWaiting ==
    /\ file' = [file EXCEPT !.gen = "other"]
    /\ gw' = [gw EXCEPT !.gen = "other"]

\* The gateway has activated exactly this generation.
Activated ==
    /\ At("wait")
    /\ gw.gen = "awaited"
    /\ Done(op)
    /\ StopWaiting
    /\ UNCHANGED <<storeVars, config, portalVars, foreign, published,
                   projected, rounds, bounds>>

Restore ==
    /\ At("restore")
    /\ IF op.kind = "delete" THEN RestoreUserDeletion ELSE RestoreRows
    /\ Done(op)
    /\ UNCHANGED <<config, portalVars, planeVars, foreign, published, projected,
                   rounds, bounds>>

RestoreInternal ==
    /\ At("uninternal")
    /\ internal' = op.internal
    /\ Done(op)
    /\ UNCHANGED <<keys, routed, born, config, portalVars, planeVars, foreign,
                   published, projected, rounds, bounds>>

-----------------------------------------------------------------------------
(* Steps that fail *)

\* Without a fault: the transaction refuses, another process has put out the
\* internal key, the gateway has not loaded the generation in time.
Refuses ==
    \/ At("apply") /\ CASE op.kind = "create" -> Active # {}
                        [] op.kind = "rotate" -> Active # {op.key}
                        [] op.kind = "revoke" -> Active = {}
                        [] op.kind = "delete" -> ~UserExists
                        [] op.kind = "assign" -> routed \/ Active = {}
    \/ (At("render") \/ At("write")) /\ ~InternalReady
    \/ At("verify") /\ internal.status # "active"
    \/ At("restore") /\ op.kind = "delete" /\ ~CanRestoreDeletion
    \/ At("wait")

\* A failure starts the rollback; a failure of the rollback ends it, but a
\* password that cannot be put back does not stop the rest.
GiveUp ==
    LET undo == Undo(op.kind, Head(op.todo))
    IN  op' = IF ~op.rolling
              THEN IF undo = <<>> THEN NoOp
                   ELSE [op EXCEPT !.todo = undo, !.rolling = TRUE]
              ELSE IF At("uncred") /\ Len(op.todo) # 1
              THEN [op EXCEPT !.todo = Tail(@), !.intact = FALSE]
              ELSE IF At("restore") /\ op.kind = "create" /\ Len(op.todo) # 1
              THEN [op EXCEPT !.todo = <<"uncred">>, !.intact = FALSE]
              ELSE NoOp

\* What a rollback that ends early leaves behind.
LeftUndone ==
    /\ published' = (published /\ (~op.rolling \/ At("uncred") \/ At("wait")))
    /\ projected' = (projected /\ (~op.rolling \/ At("uncred") \/ At("wait")
                                              \/ At("write")))

StepRefused ==
    /\ Refuses /\ op.kind # "start"
    /\ GiveUp
    /\ LeftUndone
    /\ StopWaiting
    /\ UNCHANGED <<storeVars, config, portalVars, foreign, retired, rounds, bounds>>

StepFails ==
    /\ op.kind \notin {"none", "start"}
    /\ UserFault
    /\ GiveUp
    /\ LeftUndone
    /\ StopWaiting
    /\ UNCHANGED <<storeVars, config, portalVars, foreign, retired, rounds, userOps>>

\* SetCredential commits and cannot read the row back: the password is set and
\* the step has failed.
PasswordFailsLate(step, password) ==
    /\ At(step)
    /\ UserFault
    /\ NewPassword(password, {})
    /\ Outdate({})
    /\ GiveUp
    /\ LeftUndone
    /\ StopWaiting
    /\ UNCHANGED <<storeVars, config, foreign, retired, rounds, userOps>>

\* A password there was not is taken back by DeleteIdentity, which reads nothing.
CredentialFailsLate ==
    \/ PasswordFailsLate("cred", "initial")
    \/ op.cred # "none" /\ PasswordFailsLate("uncred", op.cred)

\* writeSnapshot fails after the file is replaced (chmod, chown).
WriteFailsLate ==
    /\ At("write")
    /\ UserFault
    /\ ReplaceFile("other", Active)
    /\ GiveUp
    /\ UNCHANGED <<storeVars, config, portalVars, foreign, gw, retired, projected,
                   rounds, userOps>>

\* The process ends, and renders the configuration when it starts again.
AdminCrash ==
    /\ op.kind \notin {"none", "start"}
    /\ UserFault
    /\ op' = [NoOp EXCEPT !.kind = "start", !.todo = Plan("start")]
    /\ request' = [b \in Browser |-> NoRequest]
    /\ published' = FALSE /\ projected' = FALSE
    /\ StopWaiting
    /\ UNCHANGED <<storeVars, config, cred, sessions, foreign, retired, rounds, userOps>>

\* Admin does not start without its projection: it is started again.
StartRefused ==
    /\ op.kind = "start" /\ At("render") /\ ~InternalReady
    /\ op' = [op EXCEPT !.todo = Plan("start")]
    /\ UNCHANGED <<storeVars, config, portalVars, planeVars, foreign, observers,
                   rounds, bounds>>

-----------------------------------------------------------------------------
(* The portal *)

Respond(b) == request' = [request EXCEPT ![b] = NoRequest]
Ask(b, r) == request' = [request EXCEPT ![b] = r]

PortalReady == op.kind # "start"

\* createSession reads the key records and the credential and verifies the
\* password ...
LoginVerified(b) ==
    /\ PortalReady /\ request[b] = NoRequest /\ sessions[b] = "none"
    /\ Active # {} /\ cred # "none"
    /\ Ask(b, [NoRequest EXCEPT !.at = "login", !.password = "current"])
    /\ UNCHANGED <<storeVars, config, cred, sessions, op, planeVars, foreign,
                   observers, rounds, bounds>>

\* ... and stores the session afterwards.
CreateSession(b) ==
    /\ request[b].at = "login"
    /\ sessions' = [sessions EXCEPT ![b] = request[b].password]
    /\ Respond(b)
    /\ UNCHANGED <<storeVars, config, cred, op, planeVars, foreign, observers,
                   rounds, bounds>>

\* Logout, expiry, or requireAuth for a user without key or credential.
EndSession(b) ==
    /\ sessions[b] # "none" /\ request[b] = NoRequest
    /\ sessions' = [sessions EXCEPT ![b] = "none"]
    /\ UNCHANGED <<storeVars, config, cred, request, op, planeVars, foreign,
                   observers, rounds, bounds>>

RequireAuth(b) ==
    /\ PortalReady /\ request[b] = NoRequest
    /\ sessions[b] # "none" /\ Active # {} /\ cred # "none"

ChangeVerified(b) ==
    /\ RequireAuth(b)
    /\ Ask(b, [NoRequest EXCEPT !.at = "change", !.password = "current"])
    /\ UNCHANGED <<storeVars, config, cred, sessions, op, planeVars, foreign,
                   observers, rounds, bounds>>

\* The credential is replaced whatever it is by now; an operation that
\* remembers it is overtaken.
ChangePassword(b) ==
    /\ request[b].at = "change"
    /\ NewPassword("chosen", {b})
    /\ Outdate({b})
    /\ op' = IF op.kind = "create" THEN [op EXCEPT !.intact = FALSE] ELSE op
    /\ UNCHANGED <<storeVars, config, planeVars, foreign, observers, rounds, bounds>>

\* rotateKey and autoAssignRoute read their key or their route first and take
\* the lock then.
AskRotation(b) ==
    /\ RequireAuth(b) /\ cred = "chosen"
    /\ \E k \in Active : Active = {k}
          /\ Ask(b, [NoRequest EXCEPT !.at = "rotate", !.key = k])
    /\ UNCHANGED <<storeVars, config, cred, sessions, op, planeVars, foreign,
                   observers, rounds, bounds>>

AskRoute(b) ==
    /\ RequireAuth(b) /\ cred = "chosen" /\ ~routed
    /\ Ask(b, [NoRequest EXCEPT !.at = "assign"])
    /\ UNCHANGED <<storeVars, config, cred, sessions, op, planeVars, foreign,
                   observers, rounds, bounds>>

PortalOperation(b) ==
    /\ request[b].at \in {"rotate", "assign"}
    /\ Begin(request[b].at, request[b].key)
    /\ Respond(b)

-----------------------------------------------------------------------------
(* Other processes, the gateway, time *)

ReadActiveUsers ==
    /\ foreign = Away /\ rounds < MaxForeign
    /\ foreign' = [at |-> "read", active |-> Active]
    /\ rounds' = rounds + 1
    /\ UNCHANGED <<storeVars, config, portalVars, op, planeVars, observers, bounds>>

\* The list may be old by now.  The failover worker goes on to publish, the
\* collector does not.
Synchronize ==
    /\ foreign.at = "read"
    /\ EnsureInternalKeys(foreign.active # {})
    /\ foreign' \in {[foreign EXCEPT !.at = "write"], Away}
    /\ UNCHANGED <<config, portalVars, op, planeVars, observers, rounds, bounds>>

\* The failover worker publishes the moves of other users.
ForeignPublish ==
    /\ foreign.at = "write"
    /\ \/ ReplaceFile("other", foreign.active)
       \/ ~InternalReady /\ UNCHANGED <<file, published>>
    /\ foreign' = Away
    /\ UNCHANGED <<storeVars, config, portalVars, op, gw, retired, projected,
                   rounds, bounds>>

LoadAuthSnapshot ==
    /\ gw # [gen |-> file.gen, key |-> file.key]
    /\ gw' = [gen |-> file.gen, key |-> file.key]
    /\ UNCHANGED <<storeVars, config, portalVars, op, file, foreign, observers,
                   rounds, bounds>>

GatewayRestart ==
    /\ gw # NothingLoaded
    /\ UserFault
    /\ gw' = NothingLoaded
    /\ UNCHANGED <<storeVars, config, portalVars, op, file, foreign, observers,
                   rounds, userOps>>

-----------------------------------------------------------------------------

\* A user with a key, who may have chosen an account or not yet; the gateway
\* serves what the file lists.
UserInit ==
    /\ keys = <<"active">> /\ routed \in BOOLEAN
    /\ internal = [secret |-> 1, status |-> "active"] /\ born = 1
    /\ config = 1 /\ cred = "chosen"
    /\ sessions = [b \in Browser |-> "none"]
    /\ request = [b \in Browser |-> NoRequest]
    /\ op = NoOp
    /\ foreign = Away
    /\ file = IF routed THEN [gen |-> "other", key |-> 1, internal |-> 1]
              ELSE [gen |-> "other", key |-> 0, internal |-> 0]
    /\ gw = [gen |-> "other", key |-> file.key]
    /\ retired = {}
    /\ published = TRUE /\ projected = TRUE
    /\ rounds = 0 /\ userOps = 0 /\ userFaults = 0

AdminStep ==
    \/ Apply \/ SetCredential \/ RestoreCredential \/ DeleteUserState
    \/ Sync \/ Render \/ VerifyUserKey \/ WriteFile \/ Activated
    \/ Restore \/ RestoreInternal \/ StepRefused \/ StartRefused

AdminRequest ==
    \/ CreateUser \/ RotateUserKey \/ RevokeUser \/ DeleteUser \/ ResetUserPassword

PortalStep(b) ==
    \/ LoginVerified(b) \/ CreateSession(b) \/ EndSession(b)
    \/ ChangeVerified(b) \/ ChangePassword(b)
    \/ AskRotation(b) \/ AskRoute(b) \/ PortalOperation(b)

UserNext ==
    \/ AdminRequest \/ AdminStep
    \/ StepFails \/ CredentialFailsLate \/ WriteFailsLate \/ AdminCrash
    \/ \E b \in Browser : PortalStep(b)
    \/ ReadActiveUsers \/ Synchronize \/ ForeignPublish
    \/ LoadAuthSnapshot \/ GatewayRestart

UserSpec == UserInit /\ [][UserNext]_userVars

-----------------------------------------------------------------------------

\* A key whose rotation, revocation or deletion was reported as done is
\* never accepted by the gateway again, whatever the other processes publish
\* and whatever is rolled back (PublishAuthSnapshot reads under the fence and
\* waits for the generation).
RetiredKeysRefused == \A k \in retired : ~Authorized(k)

\* Between operations, unless one of them was cut short by a crash or by a
\* failure of its own rollback, the file lists the user's key exactly when it
\* is active and routed, with the internal key the accounts accept.
Settled ==
    op = NoOp =>
        /\ published => file.key = Served(Active)
        /\ published /\ projected /\ file.key # 0 =>
              config = file.internal /\ file.internal = internal.secret

\* An operation that fails and takes all its steps back leaves the keys and the
\* route as they were, and the password too: unless it was SetCredential that
\* failed, whose initial password CreateUser does not take back.
RolledBackExactly ==
    [][op.rolling /\ op.intact /\ Len(op.todo) = 1 /\ op' = NoOp
         /\ published' /\ projected' =>
            /\ \A k \in DOMAIN keys :
                  keys'[k] = IF k \in DOMAIN op.keys THEN op.keys[k] ELSE "deleted"
            /\ routed' = op.routed
            /\ op.kind = "create" => \/ cred' = op.cred
                                     \/ At("restore") /\ cred' = "initial"]_userVars

=============================================================================
