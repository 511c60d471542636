------------------------- MODULE MachineCredentials -------------------------
(***************************************************************************)
(* A project and a credential of it that machines authenticate with.  Its  *)
(* row is in Postgres, and what a request resolved is cached in Redis for  *)
(* at most a minute.  A revocation writes a sentinel into the cache before *)
(* it commits, and a resolution stores only where nothing is cached, so    *)
(* that the two may cross.                                                 *)
(*                                                                         *)
(* Bound: no request spends the sentinel's minute between the two steps    *)
(* that a revocation must not fall between (SentinelLapses).               *)
(***************************************************************************)
EXTENDS Integers, FiniteSets

CONSTANTS
    Requests,       \* requests that present the credential's token
    Revokers,       \* owner requests that revoke it
    MaxLosses       \* bound on requests that die and statements that fail

ASSUME CredAssumption == "none" \notin Revokers

VARIABLES
    project,        \* whether the project's row exists
    row,            \* the credential's row, as committed
    expired,        \* whether its expiresAt has passed
    cached,         \* what Redis holds under the token's hash
    holder,         \* the revocation that holds the row's lock
    resolving,      \* each request: where it is, what it read, whether it came
                    \* after a revocation had answered
    revoking,       \* each revocation
    losses

credVars == <<project, row, expired, cached, holder, resolving, revoking, losses>>

NoHolder == "none"
NewRequest == [pc |-> "new", late |-> FALSE]

CredInit ==
    /\ project = FALSE /\ row = "none" /\ expired = FALSE /\ cached = "none" /\ holder = NoHolder
    /\ resolving = [r \in Requests |-> NewRequest]
    /\ revoking = [v \in Revokers |-> "new"]
    /\ losses = 0

InsertCredential == row' = "live"

\* The project, its registry row and its first credential, or none of them.
CreateProject ==
    /\ ~project
    /\ project' = TRUE /\ InsertCredential
    /\ UNCHANGED <<expired, cached, holder, resolving, revoking, losses>>

Expires ==
    /\ row # "none" /\ ~expired
    /\ expired' = TRUE
    /\ UNCHANGED <<project, row, cached, holder, resolving, revoking, losses>>

----------------------------------------------------------------------------
\* resolveMachineCredential.
Is(r, pc) == resolving[r].pc = pc
GoTo(r, pc) == resolving' = [resolving EXCEPT ![r].pc = pc]

CachedGood == cached = "valid" /\ ~expired

ReadCache(r) ==
    /\ Is(r, "new") /\ row # "none"
    /\ resolving' = [resolving EXCEPT ![r] =
           [pc |-> CASE cached = "revoked" -> "refused"
                     [] CachedGood -> "accepted"
                     [] cached = "valid" /\ expired -> "delete"
                     [] cached = "none" -> "read",
            late |-> \E v \in Revokers : revoking[v] = "done"]]
    /\ UNCHANGED <<project, row, expired, cached, holder, revoking, losses>>

\* A cached credential that has expired is deleted, whatever is there by now.
DeleteCached(r) ==
    /\ Is(r, "delete")
    /\ cached' = "none"
    /\ GoTo(r, "refused")
    /\ UNCHANGED <<project, row, expired, holder, revoking, losses>>

ReadRow(r) ==
    /\ Is(r, "read")
    /\ GoTo(r, IF row = "live" /\ ~expired THEN "store" ELSE "refused")
    /\ UNCHANGED <<project, row, expired, cached, holder, revoking, losses>>

\* Seeded bug: a plain SET.
StoreResolvedAnyway(r) ==
    /\ Is(r, "store")
    /\ cached' = "valid" /\ GoTo(r, "accepted")
    /\ UNCHANGED <<project, row, expired, holder, revoking, losses>>

\* SET NX: only where nothing is cached.
StoreResolved(r) ==
    /\ Is(r, "store")
    /\ IF cached = "none"
       THEN cached' = "valid" /\ GoTo(r, "accepted")
       ELSE UNCHANGED cached /\ GoTo(r, "winner")
    /\ UNCHANGED <<project, row, expired, holder, revoking, losses>>

ReadWinner(r) ==
    /\ Is(r, "winner")
    /\ GoTo(r, IF CachedGood THEN "accepted" ELSE "refused")
    /\ UNCHANGED <<project, row, expired, cached, holder, revoking, losses>>

\* The next request with the token.
NextRequest(r) ==
    /\ resolving[r].pc \in {"accepted", "refused"}
    /\ resolving' = [resolving EXCEPT ![r] = NewRequest]
    /\ UNCHANGED <<project, row, expired, cached, holder, revoking, losses>>

Resolving(r) == ReadCache(r) \/ DeleteCached(r) \/ ReadRow(r) \/ StoreResolved(r) \/ ReadWinner(r)

----------------------------------------------------------------------------
\* revokeMachineCredential.  The update waits for the row's lock, and finds
\* no row to revoke when another revocation has committed.
Update(v) ==
    /\ revoking[v] = "new" /\ row # "none" /\ holder = NoHolder
    /\ IF row = "live"
       THEN holder' = v /\ revoking' = [revoking EXCEPT ![v] = "sentinel"]
       ELSE UNCHANGED holder /\ revoking' = [revoking EXCEPT ![v] = "notFound"]
    /\ UNCHANGED <<project, row, expired, cached, resolving, losses>>

Sentinel == cached' = "revoked"

WriteSentinel(v) ==
    /\ revoking[v] = "sentinel"
    /\ Sentinel
    /\ revoking' = [revoking EXCEPT ![v] = "commit"]
    /\ UNCHANGED <<project, row, expired, holder, resolving, losses>>

Commit(v) ==
    /\ revoking[v] = "commit"
    /\ row' = "revoked" /\ holder' = NoHolder
    /\ revoking' = [revoking EXCEPT ![v] = "done"]
    /\ UNCHANGED <<project, expired, cached, resolving, losses>>

\* Redis or Postgres fails, or the process dies: the transaction is rolled back.
RevocationFails(v) ==
    /\ revoking[v] \in {"sentinel", "commit"} /\ losses < MaxLosses
    /\ holder' = NoHolder
    /\ revoking' = [revoking EXCEPT ![v] = "new"]
    /\ losses' = losses + 1
    /\ UNCHANGED <<project, row, expired, cached, resolving>>

----------------------------------------------------------------------------
\* A cached resolution lives a minute, or until the credential expires.
CacheLapses ==
    /\ cached = "valid"
    /\ cached' = "none"
    /\ UNCHANGED <<project, row, expired, holder, resolving, revoking, losses>>

SentinelLapses ==
    /\ cached = "revoked"
    /\ \A v \in Revokers : revoking[v] # "commit"
    /\ \A r \in Requests : ~Is(r, "store")
    /\ cached' = "none"
    /\ UNCHANGED <<project, row, expired, holder, resolving, revoking, losses>>

CredNext ==
    \/ CreateProject \/ Expires \/ CacheLapses \/ SentinelLapses
    \/ \E r \in Requests : Resolving(r) \/ NextRequest(r)
    \/ \E v \in Revokers : Update(v) \/ WriteSentinel(v) \/ Commit(v) \/ RevocationFails(v)

CredSpec == CredInit /\ [][CredNext]_credVars

(* What the state may be. *)
CredTypeOK ==
    /\ project \in BOOLEAN /\ expired \in BOOLEAN
    /\ row \in {"none", "live", "revoked"} /\ cached \in {"none", "valid", "revoked"}
    /\ holder \in Revokers \cup {NoHolder}
    /\ resolving \in [Requests -> [pc : {"new", "delete", "read", "store", "winner", "accepted", "refused"},
                                   late : BOOLEAN]]
    /\ revoking \in [Revokers -> {"new", "sentinel", "commit", "done", "notFound"}]

(* Revocation is immediate (rate-limit.ts:37-40, "unlike machine-credential *)
(* revocation, which must be immediate"): a request that came after it had  *)
(* answered is refused, although resolutions that began before it, and      *)
(* other revocations, are still under way; and one revocation answers.      *)
RevokedIsRefused ==
    /\ \A r \in Requests : resolving[r].late => ~Is(r, "accepted")
    /\ Cardinality({v \in Revokers : revoking[v] = "done"}) <= 1
=============================================================================
