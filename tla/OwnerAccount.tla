---------------------------- MODULE OwnerAccount ----------------------------
(***************************************************************************)
(* The deployment's one owner: host-local commands print a setup or a      *)
(* recovery code, a browser redeems it, signs in and out.  A request reads *)
(* before it hashes or verifies a password and writes after that, so two   *)
(* requests cross.  A password stands for its hash; the audit log is the   *)
(* one the program keeps.                                                  *)
(***************************************************************************)
EXTENDS Integers, Sequences, FiniteSets, SequencesExt

CONSTANTS
    Browsers,       \* each has a cookie jar and one request under way
    Passwords,      \* what is typed into a form
    MaxCodes,       \* bound on the codes issued
    MaxSessions,    \* bound on the sessions created
    MaxRefusals     \* bound on the failed logins

ASSUME OwnerAssumption ==
    {MaxCodes, MaxSessions, MaxRefusals} \subseteq Nat /\ 0 \notin Passwords

VARIABLES
    owner,      \* owner_principals: the password of each row
    codes,      \* owner_auth_challenges, in the order of issue
    sessions,   \* owner_sessions: whether each is still good
    cookie,     \* the session whose token each browser holds, 0 for none
    request,    \* the request of each browser
    auditLog    \* auth_audit_events: the event, and the code or session it is about

ownerVars == <<owner, codes, sessions, cookie, request, auditLog>>

Purposes == {"setup", "recovery"}
Waiting == [pc |-> "none", code |-> 0, password |-> 0, replaced |-> 0]

OwnerInit ==
    /\ owner = <<>> /\ codes = <<>> /\ sessions = <<>> /\ auditLog = <<>>
    /\ cookie = [b \in Browsers |-> 0]
    /\ request = [b \in Browsers |-> Waiting]

Audit(event, of) == auditLog' = Append(auditLog, [event |-> event, of |-> of])
Idles(b) == request[b].pc = "none"
ReplyTo(b) == request' = [request EXCEPT ![b] = Waiting]

IsOpen(c) == ~c.consumed /\ ~c.expired
\* A purpose's codes that were not used are used up.
Consumed(purpose) ==
    [i \in DOMAIN codes |->
        IF codes[i].purpose = purpose THEN [codes[i] EXCEPT !.consumed = TRUE] ELSE codes[i]]

\* owner-setup and owner-recovery print a code, which supersedes earlier ones.
IssueCode(purpose) ==
    /\ Len(codes) < MaxCodes
    /\ (purpose = "setup") = (owner = <<>>)
    /\ codes' = Append(Consumed(purpose),
                       [purpose |-> purpose, consumed |-> FALSE, expired |-> FALSE])
    /\ UNCHANGED <<owner, sessions, cookie, request, auditLog>>

CodeExpires(i) ==
    /\ IsOpen(codes[i])
    /\ codes' = [codes EXCEPT ![i].expired = TRUE]
    /\ UNCHANGED <<owner, sessions, cookie, request, auditLog>>

\* A form is posted with a code, which is matched among the open ones; only
\* then is the password hashed.  The session to replace is the request's cookie.
Match(b, i, purpose, password) ==
    /\ Idles(b) /\ IsOpen(codes[i]) /\ codes[i].purpose = purpose
    /\ request' = [request EXCEPT ![b] =
           [pc |-> purpose, code |-> i, password |-> password, replaced |-> cookie[b]]]
    /\ UNCHANGED <<owner, codes, sessions, cookie, auditLog>>

SetupForm(b, i, password) == Match(b, i, "setup", password)
RecoveryForm(b, i, password) == Match(b, i, "recovery", password)

\* Under the advisory lock, with the code read again.
ClaimSetup(b) ==
    LET r == request[b] IN
    /\ r.pc = "setup"
    /\ IF IsOpen(codes[r.code]) /\ owner = <<>>
       THEN /\ owner' = Append(owner, r.password)
            /\ codes' = Consumed("setup")
            /\ Audit("owner_setup_completed", r.code)
            /\ request' = [request EXCEPT ![b].pc = "session"]
       ELSE ReplyTo(b) /\ UNCHANGED <<owner, codes, auditLog>>
    /\ UNCHANGED <<sessions, cookie>>

Revoked == [i \in DOMAIN sessions |-> FALSE]

\* Seeded bug: the code is not read again under the lock.
ClaimRecoveryUnchecked(b) ==
    LET r == request[b] IN
    /\ r.pc = "recovery" /\ Len(owner) = 1
    /\ owner' = <<r.password>>
    /\ sessions' = Revoked
    /\ codes' = Consumed("recovery")
    /\ Audit("owner_recovery_completed", r.code)
    /\ cookie' = [cookie EXCEPT ![b] = 0]
    /\ ReplyTo(b)

ClaimRecovery(b) ==
    LET r == request[b] IN
    /\ r.pc = "recovery"
    /\ IF IsOpen(codes[r.code]) /\ Len(owner) = 1
       THEN /\ owner' = <<r.password>>
            /\ sessions' = Revoked
            /\ codes' = Consumed("recovery")
            /\ Audit("owner_recovery_completed", r.code)
            /\ cookie' = [cookie EXCEPT ![b] = 0]
       ELSE UNCHANGED <<owner, sessions, codes, auditLog, cookie>>
    /\ ReplyTo(b)

LoginFailed ==
    /\ Cardinality({i \in DOMAIN auditLog : auditLog[i].event = "owner_login_failed"}) < MaxRefusals
    /\ Audit("owner_login_failed", 0)

\* The password is verified against the row as it was read, or against no one's.
Login(b, password) ==
    /\ Idles(b)
    /\ IF owner = <<password>>
       THEN /\ request' = [request EXCEPT ![b] =
                   [pc |-> "session", code |-> 0, password |-> password, replaced |-> cookie[b]]]
            /\ UNCHANGED auditLog
       ELSE LoginFailed /\ UNCHANGED request
    /\ UNCHANGED <<owner, codes, sessions, cookie>>

\* The row of a new session, in place of the replaced one.
NewSession(replaced) ==
    /\ Len(sessions) < MaxSessions
    /\ sessions' = Append([i \in DOMAIN sessions |-> sessions[i] /\ i # replaced], TRUE)
    /\ Audit("owner_login_succeeded", Len(sessions) + 1)

EstablishSession(b) ==
    /\ request[b].pc = "session"
    /\ NewSession(request[b].replaced)
    /\ cookie' = [cookie EXCEPT ![b] = Len(sessions) + 1]
    /\ ReplyTo(b)
    /\ UNCHANGED <<owner, codes>>

Resolves(i) == sessions[i]

\* A request with a cookie whose session is no longer good loses the cookie.
CookieDropped(b) ==
    /\ Idles(b) /\ cookie[b] # 0 /\ ~Resolves(cookie[b])
    /\ cookie' = [cookie EXCEPT ![b] = 0]
    /\ UNCHANGED <<owner, codes, sessions, request, auditLog>>

RevokeSession(i) ==
    /\ sessions' = [sessions EXCEPT ![i] = FALSE]
    /\ IF sessions[i] THEN Audit("owner_logout", i) ELSE UNCHANGED auditLog

Logout(b) ==
    /\ Idles(b) /\ cookie[b] # 0
    /\ RevokeSession(cookie[b])
    /\ cookie' = [cookie EXCEPT ![b] = 0]
    /\ UNCHANGED <<owner, codes, request>>

\* The idle or the absolute end of a session passes.
SessionLapses(i) ==
    /\ sessions[i]
    /\ sessions' = [sessions EXCEPT ![i] = FALSE]
    /\ UNCHANGED <<owner, codes, cookie, request, auditLog>>

\* The API process dies, or the database fails, between two steps.
RequestDies(b) ==
    /\ ~Idles(b)
    /\ ReplyTo(b)
    /\ UNCHANGED <<owner, codes, sessions, cookie, auditLog>>

OwnerNext ==
    \/ \E p \in Purposes : IssueCode(p)
    \/ \E i \in DOMAIN codes : CodeExpires(i)
    \/ \E i \in DOMAIN sessions : SessionLapses(i)
    \/ \E b \in Browsers :
          \/ \E i \in DOMAIN codes, p \in Passwords : SetupForm(b, i, p) \/ RecoveryForm(b, i, p)
          \/ \E p \in Passwords : Login(b, p)
          \/ ClaimSetup(b) \/ ClaimRecovery(b) \/ EstablishSession(b)
          \/ CookieDropped(b) \/ Logout(b) \/ RequestDies(b)

(* What the state may be. *)
OwnerTypeOK ==
    /\ owner \in Seq(Passwords)
    /\ codes \in Seq([purpose : Purposes, consumed : BOOLEAN, expired : BOOLEAN])
    /\ sessions \in Seq(BOOLEAN)
    /\ cookie \in [Browsers -> 0 .. MaxSessions]
    /\ request \in [Browsers -> [pc : {"none", "session"} \cup Purposes, code : 0 .. MaxCodes,
                                 password : Passwords \cup {0}, replaced : 0 .. MaxSessions]]

----------------------------------------------------------------------------
Claims == {i \in DOMAIN auditLog :
              auditLog[i].event \in {"owner_setup_completed", "owner_recovery_completed"}}

(* "Concurrent setup submissions therefore cannot create two owners"         *)
(* (spec/owner-auth-v1.md:26), "single-use setup/recovery capabilities" (:16) *)
(* and "Issuing a newer capability invalidates an older unconsumed capability *)
(* of the same purpose" (:24), however the requests that redeem them cross.   *)
OneOwner == Len(owner) = Cardinality({i \in Claims : auditLog[i].event = "owner_setup_completed"})
                /\ Len(owner) <= 1
UsedOnce == \A i, j \in Claims : auditLog[i].of = auditLog[j].of => i = j
NewestOpen == \A i, j \in DOMAIN codes :
                  i < j /\ codes[i].purpose = codes[j].purpose => ~IsOpen(codes[i])

(* "Recovery updates the existing owner only, ... and revokes every owner     *)
(* session" (spec/owner-auth-v1.md:26): a good session was created after the  *)
(* last recovery.                                                             *)
RecoveryRevokes ==
    \A i \in Claims, j \in DOMAIN auditLog :
        /\ auditLog[i].event = "owner_recovery_completed"
        /\ auditLog[j].event = "owner_login_succeeded" /\ sessions[auditLog[j].of]
        => i < j

CodesRedeemedOnce == OneOwner /\ UsedOnce /\ NewestOpen /\ RecoveryRevokes
=============================================================================
