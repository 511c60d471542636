------------------------------ MODULE ApiProofs ------------------------------
(***************************************************************************)
(* Proofs about the owner's account (OwnerAccount), machine credentials    *)
(* (MachineCredentials), the media store (MediaStore), the lifecycle plan  *)
(* (LifecyclePlan) and the pages of a trace list (TracePages), for any     *)
(* number of browsers, requests, revocations, uploads, failures, batches,  *)
(* projects and traces, and pages of any size.                             *)
(*                                                                         *)
(* The owner: a claim holds a code that is still open, under the lock, and *)
(* the audit log is what remembers it; the entries of the log stay, so     *)
(* that each property of the log is kept when an entry is added.           *)
(* Credentials: once a revocation has committed, what is cached under the  *)
(* token is the sentinel, or nothing and no resolution is about to store,  *)
(* or the credential has expired as well.  A request that comes then finds *)
(* no cached resolution, and no live row.                                  *)
(* Media: the row comes after the object, and never changes.  As long as   *)
(* no two first uploads cross, the one that stores finds no row, and the   *)
(* object it stored is the one it inserts a row for.                       *)
(* The plan: what a listing must find only gets less while it is read, so  *)
(* that it has always found what is left of it up to where it is.          *)
(* The pages: the cursor gave whatever it has passed; and a trace that     *)
(* stays as it was keeps its place, if nothing comes before it.            *)
(***************************************************************************)
EXTENDS OwnerAccount, MachineCredentials, MediaStore, LifecyclePlan, TracePages,
        SequenceTheorems, FiniteSetTheorems, WellFoundedInduction, TLAPS

-----------------------------------------------------------------------------
\* The owner.

OwnerSpec == OwnerInit /\ [][OwnerNext]_ownerVars

Events == {"owner_setup_completed", "owner_recovery_completed", "owner_login_failed",
           "owner_login_succeeded", "owner_logout"}
LogEntry == [event : Events, of : Nat]

SetupClaims == {i \in Claims : auditLog[i].event = "owner_setup_completed"}

\* A request goes on with a code it matched; a claim used up its code, and a
\* login made its session.
RecordsInv ==
    /\ \A b \in Browsers : request[b].pc \in Purposes =>
           /\ request[b].code \in DOMAIN codes
           /\ codes[request[b].code].purpose = request[b].pc
           /\ request[b].password \in Passwords
    /\ \A i \in Claims : auditLog[i].of \in DOMAIN codes /\ codes[auditLog[i].of].consumed
    /\ \A i \in DOMAIN auditLog :
           auditLog[i].event = "owner_login_succeeded" => auditLog[i].of \in DOMAIN sessions

OneSetup ==
    /\ owner = <<>> => SetupClaims = {}
    /\ owner # <<>> => Len(owner) = 1 /\ \E i : SetupClaims = {i}

OwnerTypes ==
    /\ OwnerTypeOK
    /\ auditLog \in Seq(LogEntry)
    /\ Len(codes) <= MaxCodes /\ Len(sessions) <= MaxSessions

OwnerInv == OwnerTypes /\ RecordsInv /\ OneSetup /\ UsedOnce /\ NewestOpen /\ RecoveryRevokes

\* The inductive invariant holds at first.
LEMMA InitOwner == OwnerInit => OwnerInv
<1> SUFFICES ASSUME OwnerInit PROVE OwnerInv
    OBVIOUS
<1>1. OwnerTypes
      BY OwnerAssumption DEF OwnerInit, OwnerTypes, OwnerTypeOK, Waiting, Purposes
<1>2. RecordsInv /\ OneSetup /\ UsedOnce /\ NewestOpen /\ RecoveryRevokes
      BY DEF OwnerInit, RecordsInv, OneSetup, UsedOnce, NewestOpen, RecoveryRevokes,
        Waiting, Purposes,
             Claims, SetupClaims
<1> QED BY <1>1, <1>2 DEF OwnerInv


RequestRecord == [pc : {"none", "session"} \cup Purposes, code : 0 .. MaxCodes,
                  password : Passwords \cup {0}, replaced : 0 .. MaxSessions]
CodeRecord == [purpose : Purposes, consumed : BOOLEAN, expired : BOOLEAN]

\* What an issue or a claim does to the codes.
LEMMA ConsumedCodes ==
    ASSUME OwnerTypes, NEW p \in Purposes
    PROVE  /\ Consumed(p) \in Seq(CodeRecord)
           /\ DOMAIN Consumed(p) = DOMAIN codes /\ Len(Consumed(p)) = Len(codes)
           /\ \A i \in DOMAIN codes :
                 /\ Consumed(p)[i].purpose = codes[i].purpose
                 /\ Consumed(p)[i].expired = codes[i].expired
                 /\ codes[i].consumed \/ codes[i].purpose = p => Consumed(p)[i].consumed
<1>1. codes \in Seq(CodeRecord)
      BY DEF OwnerTypes, OwnerTypeOK, CodeRecord
<1>2. \A i \in 1 .. Len(codes) : codes[i] \in CodeRecord
      BY <1>1
<1>3. \A i \in 1 .. Len(codes) : [codes[i] EXCEPT !.consumed = TRUE] \in CodeRecord
      BY <1>2 DEF CodeRecord
<1>4. DOMAIN codes = 1 .. Len(codes) /\ Len(codes) \in Nat
      BY <1>1
<1>5. Consumed(p) \in [1 .. Len(codes) -> CodeRecord]
      BY <1>2, <1>3, <1>4 DEF Consumed
<1>6. Consumed(p) \in Seq(CodeRecord) /\ Len(Consumed(p)) = Len(codes)
      BY <1>4, <1>5
<1> QED BY <1>2, <1>4, <1>5, <1>6 DEF Consumed, CodeRecord

\* A code is issued.
LEMMA IssueKeeps ==
    ASSUME OwnerInv, NEW p \in Purposes, IssueCode(p) PROVE OwnerInv'
<1> USE OwnerAssumption DEF OwnerInv
<1> DEFINE n == Len(codes)
           new == [purpose |-> p, consumed |-> FALSE, expired |-> FALSE]
<1>a. codes \in Seq(CodeRecord) /\ n \in Nat /\ n < MaxCodes /\ new \in CodeRecord
      BY DEF IssueCode, OwnerTypes, OwnerTypeOK, CodeRecord, Purposes
<1>c. codes' = Append(Consumed(p), new)
      BY DEF IssueCode
<1>d. /\ Consumed(p) \in Seq(CodeRecord) /\ Len(Consumed(p)) = n
      /\ DOMAIN codes = 1 .. n
      /\ \A i \in 1 .. n :
                 /\ Consumed(p)[i].purpose = codes[i].purpose
                 /\ Consumed(p)[i].expired = codes[i].expired
                 /\ codes[i].consumed \/ codes[i].purpose = p => Consumed(p)[i].consumed
      BY <1>a, ConsumedCodes
<1>e. /\ codes' \in Seq(CodeRecord) /\ Len(codes') = n + 1 /\ DOMAIN codes' = 1 .. n + 1
      /\ \A i \in 1 .. n : codes'[i] = Consumed(p)[i]
      /\ codes'[n+1] = new
      BY <1>a, <1>c, <1>d
<1>f. UNCHANGED <<owner, sessions, cookie, request, auditLog>>
      BY DEF IssueCode
<1> HIDE DEF n
<1>1. OwnerTypes'
      BY <1>a, <1>e, <1>f DEF OwnerTypes, OwnerTypeOK, CodeRecord, n
<1>k. /\ DOMAIN codes \subseteq DOMAIN codes'
      /\ \A i \in DOMAIN codes : codes'[i].purpose = codes[i].purpose
      /\ \A i \in DOMAIN codes : codes[i].consumed => codes'[i].consumed
      <2>1. \A i \in 1 .. n : i \in 1 .. n + 1
            BY ONLY <1>a
      <2> QED BY <1>d, <1>e, <2>1
<1>2. RecordsInv'
      <2>1. RecordsInv
            OBVIOUS
      <2>2. request' = request /\ auditLog' = auditLog /\ sessions' = sessions
            BY <1>f
      <2>3. \A x \in Browsers : request'[x].pc \in Purposes =>
               /\ request'[x].code \in DOMAIN codes'
               /\ codes'[request'[x].code].purpose = request'[x].pc
               /\ request'[x].password \in Passwords
            BY ONLY <1>k, <2>1, <2>2 DEF RecordsInv
      <2>4. Claims' = Claims
            BY ONLY <2>2 DEF Claims
      <2>5. \A i \in Claims : auditLog'[i].of \in DOMAIN codes' /\ codes'[auditLog'[i].of].consumed
            <3>1. ASSUME NEW i \in Claims
                  PROVE  auditLog'[i].of \in DOMAIN codes' /\ codes'[auditLog'[i].of].consumed
                  <4>1. auditLog[i].of \in DOMAIN codes /\ codes[auditLog[i].of].consumed
                        BY ONLY <2>1, i \in Claims DEF RecordsInv
                  <4>2. auditLog'[i] = auditLog[i]
                        BY ONLY <2>2
                  <4> QED BY ONLY <1>k, <4>1, <4>2
            <3> QED BY ONLY <3>1
      <2>6. \A i \in DOMAIN auditLog' :
               auditLog'[i].event = "owner_login_succeeded" => auditLog'[i].of \in DOMAIN sessions'
            BY ONLY <2>1, <2>2 DEF RecordsInv
      <2>7. \A i \in Claims' : auditLog'[i].of \in DOMAIN codes' /\ codes'[auditLog'[i].of].consumed
            BY <2>4, <2>5
      <2> QED BY ONLY <2>3, <2>6, <2>7 DEF RecordsInv
<1>3. OneSetup' /\ UsedOnce' /\ RecoveryRevokes'
      BY <1>f DEF OneSetup, SetupClaims, UsedOnce, RecoveryRevokes, Claims
<1>4. NewestOpen'
      BY <1>a, <1>d, <1>e DEF NewestOpen, IsOpen
<1> QED BY <1>1, <1>2, <1>3, <1>4

\* A code expires.
LEMMA ExpiryKeeps ==
    ASSUME OwnerInv, NEW i \in DOMAIN codes, CodeExpires(i) PROVE OwnerInv'
<1> USE OwnerAssumption DEF OwnerInv
<1>t. codes \in Seq(CodeRecord)
      BY DEF OwnerTypes, OwnerTypeOK, CodeRecord
<1> DEFINE late == [codes[i] EXCEPT !.expired = TRUE]
<1>i. i \in 1 .. Len(codes) /\ codes[i] \in CodeRecord
      BY <1>t
<1>s. late \in CodeRecord /\ i \in 1 .. Len(codes)
      BY <1>i DEF CodeRecord
<1>c. codes' = [codes EXCEPT ![i] = late]
      BY DEF CodeExpires
<1> HIDE DEF late
<1>a. codes \in Seq(CodeRecord) /\ codes' \in Seq(CodeRecord)
      BY <1>t, <1>s, <1>c, ExceptSeq
<1> USE DEF late
<1>b. /\ DOMAIN codes' = DOMAIN codes /\ Len(codes') = Len(codes)
      /\ \A k \in DOMAIN codes : /\ codes'[k].purpose = codes[k].purpose
                                 /\ codes'[k].consumed = codes[k].consumed
                                 /\ codes[k].expired => codes'[k].expired
      BY <1>a DEF CodeExpires, CodeRecord
<1>f. UNCHANGED <<owner, sessions, cookie, request, auditLog>>
      BY DEF CodeExpires
<1>1. OwnerTypes'
      BY <1>a, <1>b, <1>f DEF OwnerTypes, OwnerTypeOK, CodeRecord
<1>2. RecordsInv'
      BY <1>b, <1>f DEF RecordsInv, Claims
<1>3. OneSetup' /\ UsedOnce' /\ RecoveryRevokes'
      BY <1>f DEF OneSetup, SetupClaims, UsedOnce, RecoveryRevokes, Claims
<1>4. NewestOpen'
      BY <1>b DEF NewestOpen, IsOpen
<1> QED BY <1>1, <1>2, <1>3, <1>4

\* A form is matched to an open code.
LEMMA MatchKeeps ==
    ASSUME OwnerInv, NEW b \in Browsers, NEW i \in DOMAIN codes, NEW purpose \in Purposes,
           NEW p \in Passwords, Match(b, i, purpose, p)
    PROVE  OwnerInv'
<1> USE OwnerAssumption DEF OwnerInv
<1>f. UNCHANGED <<owner, codes, sessions, cookie, auditLog>>
      BY DEF Match
<1>1. OwnerTypes'
      BY DEF Match, OwnerTypes, OwnerTypeOK
<1>2. RecordsInv'
      BY DEF Match, RecordsInv, Claims, OwnerTypes, OwnerTypeOK
<1>3. OneSetup' /\ UsedOnce' /\ NewestOpen' /\ RecoveryRevokes'
      BY <1>f DEF OneSetup, SetupClaims, UsedOnce, RecoveryRevokes, Claims, NewestOpen, IsOpen
<1> QED BY <1>1, <1>2, <1>3

\* A request is answered, or dies, and a cookie goes: nothing else changes.
LEMMA AnswerKeeps ==
    ASSUME OwnerInv, NEW b \in Browsers, UNCHANGED <<owner, codes, sessions, auditLog>>,
           request' = request \/ ReplyTo(b),
             cookie' = cookie \/ cookie' = [cookie EXCEPT ![b] = 0]
    PROVE  OwnerInv'
<1> USE OwnerAssumption DEF OwnerInv
<1>w. Waiting \in RequestRecord /\ Waiting.pc = "none" /\ 0 \in 0 .. MaxSessions
      BY DEF Waiting, RequestRecord
<1>t. request \in [Browsers -> RequestRecord] /\ cookie \in [Browsers -> 0 .. MaxSessions]
      BY DEF OwnerTypes, OwnerTypeOK, RequestRecord
<1>a. /\ request' \in [Browsers -> RequestRecord] /\ cookie' \in [Browsers -> 0 .. MaxSessions]
      /\ \A c \in Browsers : request'[c] = request[c] \/ request'[c].pc = "none"
      BY <1>w, <1>t DEF ReplyTo
<1>1. OwnerTypes'
      BY <1>a DEF OwnerTypes, OwnerTypeOK, RequestRecord
<1>2. RecordsInv'
      BY <1>a DEF RecordsInv, Claims, Purposes
<1>3. OneSetup' /\ UsedOnce' /\ NewestOpen' /\ RecoveryRevokes'
      BY DEF OneSetup, SetupClaims, UsedOnce, RecoveryRevokes, Claims, NewestOpen, IsOpen
<1> QED BY <1>1, <1>2, <1>3
-----------------------------------------------------------------------------
\* What each entry of the audit log leaves as it was.

\* An entry is added to the audit log.
LEMMA LogAppends ==
    ASSUME OwnerTypes, NEW event \in Events, NEW of \in Nat
    PROVE  LET longer == Append(auditLog, [event |-> event, of |-> of])
           IN  /\ longer \in Seq(LogEntry)
               /\ DOMAIN auditLog = 1 .. Len(auditLog) /\ Len(auditLog) \in Nat
               /\ DOMAIN longer = 1 .. Len(auditLog) + 1
               /\ \A i \in DOMAIN auditLog : longer[i] = auditLog[i]
               /\ longer[Len(auditLog) + 1] = [event |-> event, of |-> of]
<1> DEFINE entry == [event |-> event, of |-> of]
<1>1. auditLog \in Seq(LogEntry) /\ entry \in LogEntry
      BY DEF OwnerTypes, LogEntry
<1> HIDE DEF entry
<1>2. /\ Append(auditLog, entry) \in Seq(LogEntry)
      /\ DOMAIN auditLog = 1 .. Len(auditLog) /\ Len(auditLog) \in Nat
      /\ DOMAIN Append(auditLog, entry) = 1 .. Len(auditLog) + 1
      /\ \A i \in DOMAIN auditLog : Append(auditLog, entry)[i] = auditLog[i]
      /\ Append(auditLog, entry)[Len(auditLog) + 1] = entry
      BY <1>1, AppendProperties, LenProperties
<1> QED BY <1>2 DEF entry

\* The setup code is redeemed.
LEMMA SetupKeeps ==
    ASSUME OwnerInv, NEW b \in Browsers, ClaimSetup(b) PROVE OwnerInv'
<1> USE OwnerAssumption DEF OwnerInv
<1> DEFINE r == request[b]
           n == Len(auditLog)
<1>1. CASE ~(IsOpen(codes[r.code]) /\ owner = <<>>)
      <2>1. ReplyTo(b) /\ UNCHANGED <<owner, codes, sessions, auditLog>> /\ cookie' = cookie
            BY <1>1 DEF ClaimSetup
      <2> QED BY <2>1, AnswerKeeps
<1>2. CASE IsOpen(codes[r.code]) /\ owner = <<>>
      <2>a. /\ r.pc = "setup" /\ owner' = Append(owner, r.password) /\ codes' = Consumed("setup")
            /\ auditLog' = Append(auditLog, [event |-> "owner_setup_completed", of |-> r.code])
            /\ request' = [request EXCEPT ![b].pc = "session"]
            /\ UNCHANGED <<sessions, cookie>>
            BY <1>2 DEF ClaimSetup, Audit
      <2>c. /\ r.code \in DOMAIN codes /\ codes[r.code].purpose = "setup"
                 /\ ~codes[r.code].consumed
            /\ r.password \in Passwords /\ "setup" \in Purposes /\ r.code \in Nat
            BY <2>a, <1>2 DEF RecordsInv, IsOpen, Purposes, OwnerTypes, OwnerTypeOK
      <2>d. owner' = <<r.password>> /\ owner' \in Seq(Passwords) /\ owner' # <<>>
              /\ Len(owner') = 1
            BY <2>a, <2>c, <1>2
      <2>e. /\ codes' \in Seq(CodeRecord)
            /\ DOMAIN codes' = DOMAIN codes /\ Len(codes') = Len(codes)
            /\ \A i \in DOMAIN codes :
                 /\ codes'[i].purpose = codes[i].purpose
                 /\ codes'[i].expired = codes[i].expired
                 /\ codes[i].consumed \/ codes[i].purpose = "setup" => codes'[i].consumed
            BY <2>a, <2>c, ConsumedCodes
      <2>f. /\ auditLog' \in Seq(LogEntry) /\ n \in Nat
            /\ DOMAIN auditLog = 1 .. n /\ DOMAIN auditLog' = 1 .. n + 1
            /\ \A i \in DOMAIN auditLog : auditLog'[i] = auditLog[i]
            /\ auditLog'[n + 1] = [event |-> "owner_setup_completed", of |-> r.code]
            BY <2>a, <2>c, LogAppends DEF Events
      <2>g. /\ request' \in [Browsers -> RequestRecord]
            /\ \A c \in Browsers : request'[c] = request[c] \/ request'[c].pc = "session"
            BY <2>a DEF OwnerTypes, OwnerTypeOK, RequestRecord
      <2>h. Claims' = Claims \cup {n + 1} /\ Claims \subseteq 1 .. n
            BY <2>f DEF Claims
      <2> HIDE DEF r, n
      <2>1. OwnerTypes'
            BY <2>a, <2>d, <2>e, <2>f, <2>g
            DEF OwnerTypes, OwnerTypeOK, CodeRecord, RequestRecord, LogEntry
      <2>2. RecordsInv'
            <3>1. \A x \in Browsers : request'[x].pc \in Purposes =>
                     /\ request'[x].code \in DOMAIN codes'
                     /\ codes'[request'[x].code].purpose = request'[x].pc
                     /\ request'[x].password \in Passwords
                  <4>1. \A x \in Browsers : request'[x].pc \in Purposes
                          => request'[x] = request[x]
                        BY <2>g DEF Purposes
                  <4> QED BY <4>1, <2>e DEF RecordsInv
            <3>2. \A x \in Claims' : auditLog'[x].of \in DOMAIN codes'
                    /\ codes'[auditLog'[x].of].consumed
                  <4>1. \A x \in Claims : auditLog'[x] = auditLog[x]
                        BY <2>f, <2>h
                  <4>2. \A x \in Claims : auditLog'[x].of \in DOMAIN codes'
                          /\ codes'[auditLog'[x].of].consumed
                        BY <4>1, <2>e DEF RecordsInv
                  <4> QED BY <4>2, <2>c, <2>e, <2>f, <2>h
            <3>3. \A x \in DOMAIN auditLog' :
                     auditLog'[x].event = "owner_login_succeeded"
                       => auditLog'[x].of \in DOMAIN sessions
                  BY <2>f DEF RecordsInv
            <3>4. sessions' = sessions
                  BY <2>a
            <3> QED BY ONLY <3>1, <3>2, <3>3, <3>4 DEF RecordsInv
      <2>3. OneSetup'
            <3>1. SetupClaims = {}
                  BY <1>2 DEF OneSetup
            <3>2. SetupClaims' = {n + 1}
                  BY <3>1, <2>f, <2>h DEF SetupClaims, Claims
            <3> QED BY <3>2, <2>d DEF OneSetup
      <2>4. UsedOnce'
            <3>1. \A i \in Claims : auditLog'[i].of = auditLog[i].of /\ auditLog'[i].of # r.code
                  BY <2>c, <2>f, <2>h DEF RecordsInv
            <3> QED BY <3>1, <2>f, <2>h DEF UsedOnce
      <2>5. NewestOpen'
            BY <2>e DEF NewestOpen, IsOpen
      <2>6. RecoveryRevokes'
            BY <2>a, <2>f, <2>h DEF RecoveryRevokes, n
      <2> QED BY <2>1, <2>2, <2>3, <2>4, <2>5, <2>6
<1> QED BY <1>1, <1>2
\* A recovery code is redeemed, and the sessions revoked.
LEMMA RecoveryKeeps ==
    ASSUME OwnerInv, NEW b \in Browsers, ClaimRecovery(b) PROVE OwnerInv'
<1> USE OwnerAssumption DEF OwnerInv
<1> DEFINE r == request[b]
           n == Len(auditLog)
<1>1. CASE ~(IsOpen(codes[r.code]) /\ Len(owner) = 1)
      <2>1. ReplyTo(b) /\ UNCHANGED <<owner, codes, sessions, auditLog>> /\ cookie' = cookie
            BY <1>1 DEF ClaimRecovery
      <2> QED BY <2>1, AnswerKeeps
<1>2. CASE IsOpen(codes[r.code]) /\ Len(owner) = 1
      <2>a. /\ r.pc = "recovery" /\ owner' = <<r.password>> /\ codes' = Consumed("recovery")
            /\ auditLog' = Append(auditLog, [event |-> "owner_recovery_completed", of |-> r.code])
            /\ request' = [request EXCEPT ![b] = Waiting]
            /\ sessions' = Revoked
            /\ cookie' = [cookie EXCEPT ![b] = 0]
            BY <1>2 DEF ClaimRecovery, Audit, ReplyTo
      <2>c. /\ r.code \in DOMAIN codes /\ codes[r.code].purpose = "recovery"
                 /\ ~codes[r.code].consumed
            /\ r.password \in Passwords /\ "recovery" \in Purposes /\ r.code \in Nat
            BY <2>a, <1>2 DEF RecordsInv, IsOpen, Purposes, OwnerTypes, OwnerTypeOK
      <2>d. owner' \in Seq(Passwords) /\ owner' # <<>> /\ Len(owner') = 1 /\ owner # <<>>
            <3>0. Len(owner) = 1 /\ Len(<<>>) = 0
                  BY <1>2, EmptySeq
            <3>1. owner # <<>>
                  BY ONLY <3>0
            <3>2. PICK p \in Passwords : p = r.password
                  BY <2>c
            <3> QED BY ONLY <3>1, <3>2, <2>a
      <2>e. /\ codes' \in Seq(CodeRecord)
            /\ DOMAIN codes' = DOMAIN codes /\ Len(codes') = Len(codes)
            /\ \A i \in DOMAIN codes :
                 /\ codes'[i].purpose = codes[i].purpose
                 /\ codes'[i].expired = codes[i].expired
                 /\ codes[i].consumed \/ codes[i].purpose = "recovery" => codes'[i].consumed
            BY <2>a, <2>c, ConsumedCodes
      <2>f. /\ auditLog' \in Seq(LogEntry) /\ n \in Nat
            /\ DOMAIN auditLog = 1 .. n /\ DOMAIN auditLog' = 1 .. n + 1
            /\ \A i \in DOMAIN auditLog : auditLog'[i] = auditLog[i]
            /\ auditLog'[n + 1] = [event |-> "owner_recovery_completed", of |-> r.code]
            BY <2>a, <2>c, LogAppends DEF Events
      <2>w. Waiting \in RequestRecord /\ Waiting.pc = "none" /\ 0 \in 0 .. MaxSessions
            BY DEF Waiting, RequestRecord
      <2>g. /\ request' \in [Browsers -> RequestRecord]
                 /\ cookie' \in [Browsers -> 0 .. MaxSessions]
            /\ \A c \in Browsers : request'[c] = request[c] \/ request'[c].pc = "none"
            BY <2>a, <2>w DEF OwnerTypes, OwnerTypeOK, RequestRecord
      <2>h. Claims' = Claims \cup {n + 1} /\ Claims \subseteq 1 .. n
            BY <2>f DEF Claims
      <2>s. /\ sessions' \in Seq(BOOLEAN) /\ DOMAIN sessions' = DOMAIN sessions
                 /\ Len(sessions') = Len(sessions)
            /\ \A i \in DOMAIN sessions : ~sessions'[i]
            <3>1. sessions \in Seq(BOOLEAN) /\ sessions' = [i \in DOMAIN sessions |-> FALSE]
                  BY <2>a DEF OwnerTypes, OwnerTypeOK, Revoked
            <3>2. Len(sessions) \in Nat /\ DOMAIN sessions = 1 .. Len(sessions)
                  BY <3>1
            <3>3. sessions' \in [1 .. Len(sessions) -> BOOLEAN]
                  BY <3>1, <3>2
            <3> QED BY ONLY <3>1, <3>2, <3>3
      <2> HIDE DEF r, n
      <2>1. OwnerTypes'
            BY <2>d, <2>e, <2>f, <2>g, <2>s
            DEF OwnerTypes, OwnerTypeOK, CodeRecord, RequestRecord, LogEntry
      <2>2. RecordsInv'
            <3>1. \A x \in Browsers : request'[x].pc \in Purposes =>
                     /\ request'[x].code \in DOMAIN codes'
                     /\ codes'[request'[x].code].purpose = request'[x].pc
                     /\ request'[x].password \in Passwords
                  <4>1. \A x \in Browsers : request'[x].pc \in Purposes
                          => request'[x] = request[x]
                        BY <2>g DEF Purposes
                  <4> QED BY <4>1, <2>e DEF RecordsInv
            <3>2. \A x \in Claims' : auditLog'[x].of \in DOMAIN codes'
                    /\ codes'[auditLog'[x].of].consumed
                  <4>1. \A x \in Claims : auditLog'[x] = auditLog[x]
                        BY <2>f, <2>h
                  <4>2. \A x \in Claims : auditLog'[x].of \in DOMAIN codes'
                          /\ codes'[auditLog'[x].of].consumed
                        BY <4>1, <2>e DEF RecordsInv
                  <4> QED BY <4>2, <2>c, <2>e, <2>f, <2>h
            <3>3. \A x \in DOMAIN auditLog' :
                     auditLog'[x].event = "owner_login_succeeded"
                       => auditLog'[x].of \in DOMAIN sessions'
                  BY <2>f, <2>s DEF RecordsInv
            <3> QED BY ONLY <3>1, <3>2, <3>3 DEF RecordsInv
      <2>3. OneSetup'
            <3>1. SetupClaims' = SetupClaims
                  BY <2>f, <2>h DEF SetupClaims, Claims
            <3> QED BY <3>1, <2>d DEF OneSetup
      <2>4. UsedOnce'
            <3>1. \A i \in Claims : auditLog'[i].of = auditLog[i].of /\ auditLog'[i].of # r.code
                  BY <2>c, <2>f, <2>h DEF RecordsInv
            <3>2. \A i \in Claims : auditLog'[n + 1].of # auditLog'[i].of
                  BY <3>1, <2>f
            <3>3. \A i, j \in Claims : auditLog'[i].of = auditLog'[j].of => i = j
                  BY <3>1 DEF UsedOnce
            <3> QED BY ONLY <3>2, <3>3, <2>h DEF UsedOnce
      <2>5. NewestOpen'
            BY <2>e DEF NewestOpen, IsOpen
      <2>6. RecoveryRevokes'
            <3>1. \A j \in DOMAIN auditLog' :
                     auditLog'[j].event = "owner_login_succeeded"
                       => auditLog'[j].of \in DOMAIN sessions
                  BY <2>f DEF RecordsInv
            <3> QED BY <3>1, <2>s DEF RecoveryRevokes
      <2> QED BY <2>1, <2>2, <2>3, <2>4, <2>5, <2>6
<1> QED BY <1>1, <1>2

\* Entries that are no claim and no login leave what is said of those alone,
\* and so does the end of a session.
LEMMA NotedKeeps ==
    ASSUME OwnerInv, UNCHANGED <<owner, codes>>,
           NEW event \in Events \ {"owner_setup_completed", "owner_recovery_completed",
                                   "owner_login_succeeded"},
           NEW of \in Nat, NEW lost \in SUBSET DOMAIN sessions,
           \/ auditLog' = auditLog
           \/ auditLog' = Append(auditLog, [event |-> event, of |-> of]),
           sessions' = [i \in DOMAIN sessions |-> IF i \in lost THEN FALSE ELSE sessions[i]],
           request' \in [Browsers -> RequestRecord], cookie' \in [Browsers -> 0 .. MaxSessions],
           \A c \in Browsers : request'[c] = request[c] \/ request'[c].pc \notin Purposes
    PROVE  OwnerInv'
<1> USE OwnerAssumption DEF OwnerInv
<1>s. /\ sessions' \in Seq(BOOLEAN) /\ DOMAIN sessions' = DOMAIN sessions
           /\ Len(sessions') = Len(sessions)
      /\ \A i \in DOMAIN sessions : sessions'[i] => sessions[i]
      <2>1. sessions \in Seq(BOOLEAN)
            BY DEF OwnerTypes, OwnerTypeOK
      <2>2. Len(sessions) \in Nat /\ DOMAIN sessions = 1 .. Len(sessions)
            BY <2>1
      <2>3. \A i \in 1 .. Len(sessions) : sessions[i] \in BOOLEAN
            BY <2>1, <2>2
      <2>4. /\ sessions' = [i \in 1 .. Len(sessions) |-> IF i \in lost THEN FALSE ELSE sessions[i]]
            /\ \A i \in 1 .. Len(sessions) : (IF i \in lost THEN FALSE ELSE sessions[i]) \in BOOLEAN
            BY <2>2, <2>3
      <2>5. sessions' \in [1 .. Len(sessions) -> BOOLEAN]
            BY ONLY <2>4
      <2>6. \A i \in 1 .. Len(sessions) : sessions'[i] => sessions[i]
            BY <2>3, <2>4
      <2> QED BY ONLY <2>2, <2>5, <2>6
<1>f. /\ auditLog' \in Seq(LogEntry)
      /\ DOMAIN auditLog \subseteq DOMAIN auditLog'
      /\ \A i \in DOMAIN auditLog : auditLog'[i] = auditLog[i]
      /\ \A i \in DOMAIN auditLog' : i \in DOMAIN auditLog \/ auditLog'[i].event = event
      <2>1. CASE auditLog' = auditLog
            BY <2>1 DEF OwnerTypes
      <2>2. CASE auditLog' = Append(auditLog, [event |-> event, of |-> of])
            <3>1. PICK n : n = Len(auditLog)
                  OBVIOUS
            <3>2. /\ auditLog' \in Seq(LogEntry) /\ n \in Nat
                  /\ DOMAIN auditLog = 1 .. n /\ DOMAIN auditLog' = 1 .. n + 1
                  /\ \A i \in DOMAIN auditLog : auditLog'[i] = auditLog[i]
                  /\ auditLog'[n + 1].event = event
                  BY <2>2, <3>1, LogAppends
            <3>3. \A i \in 1 .. n + 1 : i \in 1 .. n \/ i = n + 1
                  BY ONLY <3>2
            <3>4. \A i \in 1 .. n : i \in 1 .. n + 1
                  BY ONLY <3>2
            <3> QED BY ONLY <3>2, <3>3, <3>4
      <2> QED BY <2>1, <2>2
<1>h. Claims' = Claims /\ SetupClaims' = SetupClaims /\ Claims \subseteq DOMAIN auditLog
      BY <1>f DEF Claims, SetupClaims
<1>1. OwnerTypes'
      BY <1>f, <1>s DEF OwnerTypes, OwnerTypeOK, RequestRecord, LogEntry
<1>2. RecordsInv'
      <2>1. \A x \in Browsers : request'[x].pc \in Purposes =>
               /\ request'[x].code \in DOMAIN codes'
               /\ codes'[request'[x].code].purpose = request'[x].pc
               /\ request'[x].password \in Passwords
            BY DEF RecordsInv
      <2>2. \A x \in Claims' : auditLog'[x].of \in DOMAIN codes'
              /\ codes'[auditLog'[x].of].consumed
            BY <1>f, <1>h DEF RecordsInv
      <2>3. \A x \in DOMAIN auditLog' :
               auditLog'[x].event = "owner_login_succeeded"
                 => auditLog'[x].of \in DOMAIN sessions'
            BY <1>f, <1>s DEF RecordsInv
      <2> QED BY ONLY <2>1, <2>2, <2>3 DEF RecordsInv
<1>3. OneSetup' /\ NewestOpen'
      BY <1>h DEF OneSetup, NewestOpen, IsOpen
<1>5. UsedOnce'
      <2>1. \A i \in Claims : auditLog'[i] = auditLog[i]
            BY <1>f, <1>h
      <2> QED BY <2>1, <1>h DEF UsedOnce
<1>4. RecoveryRevokes'
      BY <1>f, <1>h, <1>s DEF RecoveryRevokes, RecordsInv
<1> QED BY <1>1, <1>2, <1>3, <1>4, <1>5
\* A login fails, or its password is right.
LEMMA LoginKeeps ==
    ASSUME OwnerInv, NEW b \in Browsers, NEW p \in Passwords, Login(b, p) PROVE OwnerInv'
<1> USE OwnerAssumption DEF OwnerInv
<1>a. /\ request \in [Browsers -> RequestRecord] /\ cookie \in [Browsers -> 0 .. MaxSessions]
      /\ UNCHANGED <<owner, codes, sessions, cookie>>
      BY DEF Login, OwnerTypes, OwnerTypeOK, RequestRecord
<1> DEFINE begun == [pc |-> "session", code |-> 0, password |-> p, replaced |-> cookie[b]]
<1>b. begun \in RequestRecord /\ begun.pc \notin Purposes
      BY <1>a DEF RequestRecord, Purposes
<1>c. /\ request' = request \/ request' = [request EXCEPT ![b] = begun]
      /\ \/ auditLog' = auditLog
         \/ auditLog' = Append(auditLog, [event |-> "owner_login_failed", of |-> 0])
      BY DEF Login, LoginFailed, Audit
<1> HIDE DEF begun
<1>d. /\ request' \in [Browsers -> RequestRecord]
      /\ \A c \in Browsers : request'[c] = request[c] \/ request'[c].pc \notin Purposes
      BY <1>a, <1>b, <1>c
<1>2. PICK lost \in SUBSET DOMAIN sessions : lost = {}
      OBVIOUS
<1>3. 0 \in Nat /\ cookie' \in [Browsers -> 0 .. MaxSessions]
      BY <1>a
<1>e. sessions' = [i \in DOMAIN sessions |-> IF i \in lost THEN FALSE ELSE sessions[i]]
      BY <1>a, <1>2 DEF OwnerTypes, OwnerTypeOK
<1>f. "owner_login_failed" \in Events \ {"owner_setup_completed", "owner_recovery_completed",
                                         "owner_login_succeeded"}
      BY DEF Events
<1> QED BY <1>3, <1>a, <1>c, <1>d, <1>e, <1>f, NotedKeeps

\* Logging out, and the end of a session.
LEMMA LogoutKeeps ==
    ASSUME OwnerInv, NEW b \in Browsers, Logout(b) PROVE OwnerInv'
<1> USE OwnerAssumption DEF OwnerInv
<1>a. /\ request \in [Browsers -> RequestRecord] /\ cookie \in [Browsers -> 0 .. MaxSessions]
      /\ UNCHANGED <<owner, codes, request>> /\ cookie' = [cookie EXCEPT ![b] = 0]
      /\ sessions' = [sessions EXCEPT ![cookie[b]] = FALSE]
      /\ \/ auditLog' = auditLog
         \/ auditLog' = Append(auditLog, [event |-> "owner_logout", of |-> cookie[b]])
      BY DEF Logout, RevokeSession, Audit, OwnerTypes, OwnerTypeOK, RequestRecord
<1>1. PICK of \in Nat : of = cookie[b]
      BY <1>a
<1>2. PICK lost \in SUBSET DOMAIN sessions : lost = {of} \cap DOMAIN sessions
      OBVIOUS
<1>d. /\ cookie' \in [Browsers -> 0 .. MaxSessions] /\ request' \in [Browsers -> RequestRecord]
      /\ \A c \in Browsers : request'[c] = request[c] \/ request'[c].pc \notin Purposes
      /\ \/ auditLog' = auditLog
         \/ auditLog' = Append(auditLog, [event |-> "owner_logout", of |-> of])
      BY <1>a, <1>1
<1>e. sessions' = [i \in DOMAIN sessions |-> IF i \in lost THEN FALSE ELSE sessions[i]]
      BY <1>a, <1>1, <1>2 DEF OwnerTypes, OwnerTypeOK
<1>f. "owner_logout" \in Events \ {"owner_setup_completed", "owner_recovery_completed",
                                   "owner_login_succeeded"}
      BY DEF Events
<1> QED BY <1>a, <1>d, <1>e, <1>f, NotedKeeps

\* A session lapses.
LEMMA LapseKeeps ==
    ASSUME OwnerInv, NEW i \in DOMAIN sessions, SessionLapses(i) PROVE OwnerInv'
<1> USE OwnerAssumption DEF OwnerInv
<1>a. /\ request' \in [Browsers -> RequestRecord] /\ cookie' \in [Browsers -> 0 .. MaxSessions]
      /\ UNCHANGED <<owner, codes, request, auditLog>>
      /\ sessions' = [sessions EXCEPT ![i] = FALSE]
      BY DEF SessionLapses, OwnerTypes, OwnerTypeOK, RequestRecord
<1>2. PICK lost \in SUBSET DOMAIN sessions : lost = {i}
      OBVIOUS
<1>e. sessions' = [k \in DOMAIN sessions |-> IF k \in lost THEN FALSE ELSE sessions[k]]
      BY <1>a, <1>2 DEF OwnerTypes, OwnerTypeOK
<1>f. "owner_logout" \in Events \ {"owner_setup_completed", "owner_recovery_completed",
                                   "owner_login_succeeded"}
      BY DEF Events
<1> QED BY <1>a, <1>e, <1>f, NotedKeeps

\* A new session: whatever was good before is older than it.
LEMMA EstablishKeeps ==
    ASSUME OwnerInv, NEW b \in Browsers, EstablishSession(b) PROVE OwnerInv'
<1> USE OwnerAssumption DEF OwnerInv
<1> DEFINE n == Len(auditLog)
           m == Len(sessions)
           others == [i \in DOMAIN sessions |-> sessions[i] /\ i # request[b].replaced]
<1>a. /\ UNCHANGED <<owner, codes>> /\ m < MaxSessions
      /\ request' = [request EXCEPT ![b] = Waiting] /\ cookie' = [cookie EXCEPT ![b] = m + 1]
      /\ sessions' = Append(others, TRUE)
      /\ auditLog' = Append(auditLog, [event |-> "owner_login_succeeded", of |-> m + 1])
      BY DEF EstablishSession, NewSession, ReplyTo, Audit
<1>s. /\ m \in Nat /\ DOMAIN sessions = 1 .. m
      /\ sessions' \in Seq(BOOLEAN) /\ DOMAIN sessions' = 1 .. m + 1 /\ Len(sessions') = m + 1
      /\ \A i \in 1 .. m : sessions'[i] => sessions[i]
      <2>1. sessions \in Seq(BOOLEAN)
            BY DEF OwnerTypes, OwnerTypeOK
      <2>2. m \in Nat /\ DOMAIN sessions = 1 .. m
            BY <2>1
      <2>3. others \in [1 .. m -> BOOLEAN] /\ \A i \in 1 .. m : others[i] => sessions[i]
            BY <2>2
      <2> HIDE DEF m, others
      <2>4. others \in Seq(BOOLEAN) /\ Len(others) = m
            BY <2>2, <2>3
      <2>a. PICK good \in BOOLEAN : good = TRUE
            OBVIOUS
      <2>b. sessions' = Append(others, good)
            BY <1>a, <2>a
      <2>5. /\ sessions' \in Seq(BOOLEAN) /\ Len(sessions') = m + 1
            /\ \A i \in 1 .. m : sessions'[i] = others[i]
            BY <2>b, <2>4, AppendProperties
      <2>6. DOMAIN sessions' = 1 .. m + 1
            BY <2>5, LenProperties
      <2> QED BY <2>2, <2>3, <2>5, <2>6
<1>f. /\ auditLog' \in Seq(LogEntry) /\ n \in Nat
      /\ DOMAIN auditLog = 1 .. n /\ DOMAIN auditLog' = 1 .. n + 1
      /\ \A i \in DOMAIN auditLog : auditLog'[i] = auditLog[i]
      /\ auditLog'[n + 1] = [event |-> "owner_login_succeeded", of |-> m + 1]
      <2>1. m + 1 \in Nat /\ "owner_login_succeeded" \in Events
            BY <1>s DEF Events
      <2> QED BY <1>a, <2>1, LogAppends
<1>w. Waiting \in RequestRecord /\ Waiting.pc = "none"
      BY DEF Waiting, RequestRecord
<1>g. /\ request' \in [Browsers -> RequestRecord] /\ cookie' \in [Browsers -> 0 .. MaxSessions]
      /\ \A c \in Browsers : request'[c] = request[c] \/ request'[c].pc = "none"
      <2>1. m + 1 \in 0 .. MaxSessions
            BY <1>a, <1>s
      <2> HIDE DEF m
      <2> QED BY <2>1, <1>a, <1>w DEF OwnerTypes, OwnerTypeOK, RequestRecord
<1>h. Claims' = Claims /\ SetupClaims' = SetupClaims /\ Claims \subseteq DOMAIN auditLog
      BY <1>f DEF Claims, SetupClaims
<1> HIDE DEF n, m, others
<1>1. OwnerTypes'
      BY <1>a, <1>f, <1>g, <1>s DEF OwnerTypes, OwnerTypeOK, RequestRecord, LogEntry
<1>2. RecordsInv'
      <2>1. \A x \in Browsers : request'[x].pc \in Purposes =>
               /\ request'[x].code \in DOMAIN codes'
               /\ codes'[request'[x].code].purpose = request'[x].pc
               /\ request'[x].password \in Passwords
            BY <1>a, <1>g DEF RecordsInv, Purposes
      <2>2. \A x \in Claims' : auditLog'[x].of \in DOMAIN codes'
              /\ codes'[auditLog'[x].of].consumed
            BY <1>a, <1>f, <1>h DEF RecordsInv
      <2>3. \A x \in DOMAIN auditLog' :
               auditLog'[x].event = "owner_login_succeeded"
                 => auditLog'[x].of \in DOMAIN sessions'
            BY <1>f, <1>s DEF RecordsInv
      <2> QED BY ONLY <2>1, <2>2, <2>3 DEF RecordsInv
<1>3. OneSetup' /\ NewestOpen'
      BY <1>a, <1>h DEF OneSetup, NewestOpen, IsOpen
<1>5. UsedOnce'
      <2>1. \A i \in Claims : auditLog'[i] = auditLog[i]
            BY <1>f, <1>h
      <2> QED BY <2>1, <1>h DEF UsedOnce
<1>4. RecoveryRevokes'
      <2> SUFFICES ASSUME NEW i \in Claims, NEW j \in DOMAIN auditLog',
                          auditLog'[i].event = "owner_recovery_completed",
                          auditLog'[j].event = "owner_login_succeeded", sessions'[auditLog'[j].of]
                   PROVE  i < j
            BY <1>h DEF RecoveryRevokes
      <2>1. CASE j = n + 1
            BY <2>1, <1>f, <1>h
      <2>2. CASE j \in DOMAIN auditLog
            <3>1. auditLog[i].event = "owner_recovery_completed"
                    /\ auditLog[j].event = "owner_login_succeeded"
                  BY <2>2, <1>f, <1>h
            <3>2. auditLog[j].of \in 1 .. m /\ sessions'[auditLog[j].of]
                  BY <2>2, <3>1, <1>f, <1>s DEF RecordsInv
            <3> QED BY <2>2, <3>1, <3>2, <1>s DEF RecoveryRevokes
      <2> QED BY <2>1, <2>2, <1>f
<1> QED BY <1>1, <1>2, <1>3, <1>4, <1>5

\* Every step keeps the invariant.
LEMMA OwnerStepKeeps == OwnerInv /\ [OwnerNext]_ownerVars => OwnerInv'
<1> SUFFICES ASSUME OwnerInv, [OwnerNext]_ownerVars PROVE OwnerInv'
    OBVIOUS
<1>1. CASE \E p \in Purposes : IssueCode(p)
      BY <1>1, IssueKeeps
<1>2. CASE \E i \in DOMAIN codes : CodeExpires(i)
      BY <1>2, ExpiryKeeps
<1>3. CASE \E i \in DOMAIN sessions : SessionLapses(i)
      BY <1>3, LapseKeeps
<1>4. ASSUME NEW b \in Browsers, NEW i \in DOMAIN codes, NEW p \in Passwords,
             SetupForm(b, i, p) \/ RecoveryForm(b, i, p)
      PROVE  OwnerInv'
      BY <1>4, MatchKeeps DEF SetupForm, RecoveryForm, Purposes
<1>5. ASSUME NEW b \in Browsers, NEW p \in Passwords, Login(b, p) PROVE OwnerInv'
      BY <1>5, LoginKeeps
<1>6. ASSUME NEW b \in Browsers, ClaimSetup(b) \/ ClaimRecovery(b) \/ EstablishSession(b)
               PROVE OwnerInv'
      BY <1>6, SetupKeeps, RecoveryKeeps, EstablishKeeps
<1>7. ASSUME NEW b \in Browsers, CookieDropped(b) \/ RequestDies(b) PROVE OwnerInv'
      BY <1>7, AnswerKeeps DEF CookieDropped, RequestDies
<1>8. ASSUME NEW b \in Browsers, Logout(b) PROVE OwnerInv'
      BY <1>8, LogoutKeeps
<1>9. CASE UNCHANGED ownerVars
      BY <1>9 DEF ownerVars, OwnerInv, OwnerTypes, OwnerTypeOK, RecordsInv, OneSetup, UsedOnce,
        NewestOpen,
                  RecoveryRevokes, Claims, SetupClaims, IsOpen
<1> QED BY <1>1, <1>2, <1>3, <1>4, <1>5, <1>6, <1>7, <1>8, <1>9 DEF OwnerNext

\* What the invariant says of codes and sessions.
LEMMA OwnerInvHolds == OwnerInv => CodesRedeemedOnce
<1> SUFFICES ASSUME OwnerInv PROVE OneOwner
    BY DEF OwnerInv, CodesRedeemedOnce
<1>1. Cardinality(SetupClaims) = Len(owner) /\ Len(owner) <= 1
      <2>0. Len(<<>>) = 0 /\ Cardinality({}) = 0
            BY FS_EmptySet, EmptySeq
      <2>1. CASE owner = <<>>
            <3>1. SetupClaims = {} /\ Len(owner) = 0
                  BY <2>0, <2>1 DEF OwnerInv, OneSetup
            <3> QED BY <2>0, <3>1
      <2>2. CASE owner # <<>>
            <3>1. PICK i : SetupClaims = {i}
                  BY <2>2 DEF OwnerInv, OneSetup
            <3>2. Cardinality({i}) = 1
                  BY FS_Singleton
            <3>3. Len(owner) = 1
                  BY <2>2 DEF OwnerInv, OneSetup
            <3> QED BY <3>1, <3>2, <3>3
      <2> QED BY <2>1, <2>2
<1> QED BY <1>1 DEF OneOwner, SetupClaims

\* For any number of browsers, codes and sessions, and in whatever order their
\* requests cross: there is one owner, no code is redeemed twice, an issue
\* supersedes the open codes, and a recovery revokes every session that came
\* before it (packages/db, owner-auth.ts: issueSetupChallenge, claimOwnerSetup and
\* claimOwnerRecovery).
THEOREM OneOwnerOneUse == OwnerSpec => []CodesRedeemedOnce
<1>1. OwnerSpec => []OwnerInv
      BY InitOwner, OwnerStepKeeps, PTL DEF OwnerSpec
<1> QED BY <1>1, OwnerInvHolds, PTL

-----------------------------------------------------------------------------
\* Machine credentials.

\* The lock: one revocation at a time is between its update and its commit,
\* and the row is live until that commits; only one ever commits.
LockInv ==
    /\ \A v \in Revokers : revoking[v] \in {"sentinel", "commit"} => holder = v /\ row = "live"
    /\ row # "none" => project
    /\ \A v \in Revokers : revoking[v] = "done" => row = "revoked"
    /\ \A v, w \in Revokers : revoking[v] = "done" /\ revoking[w] = "done" => v = w

\* The cache: the sentinel is there before the commit, and until nobody who
\* read the live row is about to store it.
CacheInv ==
    /\ \A r \in Requests : Is(r, "delete") => expired
    /\ \A v \in Revokers : revoking[v] = "commit" => expired \/ cached = "revoked"
    /\ row = "revoked" =>
           \/ expired
           \/ cached = "revoked"
           \/ cached = "none" /\ \A r \in Requests : ~Is(r, "store")

\* A request that came after a revocation had answered read no live row.
LateInv ==
    \A r \in Requests : resolving[r].late =>
        row = "revoked" /\ resolving[r].pc \in {"delete", "read", "refused"}

CredInv == CredTypeOK /\ LockInv /\ CacheInv /\ LateInv

-----------------------------------------------------------------------------

\* The inductive invariant holds at first.
LEMMA CredInitInv == CredInit => CredInv
<1> SUFFICES ASSUME CredInit PROVE CredInv
  OBVIOUS
<1> USE DEF CredInit, NewRequest, NoHolder, Is
<1>1. CredTypeOK
  BY DEF CredTypeOK
<1>2. LockInv /\ CacheInv /\ LateInv
  BY DEF LockInv, CacheInv, LateInv
<1> QED
  BY <1>1, <1>2 DEF CredInv

\* A project is created, with its credential.
LEMMA CreateProjectInv == CredInv /\ CreateProject => CredInv'
BY DEF CreateProject, InsertCredential, CredInv, CredTypeOK, LockInv, CacheInv, LateInv, Is

\* The credential expires.
LEMMA ExpiresInv == CredInv /\ Expires => CredInv'
BY DEF Expires, CredInv, CredTypeOK, LockInv, CacheInv, LateInv, Is

\* What is cached lapses.
LEMMA LapsesInv == CredInv /\ (CacheLapses \/ SentinelLapses) => CredInv'
BY DEF CacheLapses, SentinelLapses, CredInv, CredTypeOK, LockInv, CacheInv, LateInv, Is

\* A resolution takes one step.
LEMMA ResolvingInv ==
    ASSUME CredInv, NEW r \in Requests, Resolving(r) \/ NextRequest(r)
    PROVE  CredInv'
<1> USE DEF CredInv, CredTypeOK, LockInv, CacheInv, LateInv, Is
<1>1. CASE ReadCache(r)
  <2>1. resolving'[r].pc \in {"refused", "accepted", "delete", "read"}
    BY <1>1 DEF ReadCache, CachedGood
  <2>2. resolving'[r].pc = "delete" => expired
    BY <1>1 DEF ReadCache, CachedGood
  <2>3. resolving'[r].late => row = "revoked"
    BY <1>1 DEF ReadCache
  <2>4. resolving'[r].late => resolving'[r].pc # "accepted"
    BY <1>1, <2>3 DEF ReadCache, CachedGood
  <2> QED
    BY <1>1, <2>1, <2>2, <2>3, <2>4 DEF ReadCache
<1>2. CASE DeleteCached(r)
  BY <1>2 DEF DeleteCached, GoTo
<1>3. CASE ReadRow(r)
  BY <1>3 DEF ReadRow, GoTo
<1>4. CASE StoreResolved(r)
  BY <1>4 DEF StoreResolved, GoTo
<1>5. CASE ReadWinner(r)
  BY <1>5 DEF ReadWinner, GoTo, CachedGood
<1>6. CASE NextRequest(r)
  BY <1>6 DEF NextRequest, NewRequest
<1> QED
  BY <1>1, <1>2, <1>3, <1>4, <1>5, <1>6 DEF Resolving

\* A revocation takes one step.
LEMMA RevokingInv ==
    ASSUME CredInv, NEW v \in Revokers,
           Update(v) \/ WriteSentinel(v) \/ Commit(v) \/ RevocationFails(v)
    PROVE  CredInv'
<1> USE CredAssumption DEF CredInv, CredTypeOK, LockInv, CacheInv, LateInv, Is, NoHolder
<1>1. CASE Update(v)
  BY <1>1 DEF Update
<1>2. CASE WriteSentinel(v)
  BY <1>2 DEF WriteSentinel, Sentinel
<1>3. CASE Commit(v)
  BY <1>3 DEF Commit
<1>4. CASE RevocationFails(v)
  BY <1>4 DEF RevocationFails
<1> QED
  BY <1>1, <1>2, <1>3, <1>4

\* Every step keeps the invariant.
LEMMA CredStepInv == CredInv /\ [CredNext]_credVars => CredInv'
<1> SUFFICES ASSUME CredInv, [CredNext]_credVars
             PROVE  CredInv'
  OBVIOUS
<1>1. CASE UNCHANGED credVars
  BY <1>1 DEF credVars, CredInv, CredTypeOK, LockInv, CacheInv, LateInv, Is
<1>2. CASE CredNext
  BY <1>2, CreateProjectInv, ExpiresInv, LapsesInv, ResolvingInv, RevokingInv DEF CredNext
<1> QED
  BY <1>1, <1>2

\* What the invariant says of a revoked credential.
LEMMA CredInvIsEnough == CredInv => RevokedIsRefused
<1> SUFFICES ASSUME CredInv PROVE RevokedIsRefused
  OBVIOUS
<1> DEFINE D == {v \in Revokers : revoking[v] = "done"}
<1>1. D = {} \/ \E v \in Revokers : D = {v}
  BY DEF CredInv, LockInv
<1>2. Cardinality(D) <= 1
  BY <1>1, FS_EmptySet, FS_Singleton
<1>3. \A r \in Requests : resolving[r].late => ~Is(r, "accepted")
  BY DEF CredInv, LateInv, Is
<1> QED
  BY <1>2, <1>3 DEF RevokedIsRefused

-----------------------------------------------------------------------------

(* The state of a credential, its cache and its requests keeps its type, in *)
(* every interleaving of resolveMachineCredential and                       *)
(* revokeMachineCredential.                                                 *)
THEOREM CredTypeCorrect == CredSpec => []CredTypeOK
<1>1. CredInv => CredTypeOK
  BY DEF CredInv
<1> QED
  BY <1>1, CredInitInv, CredStepInv, PTL DEF CredSpec

(* Revocation is immediate: once revokeMachineCredential has answered,      *)
(* resolveMachineCredential refuses every request that comes, however many  *)
(* resolutions were under way; and only one revocation answers.             *)
THEOREM RevocationImmediate == CredSpec => []RevokedIsRefused
BY CredInitInv, CredStepInv, CredInvIsEnough, PTL DEF CredSpec

-----------------------------------------------------------------------------
\* The media store.

Storing(u) == upload[u].pc \in {"put", "insert"}

\* What exists: the object before the row, the row before any reference.
ObjectFirst ==
    /\ asset # NoAsset => asset.id \in Uploads /\ object # "none"
    /\ \A u \in Uploads : upload[u].pc = "insert" => object # "none"
    /\ \A u \in Uploads : upload[u].pc = "done" => upload[u].id # "none"
    /\ \A u \in Uploads : upload[u].id # "none" => asset # NoAsset /\ upload[u].id = asset.id
    /\ \A v \in Viewers : viewer[v].pc = "get" => object # "none"
    /\ \A v \in Viewers : viewer[v].pc \notin {"error", "notFound"}

\* What no crossing disturbs.
OneStores ==
    ~crossed =>
        /\ \A u, w \in Uploads : Storing(u) /\ Storing(w) => u = w
        /\ \A u \in Uploads : Storing(u) => asset = NoAsset
        /\ \A u \in Uploads : upload[u].pc = "insert" => object = upload[u].type
        /\ asset # NoAsset => object = asset.type

MediaInv == MediaTypeOK /\ ObjectFirst /\ OneStores

-----------------------------------------------------------------------------

\* The inductive invariant holds at first.
LEMMA MediaInitInv == MediaInit => MediaInv
<1> SUFFICES ASSUME MediaInit PROVE MediaInv
  OBVIOUS
<1> USE MediaAssumption DEF MediaInit, Storing, NoAsset
<1>1. MediaTypeOK
  BY DEF MediaTypeOK
<1>2. \A u \in Uploads : upload[u].pc = "new" /\ upload[u].id = "none"
  OBVIOUS
<1>3. \A v \in Viewers : viewer[v].pc = "new"
  OBVIOUS
<1>4. ObjectFirst
  BY <1>2, <1>3 DEF ObjectFirst
<1>5. OneStores
  BY <1>2 DEF OneStores
<1> QED
  BY <1>1, <1>4, <1>5 DEF MediaInv

\* An upload that moves on, with or without an id, stays one.
UploadsType == [Uploads -> [pc : {"new", "put", "insert", "done"}, type : Types,
                            id : Uploads \cup {"none"}]]

\* One upload moves on, and the others stay.
LEMMA UploadMoves ==
    ASSUME upload \in UploadsType, NEW u \in Uploads,
           NEW pc \in {"new", "put", "insert", "done"}, NEW id \in Uploads \cup {"none"}
    PROVE  [upload EXCEPT ![u] = [@ EXCEPT !.pc = pc, !.id = id]] \in UploadsType
<1> DEFINE next == [upload[u] EXCEPT !.pc = pc, !.id = id]
<1>1. upload[u] \in [pc : {"new", "put", "insert", "done"}, type : Types,
                     id : Uploads \cup {"none"}]
  BY DEF UploadsType
<1>2. upload[u].type \in Types
  BY <1>1
<1>3. next \in [pc : {"new", "put", "insert", "done"}, type : Types,
                id : Uploads \cup {"none"}]
  BY <1>1, <1>2
<1>4. [upload EXCEPT ![u] = [@ EXCEPT !.pc = pc, !.id = id]] = [upload EXCEPT ![u] = next]
  OBVIOUS
<1> QED
  <2> HIDE DEF next
  <2> QED
    BY <1>3, <1>4 DEF UploadsType

\* An upload takes one step.
LEMMA UploadInv ==
    ASSUME MediaInv, NEW u \in Uploads,
           LookUpBytes(u) \/ PutBytes(u) \/ InsertAsset(u) \/ UploadDies(u)
    PROVE  MediaInv'
<1> USE MediaAssumption DEF MediaInv, MediaTypeOK, ObjectFirst, OneStores, Storing, NoAsset
<1>1. CASE LookUpBytes(u)
  <2> DEFINE Pc == IF asset = NoAsset THEN "put" ELSE "done"
  <2>0. /\ asset.id \in Uploads \cup {"none"}
        /\ upload' = [upload EXCEPT ![u] = [@ EXCEPT !.pc = Pc, !.id = asset.id]]
        /\ UNCHANGED <<object, asset, viewer>>
        /\ crossed' \in BOOLEAN /\ Pc \in {"new", "put", "insert", "done"}
    BY <1>1 DEF LookUpBytes
  <2>1. MediaTypeOK'
    BY <2>0, UploadMoves DEF UploadsType
  <2>2. ObjectFirst'
    BY <1>1 DEF LookUpBytes
  <2>3. OneStores'
    BY <1>1 DEF LookUpBytes
  <2> QED
    BY <2>1, <2>2, <2>3
<1>2. CASE PutBytes(u)
  BY <1>2 DEF PutBytes
<1>3. CASE InsertAsset(u)
  <2>0. /\ asset' \in [id : Uploads \cup {"none"}, type : Types \cup {"none"}]
        /\ UNCHANGED <<object, viewer, crossed>>
        /\ upload' = [upload EXCEPT ![u] = [@ EXCEPT !.pc = "done", !.id = asset'.id]]
    BY <1>3 DEF InsertAsset
  <2>1. MediaTypeOK'
    BY <2>0, UploadMoves DEF UploadsType
  <2>2. ObjectFirst'
    BY <1>3 DEF InsertAsset
  <2>3. OneStores'
    BY <1>3 DEF InsertAsset
  <2> QED
    BY <2>1, <2>2, <2>3
<1>4. CASE UploadDies(u)
  BY <1>4 DEF UploadDies
<1> QED
  BY <1>1, <1>2, <1>3, <1>4

\* A read takes one step.
LEMMA ViewerInv ==
    ASSUME MediaInv, NEW v \in Viewers, FindAsset(v) \/ GetBytes(v)
    PROVE  MediaInv'
<1> USE MediaAssumption DEF MediaInv, MediaTypeOK, ObjectFirst, OneStores, Storing, NoAsset
<1>1. CASE FindAsset(v)
  BY <1>1 DEF FindAsset
<1>2. CASE GetBytes(v)
  BY <1>2 DEF GetBytes
<1> QED
  BY <1>1, <1>2

\* Every step keeps the invariant.
LEMMA MediaStepInv == MediaInv /\ [MediaNext]_mediaVars => MediaInv'
<1> SUFFICES ASSUME MediaInv, [MediaNext]_mediaVars
             PROVE  MediaInv'
  OBVIOUS
<1>1. CASE UNCHANGED mediaVars
  BY <1>1 DEF mediaVars, MediaInv, MediaTypeOK, ObjectFirst, OneStores, Storing
<1>2. CASE MediaNext
  BY <1>2, UploadInv, ViewerInv DEF MediaNext
<1> QED
  BY <1>1, <1>2

\* What the invariant says of uploads and readers.
LEMMA MediaInvIsEnough == MediaInv => OneAsset
BY MediaAssumption DEF MediaInv, ObjectFirst, OneStores, OneAsset, NoAsset

-----------------------------------------------------------------------------

(* Uploads, the row and the object keep their types.                        *)
THEOREM MediaTypeCorrect == MediaSpec => []MediaTypeOK
<1>1. MediaInv => MediaTypeOK
  BY DEF MediaInv
<1> QED
  BY <1>1, MediaInitInv, MediaStepInv, PTL DEF MediaSpec

(* However many uploads of the same bytes cross, and wherever they die, the *)
(* references they are answered with name one asset whose object is there,  *)
(* and unless first uploads crossed the object has the type the row has.    *)
THEOREM UploadsShareOneAsset == MediaSpec => []OneAsset
BY MediaInitInv, MediaStepInv, MediaInvIsEnough, PTL DEF MediaSpec

-----------------------------------------------------------------------------
\* The lifecycle plan.

Scans ==
    [at : Int, found : SUBSET Int, examined : Nat, state : {"open", "cut", "complete"}]

\* Of the keys K, a listing has found those up to where it is, and all of them
\* when it is complete.
SoFar(l, K) ==
    /\ \A k \in K : k <= l.at => k \in l.found
    /\ l.state = "complete" => K \subseteq l.found

RawOf(p) == {b \in raw : Owned[b] = p}

PlanStored ==
    /\ raw \subseteq Accepted /\ marked \subseteq Accepted
    /\ refs \subseteq Accepted /\ diagnosed \subseteq Accepted
    /\ before \cap marked = {}

Plans ==
    /\ listing \in [{"pending", "failed"} -> Scans] /\ scan \in Scans
    /\ limit \in Nat /\ budget \in Nat /\ counts \in [Registered -> Int]
    /\ projects \subseteq Registered
    /\ scan.examined <= budget

CountsEnough ==
    \A p \in Registered :
        counts[p] >= 0 => counts[p] >= Cardinality({b \in refs \cap before : IsPast(b, p)})

Reported ==
    \A p \in DOMAIN report :
        /\ p \in Registered
        /\ report[p].covered => (report[p].past \ report[p].protected) \cap marked = {}
        /\ report[p].listed => {b \in raw : IsPast(b, p)} \subseteq report[p].past

PlanInv ==
    /\ PlanStored /\ Plans
    /\ SoFar(listing["pending"], marked)
    /\ SoFar(scan, RawOf(Planning))
    /\ scan.state # "open" => Left # {}
    /\ CountsEnough /\ Reported

-----------------------------------------------------------------------------
FamilyOf(F, S) == F # {} /\ \A T \in F : T \subseteq S
HasSmallest(F) == \E T \in F : \A U \in F : U \subseteq T => U = T

\* A family of subsets of a finite set has a smallest member: what stands in
\* for induction over a finite set.
LEMMA SmallestMember ==
    ASSUME NEW S, IsFiniteSet(S), NEW F, FamilyOf(F, S)
    PROVE  HasSmallest(F)
<1> DEFINE R == StrictSubsetOrdering(S)
<1>1. IsWellFoundedOn(R, FiniteSubsetsOf(S))
      BY FS_StrictSubsetOrderingWellFounded
<1>2. F \subseteq FiniteSubsetsOf(S) /\ F # {}
      BY FS_Subset DEF FiniteSubsetsOf, FamilyOf
<1>3. \A T \in F : T \subseteq S
      BY DEF FamilyOf
<1> HIDE DEF R
<1>4. PICK T \in F : \A U \in F : ~(<<U, T>> \in R)
      BY <1>1, <1>2, WFMin
<1> QED BY <1>3, <1>4 DEF R, StrictSubsetOrdering, HasSmallest

\* A nonempty finite set of numbers has a least.
LEMMA LeastKey ==
    ASSUME NEW S \in SUBSET Int, IsFiniteSet(S), S # {}
    PROVE  Min(S) \in S /\ \A y \in S : Min(S) <= y
<1> DEFINE Bottom(T) == \E x \in T : \A y \in T : x <= y
           F == {T \in SUBSET S : T # {} /\ ~Bottom(T)}
<1>1. ASSUME F # {} PROVE FALSE
      <2>1. PICK T \in F : \A U \in F : U \subseteq T => U = T
            <3>1. FamilyOf(F, S)
                  BY <1>1 DEF FamilyOf
            <3> HIDE DEF F
            <3>2. HasSmallest(F)
                  BY ONLY <3>1, IsFiniteSet(S), SmallestMember
            <3> QED BY <3>2 DEF HasSmallest
      <2>2. PICK x \in T : x \in Int
            OBVIOUS
      <2>3. \A y \in T : y \in Int
            OBVIOUS
      <2>4. T \ {x} \notin F
            BY <2>1, <2>2
      <2>5. CASE T \ {x} = {}
            <3>1. \A y \in T : y = x
                  BY <2>5
            <3> QED BY <2>1, <2>2, <3>1
      <2>6. CASE Bottom(T \ {x})
            <3>1. PICK z \in T \ {x} : \A y \in T \ {x} : z <= y
                  BY <2>6
            <3>2. (IF z <= x THEN z ELSE x) \in T /\ \A y \in T : (IF z <= x THEN z ELSE x) <= y
                  BY ONLY <2>2, <2>3, <3>1
            <3> QED BY <2>1, <3>2
      <2> QED BY <2>4, <2>5, <2>6
<1>2. Bottom(S)
      BY <1>1
<1> QED BY <1>2 DEF Min

\* Keys are finitely many numbers.
LEMMA KeysAreNumbers ==
    /\ \A b \in Accepted : b \in Nat
    /\ \A p \in Registered : p \in Nat
    /\ \A k \in Bookkeeping : k \in Int /\ k \notin Accepted
    /\ IsFiniteSet(Accepted) /\ IsFiniteSet(Registered) /\ IsFiniteSet(Bookkeeping)
BY PlanAssumption

\* A listing takes the next key, and has found what it passed.
LEMMA NextKeyFinds ==
    ASSUME NEW l \in Scans, l.state = "open", NEW keys \in SUBSET Int, IsFiniteSet(keys),
           NEW ignored, NEW most \in Nat, NEW K, K \subseteq keys \ ignored, SoFar(l, K)
    PROVE  LET n == NextKey(l, keys, ignored, most)
           IN  /\ n \in Scans /\ SoFar(n, K)
               /\ l.examined <= most => n.examined <= most
<1>1. PICK rest : rest = {k \in keys : k > l.at}
      OBVIOUS
<1>2. PICK n : n = NextKey(l, keys, ignored, most)
      OBVIOUS
<1>3. /\ l.at \in Int /\ l.found \in SUBSET Int /\ l.examined \in Nat
      /\ \A k \in K : k \in Int /\ k \notin ignored
      BY DEF Scans
<1>4. CASE rest = {}
      <2>1. n = [l EXCEPT !.state = "complete"]
            BY <1>1, <1>2, <1>4 DEF NextKey
      <2>2. n \in Scans /\ n.at = l.at /\ n.found = l.found /\ n.examined = l.examined
            BY <2>1 DEF Scans
      <2>3. \A k \in K : k <= l.at
            BY <1>1, <1>3, <1>4
      <2> QED BY <1>2, <2>2, <2>3 DEF SoFar
<1>5. CASE rest # {} /\ l.examined + 1 > most
      <2>1. n = [l EXCEPT !.state = "cut"]
            BY <1>1, <1>2, <1>5 DEF NextKey
      <2>2. /\ n \in Scans /\ n.at = l.at /\ n.found = l.found /\ n.examined = l.examined
            /\ n.state = "cut"
            BY <2>1 DEF Scans
      <2> QED BY <1>2, <2>2 DEF SoFar
<1>6. CASE rest # {} /\ ~(l.examined + 1 > most)
      <2>1. PICK m : m = Min(rest)
            OBVIOUS
      <2>2. m \in rest /\ \A k \in rest : m <= k
            <3>1. rest \in SUBSET Int /\ IsFiniteSet(rest)
                  BY <1>1, FS_Subset
            <3> QED BY <1>6, <2>1, <3>1, LeastKey
      <2>3. n = [l EXCEPT !.at = m, !.examined = @ + 1, !.found = @ \cup ({m} \ ignored)]
            BY <1>1, <1>2, <1>6, <2>1 DEF NextKey
      <2>4. m \in Int /\ l.found \cup ({m} \ ignored) \in SUBSET Int /\ l.examined + 1 \in Nat
            BY <1>1, <1>3, <2>2
      <2>5. /\ n \in Scans /\ n.at = m /\ n.found = l.found \cup ({m} \ ignored)
            /\ n.examined = l.examined + 1 /\ n.state = "open"
            BY <2>3, <2>4 DEF Scans
      <2>6. \A k \in K : k <= m => k <= l.at \/ k = m
            BY <1>1, <1>3, <2>2, <2>4
      <2>7. SoFar(n, K)
            BY <1>3, <2>5, <2>6 DEF SoFar
      <2> QED BY <1>2, <1>3, <1>6, <2>5, <2>7
<1> QED BY <1>2, <1>4, <1>5, <1>6

\* What is gone need not be found.
LEMMA SoFarLess ==
    ASSUME NEW l, NEW K, SoFar(l, K), NEW J, J \subseteq K
    PROVE  SoFar(l, J)
BY DEF SoFar

\* The counts and the report stay true of less.
LEMMA FewerPast ==
    ASSUME NEW S, S \subseteq Accepted, NEW T, T \subseteq S, NEW p
    PROVE  /\ Cardinality({b \in S : IsPast(b, p)}) \in Nat
           /\ Cardinality({b \in T : IsPast(b, p)}) \in Nat
           /\ Cardinality({b \in T : IsPast(b, p)}) <= Cardinality({b \in S : IsPast(b, p)})
<1>1. PICK A, B : A = {b \in S : IsPast(b, p)} /\ B = {b \in T : IsPast(b, p)}
      OBVIOUS
<1>2. A \subseteq Accepted /\ B \subseteq A /\ IsFiniteSet(Accepted)
      BY <1>1, PlanAssumption
<1>3. IsFiniteSet(A) /\ IsFiniteSet(B)
      BY <1>2, FS_Subset
<1>4. Cardinality(A) \in Nat /\ Cardinality(B) \in Nat /\ Cardinality(B) <= Cardinality(A)
      BY <1>2, <1>3, FS_Subset, FS_CardinalityType
<1> QED BY <1>1, <1>4

\* The stores change meanwhile.
LEMMA MeanwhileKeeps == PlanInv /\ Meanwhile => PlanInv'
<1> SUFFICES ASSUME PlanInv, Meanwhile PROVE PlanInv'
    OBVIOUS
<1>1. UNCHANGED <<before, limit, projects, listing, counts, scan, budget, report>>
      BY DEF Meanwhile
<1>2. PICK b \in Accepted : Applied(b) \/ Diagnosed(b) \/ Unmarked(b) \/ Swept(b)
      BY DEF Meanwhile
<1>3. /\ raw' \subseteq raw /\ marked' \subseteq marked
      /\ refs' \cap before \subseteq refs \cap before
      /\ refs' \subseteq Accepted /\ diagnosed' \subseteq Accepted
      <2>1. CASE Applied(b)
            BY <2>1 DEF Applied, PlanInv, PlanStored
      <2>2. CASE Diagnosed(b)
            BY <2>2 DEF Diagnosed, PlanInv, PlanStored
      <2>3. CASE Unmarked(b)
            BY <2>3 DEF Unmarked, PlanInv, PlanStored
      <2>4. CASE Swept(b)
            BY <2>4 DEF Swept, PlanInv, PlanStored
      <2> QED BY <1>2, <2>1, <2>2, <2>3, <2>4
<1>4. PlanStored' /\ Plans'
      BY <1>1, <1>3 DEF PlanInv, PlanStored, Plans
<1>5. Planning' = Planning /\ Left' = Left
      BY <1>1 DEF Planning, Left
<1>6. SoFar(listing["pending"], marked)' /\ SoFar(scan, RawOf(Planning))'
      <2>1. SoFar(listing["pending"], marked')
            BY <1>3, SoFarLess DEF PlanInv
      <2>2. RawOf(Planning)' \subseteq RawOf(Planning)
            BY <1>3, <1>5 DEF RawOf
      <2>3. SoFar(scan, RawOf(Planning)')
            BY <2>2, SoFarLess DEF PlanInv
      <2> QED BY <1>1, <2>1, <2>3
<1>7. CountsEnough'
      <2> SUFFICES ASSUME NEW p \in Registered, counts[p] >= 0
                   PROVE  counts[p] >= Cardinality({x \in refs' \cap before : IsPast(x, p)})
          BY <1>1 DEF CountsEnough, IsPast
      <2>1. PICK m, n : /\ m = Cardinality({x \in refs' \cap before : IsPast(x, p)})
                        /\ n = Cardinality({x \in refs \cap before : IsPast(x, p)})
            OBVIOUS
      <2>2. m \in Nat /\ n \in Nat /\ m <= n
            BY <1>3, <2>1, FewerPast DEF PlanInv, PlanStored
      <2>3. counts[p] >= n /\ counts[p] \in Int
            BY <2>1 DEF PlanInv, CountsEnough, Plans
      <2> QED BY <2>1, <2>2, <2>3
<1>8. Reported'
      BY <1>1, <1>3 DEF PlanInv, Reported, IsPast
<1> QED BY <1>1, <1>4, <1>5, <1>6, <1>7, <1>8 DEF PlanInv

\* A key of the pending or failed prefix is listed.
LEMMA ListKeeps ==
    ASSUME PlanInv, NEW prefix \in {"pending", "failed"}, ListPrefix(prefix) PROVE PlanInv'
<1>1. UNCHANGED <<storageVars, before, limit, projects, counts, scan, budget, report>>
      BY DEF ListPrefix
<1>2. UNCHANGED <<raw, marked, diagnosed, refs>>
      BY <1>1 DEF storageVars
<1>3. PICK l, n : l = listing[prefix] /\ n = NextKey(l, KeysUnder(prefix), Bookkeeping, limit)
      OBVIOUS
<1>4. l \in Scans /\ l.state = "open" /\ limit \in Nat
        /\ listing' = [listing EXCEPT ![prefix] = n]
      BY <1>3 DEF ListPrefix, PlanInv, Plans
<1>5. KeysUnder(prefix) \in SUBSET Int /\ IsFiniteSet(KeysUnder(prefix))
      <2>1. KeysUnder(prefix) \subseteq Accepted \cup Bookkeeping
            BY DEF KeysUnder, PlanInv, PlanStored
      <2>2. IsFiniteSet(Accepted \cup Bookkeeping)
            BY KeysAreNumbers, FS_Union
      <2>3. IsFiniteSet(KeysUnder(prefix))
            BY <2>1, <2>2, FS_Subset
      <2>4. KeysUnder(prefix) \in SUBSET Int
            BY <2>1, KeysAreNumbers
      <2> QED BY <2>3, <2>4
<1>6. n \in Scans
      <2>1. SoFar(l, {})
            BY DEF SoFar
      <2> QED BY <1>3, <1>4, <1>5, <2>1, NextKeyFinds
<1>7. prefix = "pending" => SoFar(n, marked)
      <2> SUFFICES ASSUME prefix = "pending" PROVE SoFar(n, marked)
          OBVIOUS
      <2>1. marked \subseteq KeysUnder(prefix) \ Bookkeeping
            BY PlanAssumption DEF KeysUnder, PlanInv, PlanStored
      <2>2. SoFar(l, marked)
            BY <1>3 DEF PlanInv
      <2> QED BY <1>3, <1>4, <1>5, <2>1, <2>2, NextKeyFinds
<1>8. listing' \in [{"pending", "failed"} -> Scans] /\ SoFar(listing'["pending"], marked)
      BY <1>4, <1>6, <1>7 DEF PlanInv, Plans
<1>9. SoFar(scan, RawOf(Planning))' /\ CountsEnough' /\ Reported' /\ Left' = Left
      BY <1>1, <1>2 DEF PlanInv, RawOf, Planning, Left, CountsEnough, Reported, IsPast
<1> QED BY <1>1, <1>2, <1>8, <1>9 DEF PlanInv, PlanStored, Plans

\* The references are counted.
LEMMA CountKeeps == PlanInv /\ CountIndexed => PlanInv'
<1> SUFFICES ASSUME PlanInv, CountIndexed PROVE PlanInv'
    OBVIOUS
<1>1. UNCHANGED <<raw, marked, diagnosed, refs, before, limit, projects, listing, scan, budget, report>>
      BY DEF CountIndexed, storageVars
<1>2. ASSUME NEW p \in Registered
      PROVE  /\ counts'[p] \in Int
             /\ counts'[p] >= 0
                  => counts'[p] >= Cardinality({b \in refs \cap before : IsPast(b, p)})
      <2>1. PICK m, n : /\ m = Cardinality({x \in refs \cap before : IsPast(x, p)})
                        /\ n = Cardinality({x \in refs : IsPast(x, p)})
            OBVIOUS
      <2>2. m \in Nat /\ n \in Nat /\ m <= n
            BY <2>1, FewerPast DEF PlanInv, PlanStored
      <2>3. counts'[p] = n \/ counts'[p] = -1
            BY <2>1 DEF CountIndexed
      <2> QED BY <2>1, <2>2, <2>3
<1>3. counts' \in [Registered -> Int]
      <2>1. DOMAIN counts' = Registered /\ counts' = [p \in Registered |-> counts'[p]]
            BY DEF CountIndexed
      <2> QED BY <1>2, <2>1
<1>4. CountsEnough'
      BY <1>1, <1>2 DEF CountsEnough, IsPast
<1>5. SoFar(scan, RawOf(Planning))' /\ Reported' /\ Left' = Left
      BY <1>1 DEF PlanInv, RawOf, Planning, Left, Reported, IsPast
<1> QED BY <1>1, <1>3, <1>4, <1>5 DEF PlanInv, PlanStored, Plans

\* A raw key is listed.
LEMMA ScanKeeps == PlanInv /\ ScanRaw => PlanInv'
<1> SUFFICES ASSUME PlanInv, ScanRaw PROVE PlanInv'
    OBVIOUS
<1>1. UNCHANGED <<raw, marked, diagnosed, refs, before, limit, projects, listing, counts, budget, report>>
      BY DEF ScanRaw, storageVars
<1>2. scan \in Scans /\ scan.state = "open" /\ Left # {} /\ budget \in Nat
        /\ scan.examined <= budget
      BY DEF ScanRaw, PlanInv, Plans
<1>3. PICK K : K = RawOf(Planning)
      OBVIOUS
<1>4. scan' \in Scans /\ SoFar(scan', K) /\ scan'.examined <= budget
      <2>1. CASE budget = 0
            <3>1. scan' = [scan EXCEPT !.state = "cut"]
                  BY <2>1 DEF ScanRaw
            <3>2. /\ scan' \in Scans /\ scan'.at = scan.at /\ scan'.found = scan.found
                  /\ scan'.examined = scan.examined /\ scan'.state = "cut"
                  BY <1>2, <3>1 DEF Scans
            <3> QED BY <1>2, <1>3, <3>2 DEF PlanInv, SoFar
      <2>2. CASE budget # 0
            <3>1. scan' = NextKey(scan, K, {}, budget)
                  BY <1>3, <2>2 DEF ScanRaw, RawOf
            <3>2. K \subseteq Accepted
                  BY <1>3 DEF PlanInv, PlanStored, RawOf
            <3>3. K \in SUBSET Int /\ K \subseteq K \ {}
                  BY <3>2, KeysAreNumbers
            <3>5. IsFiniteSet(K)
                  BY <3>2, KeysAreNumbers, FS_Subset
            <3>4. SoFar(scan, K)
                  BY <1>3 DEF PlanInv
            <3> QED BY <1>2, <3>1, <3>3, <3>4, <3>5, NextKeyFinds
      <2> QED BY <2>1, <2>2
<1>5. RawOf(Planning)' = K /\ Left' = Left
      BY <1>1, <1>3 DEF RawOf, Planning, Left
<1>6. CountsEnough' /\ Reported'
      BY <1>1 DEF PlanInv, CountsEnough, Reported, IsPast
<1> QED BY <1>1, <1>2, <1>4, <1>5, <1>6 DEF PlanInv, PlanStored, Plans

\* A project is reported.
LEMMA ClassifyKeeps == PlanInv /\ Classify => PlanInv'
<1> SUFFICES ASSUME PlanInv, Classify PROVE PlanInv'
    OBVIOUS
<1>1. UNCHANGED <<raw, marked, diagnosed, refs, before, limit, projects, listing, counts>>
      BY DEF Classify, storageVars
<1>2. PICK q : q = Planning
      OBVIOUS
<1>3. PICK past : past = {b \in scan.found : IsPast(b, q)}
      OBVIOUS
<1>4. PICK entry : entry =
          [past |-> past, protected |-> past \cap listing["pending"].found,
           failed |-> past \cap listing["failed"].found,
           listed |-> scan.state = "complete", covered |-> Covered]
      OBVIOUS
<1>5. report' = [p \in DOMAIN report \cup {q} |-> IF p \in DOMAIN report THEN report[p] ELSE entry]
      BY <1>2, <1>3, <1>4 DEF Classify
<1>6. q \in Registered
      <2>1. Left # {} /\ Left \subseteq Registered
            BY DEF Classify, PlanInv, Plans, Left
      <2>2. Left \in SUBSET Int
            BY <2>1, KeysAreNumbers
      <2>3. IsFiniteSet(Left)
            BY <2>1, KeysAreNumbers, FS_Subset
      <2> QED BY <1>2, <2>1, <2>2, <2>3, LeastKey DEF Planning
<1>7. entry.covered => (entry.past \ entry.protected) \cap marked = {}
      <2> SUFFICES ASSUME Covered PROVE (past \ (past \cap listing["pending"].found)) \cap marked = {}
          BY <1>4
      <2>1. listing["pending"].state = "complete"
            BY DEF Covered, PlanInv, Plans
      <2>2. marked \subseteq listing["pending"].found
            BY <2>1 DEF PlanInv, SoFar
      <2> QED BY <2>2
<1>8. entry.listed => {b \in raw : IsPast(b, q)} \subseteq entry.past
      <2> SUFFICES ASSUME scan.state = "complete" PROVE {b \in raw : IsPast(b, q)} \subseteq past
          BY <1>4
      <2>1. RawOf(q) \subseteq scan.found
            BY <1>2 DEF PlanInv, SoFar
      <2> QED BY <1>3, <2>1 DEF RawOf, IsPast
<1>9. Reported'
      <2> SUFFICES ASSUME NEW p \in DOMAIN report'
                   PROVE  /\ p \in Registered
                          /\ report'[p].covered
                               => (report'[p].past \ report'[p].protected) \cap marked = {}
                          /\ report'[p].listed
                               => {b \in raw : IsPast(b, p)} \subseteq report'[p].past
          BY <1>1 DEF Reported, IsPast
      <2>1. CASE p \in DOMAIN report
            BY <1>5, <2>1 DEF PlanInv, Reported
      <2>2. CASE p \notin DOMAIN report
            <3>1. p = q /\ report'[p] = entry
                  BY <1>5, <2>2
            <3> QED BY <1>6, <1>7, <1>8, <3>1
      <2> QED BY <2>1, <2>2
<1>10. scan' = NotBegun /\ budget' = budget - scan.examined
       BY DEF Classify
<1>11. /\ NotBegun \in Scans /\ NotBegun.examined = 0 /\ NotBegun.state = "open"
       /\ NotBegun.at = -99
       BY DEF NotBegun, Scans
<1>12. budget' \in Nat /\ scan'.examined <= budget'
       <2>1. scan.examined \in Nat /\ budget \in Nat /\ scan.examined <= budget
             BY DEF PlanInv, Plans, Scans
       <2> QED BY <1>10, <1>11, <2>1
<1>13. SoFar(scan', RawOf(Planning)')
       <2>1. RawOf(Planning)' \subseteq Accepted
             BY <1>1 DEF RawOf, PlanInv, PlanStored
       <2>2. ASSUME NEW k \in RawOf(Planning)' PROVE ~(k <= -99)
             <3>1. k \in Nat
                   BY <2>1, KeysAreNumbers
             <3> QED BY <3>1
       <2> QED BY <1>10, <1>11, <2>2 DEF SoFar
<1>14. CountsEnough'
       BY <1>1 DEF PlanInv, CountsEnough, IsPast
<1> QED BY <1>1, <1>9, <1>10, <1>11, <1>12, <1>13, <1>14 DEF PlanInv, PlanStored, Plans

\* The inductive invariant holds at first.
LEMMA PlanStarts == PlanInit => PlanInv
<1> SUFFICES ASSUME PlanInit PROVE PlanInv
    OBVIOUS
<1>1. /\ NotBegun \in Scans /\ NotBegun.examined = 0 /\ NotBegun.state = "open"
      /\ NotBegun.at = -99
      BY DEF NotBegun, Scans
<1>2. PlanStored
      BY DEF PlanInit, PlanStored
<1>3. limit \in Nat /\ budget = limit /\ counts \in [Registered -> Int]
        /\ projects \subseteq Registered
      BY PlanAssumption DEF PlanInit, NoCounts
<1>4. Plans
      BY <1>1, <1>3 DEF PlanInit, Plans
<1>5. ASSUME NEW K, K \subseteq Accepted PROVE SoFar(NotBegun, K)
      <2>1. \A k \in K : k \in Nat
            BY <1>5, KeysAreNumbers
      <2>2. ASSUME NEW k \in K PROVE ~(k <= NotBegun.at)
            BY <1>1, <2>1
      <2> QED BY <1>1, <2>2 DEF SoFar
<1>6. SoFar(listing["pending"], marked) /\ SoFar(scan, RawOf(Planning))
      BY <1>2, <1>5 DEF PlanInit, PlanStored, RawOf
<1>7. CountsEnough
      <2>1. \A p \in Registered : counts[p] = -2
            BY DEF PlanInit, NoCounts
      <2> QED BY <2>1 DEF CountsEnough
<1>8. Reported
      BY DEF PlanInit, Reported
<1> QED BY <1>1, <1>2, <1>4, <1>6, <1>7, <1>8 DEF PlanInv, PlanInit

(* A plan stays true of what goes on meanwhile: what it puts down as not     *)
(* protected is not pending, a complete listing missed nothing that is still *)
(* there, a count nothing that was indexed when the plan began, and the      *)
(* budget of the raw listings is never overdrawn.                            *)
THEOREM PlanStaysTrue == PlanSpec => []PlanHolds
<1>1. PlanInv /\ [PlanNext]_planVars => PlanInv'
      <2> SUFFICES ASSUME PlanInv, [PlanNext]_planVars PROVE PlanInv'
          OBVIOUS
      <2>1. CASE UNCHANGED planVars
            BY <2>1 DEF planVars, PlanInv, PlanStored, Plans, RawOf, Planning, Left,
                        CountsEnough, Reported, IsPast
      <2> QED BY <2>1, MeanwhileKeeps, CountKeeps, ScanKeeps, ClassifyKeeps, ListKeeps
                DEF PlanNext
<1>2. PlanInv => PlanHolds
      <2> SUFFICES ASSUME PlanInv PROVE PlanHolds
          OBVIOUS
      <2>1. NeverPending /\ NothingMissed
            BY DEF PlanInv, Reported, CountsEnough, NeverPending, NothingMissed
      <2>2. budget >= 0
            BY DEF PlanInv, Plans
      <2> QED BY <2>1, <2>2 DEF PlanHolds
<1> QED BY <1>1, <1>2, PlanStarts, PTL DEF PlanSpec

-----------------------------------------------------------------------------
\* The pages of a trace list.

\* What a reader may be.
ReaderTypes ==
    [cursor : {NoCursor} \cup (Nat \X Nat), page : Nat \ {0}, asked : SUBSET Queries,
     total : Nat, given : [TraceIds -> Nat], done : BOOLEAN]
PagesTypes ==
    /\ shown \in [TraceIds -> Clock \cup {0}] /\ style \in Styles
    /\ reader \in ReaderTypes /\ edits \in Nat

\* A walk by the cursor gave what it has passed.
PassedOnce ==
    style = "cursor" =>
        \A t \in Shown \ touched :
            reader.given[t] = IF reader.done \/ t \notin Following THEN 1 ELSE 0

\* The places of the list that the pages read so far have shown.
PlacesRead == (IF "rows" \in reader.asked THEN reader.page - 1 ELSE reader.page) * ListLimit

\* A walk by page numbers gave what had those places, and counted at least what stays.
PlacedOnce ==
    style # "cursor" /\ Stable =>
        \A t \in Shown \ touched :
            /\ reader.given[t] = IF Place(t) < PlacesRead THEN 1 ELSE 0
            /\ "total" \notin reader.asked => Place(t) < reader.total
EndReached ==
    style # "cursor" /\ reader.done =>
        reader.asked = {} /\ reader.page * ListLimit >= reader.total

PagesInv == PagesTypes /\ PassedOnce /\ PlacedOnce /\ EndReached

-----------------------------------------------------------------------------
\* Places in an order.

\* R orders S; what precedes t in S.
Orders(R, S) ==
    /\ \A a, b \in S : <<a, b>> \in R => <<b, a>> \notin R
    /\ \A a, b, c \in S : <<a, b>> \in R /\ <<b, c>> \in R => <<a, c>> \in R
    /\ \A a, b \in S : a = b \/ <<a, b>> \in R \/ <<b, a>> \in R
Preceding(S, R, t) == {u \in S : <<u, t>> \in R}

\* A nonempty finite set has a first in any order.
LEMMA FirstInOrder ==
    ASSUME NEW S, IsFiniteSet(S), S # {}, NEW R, Orders(R, S)
    PROVE  \E x \in S : \A u \in S : <<u, x>> \notin R
<1> DEFINE First(T) == \E x \in T : \A u \in T : <<u, x>> \notin R
           F == {T \in SUBSET S : T # {} /\ ~First(T)}
<1>1. ASSUME F # {} PROVE FALSE
      <2>1. PICK T \in F : \A U \in F : U \subseteq T => U = T
            <3>1. FamilyOf(F, S)
                  BY <1>1 DEF FamilyOf
            <3> HIDE DEF F
            <3>2. HasSmallest(F)
                  BY ONLY <3>1, IsFiniteSet(S), SmallestMember
            <3> QED BY <3>2 DEF HasSmallest
      <2>2. PICK x \in T : TRUE
            OBVIOUS
      <2>3. T \ {x} \notin F
            BY <2>1, <2>2
      <2>4. <<x, x>> \notin R
            BY <2>1, <2>2 DEF Orders
      <2>5. CASE T \ {x} = {}
            <3>1. \A y \in T : y = x
                  BY <2>5
            <3>2. First(T)
                  BY <2>2, <2>4, <3>1
            <3> QED BY <2>1, <3>2
      <2>6. CASE First(T \ {x})
            <3>1. PICK z \in T \ {x} : \A u \in T \ {x} : <<u, z>> \notin R
                  BY <2>6
            <3>2. T \subseteq S
                  BY <2>1
            <3>3. CASE <<x, z>> \notin R
                  <4>1. First(T)
                        BY <3>1, <3>3
                  <4> QED BY <2>1, <4>1
            <3>4. CASE <<x, z>> \in R
                  <4>1. ASSUME NEW u \in T, <<u, x>> \in R PROVE FALSE
                        <5>1. u # x
                              BY <2>4, <4>1
                        <5>2. <<u, z>> \in R
                              BY <2>2, <3>1, <3>2, <3>4, <4>1 DEF Orders
                        <5> QED BY <3>1, <5>1, <5>2
                  <4>2. First(T)
                        BY <2>2, <4>1
                  <4> QED BY <2>1, <4>2
            <3> QED BY <3>3, <3>4
      <2> QED BY <2>1, <2>3, <2>5, <2>6
<1>2. First(S)
      BY <1>1
<1> QED BY <1>2

\* The places are numbers below the size of the set, and ascend with the order.
LEMMA PlacesIn ==
    ASSUME NEW S, IsFiniteSet(S), NEW R, Orders(R, S)
    PROVE  /\ Cardinality(S) \in Nat
           /\ \A t : IsFiniteSet(Preceding(S, R, t)) /\ Cardinality(Preceding(S, R, t)) \in Nat
           /\ \A t \in S : Cardinality(Preceding(S, R, t)) < Cardinality(S)
           /\ \A s, t \in S : <<s, t>> \in R =>
                 Cardinality(Preceding(S, R, s)) < Cardinality(Preceding(S, R, t))
<1>1. ASSUME NEW t PROVE IsFiniteSet(Preceding(S, R, t))
               /\ Cardinality(Preceding(S, R, t)) \in Nat
      <2>1. Preceding(S, R, t) \in SUBSET S
            BY DEF Preceding
      <2> QED BY <2>1, FS_Subset, FS_CardinalityType
<1>2. Cardinality(S) \in Nat
      BY FS_CardinalityType
<1>3. ASSUME NEW T \in SUBSET S, NEW U \in SUBSET T, NEW t \in T, t \notin U
      PROVE  Cardinality(U) < Cardinality(T)
      <2>1. IsFiniteSet(T)
            BY FS_Subset
      <2>2. IsFiniteSet(U) /\ Cardinality(U) <= Cardinality(T) /\ Cardinality(U) # Cardinality(T)
            BY <2>1, <1>3, FS_Subset
      <2>3. Cardinality(T) \in Nat /\ Cardinality(U) \in Nat
            BY <2>1, <2>2, FS_CardinalityType
      <2> QED BY ONLY <2>2, <2>3
<1>4. ASSUME NEW t \in S PROVE Cardinality(Preceding(S, R, t)) < Cardinality(S)
      <2>1. Preceding(S, R, t) \in SUBSET S /\ t \notin Preceding(S, R, t) /\ S \in SUBSET S
            BY DEF Preceding, Orders
      <2> HIDE DEF Preceding
      <2> QED BY <2>1, <1>3
<1>5. ASSUME NEW s \in S, NEW t \in S, <<s, t>> \in R
      PROVE  Cardinality(Preceding(S, R, s)) < Cardinality(Preceding(S, R, t))
      <2>1. ASSUME NEW u \in S, <<u, s>> \in R PROVE <<u, t>> \in R
            BY <1>5, <2>1 DEF Orders
      <2>2. /\ Preceding(S, R, t) \in SUBSET S /\ Preceding(S, R, s) \in SUBSET Preceding(S, R, t)
            BY <2>1 DEF Preceding
      <2>3. s \in Preceding(S, R, t) /\ s \notin Preceding(S, R, s)
            BY <1>5 DEF Preceding, Orders
      <2> QED BY <2>2, <2>3, <1>3
<1> QED BY <1>1, <1>2, <1>4, <1>5

\* Those at the first n places: all, or no fewer than n.
AtFirst(S, R, n) == {t \in S : Cardinality(Preceding(S, R, t)) < n}
FirstPart(P, S, R, n) ==
    /\ P \in SUBSET S /\ IsFiniteSet(P) /\ Cardinality(P) \in Nat
    /\ Cardinality(P) < n => P = S
    /\ n > 0 /\ S # {} => P # {}
    /\ \A s \in S, t \in P : <<s, t>> \in R => s \in P

\* A first part has all or enough, and what precedes one of it.
LEMMA FirstPlaces ==
    ASSUME NEW S, IsFiniteSet(S), NEW R, Orders(R, S), NEW n \in Nat
    PROVE  FirstPart(AtFirst(S, R, n), S, R, n)
<1>p. PICK P : P = AtFirst(S, R, n)
      OBVIOUS
<1>q. P = {t \in S : Cardinality(Preceding(S, R, t)) < n}
      BY <1>p DEF AtFirst
<1>1. /\ \A t : IsFiniteSet(Preceding(S, R, t)) /\ Cardinality(Preceding(S, R, t)) \in Nat
      /\ \A s, t \in S : <<s, t>> \in R =>
            Cardinality(Preceding(S, R, s)) < Cardinality(Preceding(S, R, t))
      BY PlacesIn
<1>2. P \in SUBSET S /\ IsFiniteSet(P) /\ Cardinality(P) \in Nat
      <2>1. P \in SUBSET S
            BY <1>q
      <2> QED BY <2>1, FS_Subset, FS_CardinalityType
<1>3. \A s \in S, t \in P : <<s, t>> \in R => s \in P
      BY <1>1, <1>q
<1>4. ASSUME NEW Q \in SUBSET S, Q # {}
      PROVE  \E x \in Q : \A u \in Q : <<u, x>> \notin R
      <2>1. IsFiniteSet(Q)
            BY FS_Subset
      <2>2. Orders(R, Q)
            BY <1>4 DEF Orders
      <2> QED BY <1>4, <2>1, <2>2, FirstInOrder
<1>5. ASSUME Cardinality(P) < n, P # S PROVE FALSE
      <2>1. PICK x \in S \ P : \A u \in S \ P : <<u, x>> \notin R
            BY <1>2, <1>4, <1>5
      <2>2. Preceding(S, R, x) \in SUBSET P
            BY <2>1 DEF Preceding
      <2>3. Cardinality(Preceding(S, R, x)) <= Cardinality(P)
            BY <1>2, <2>2, FS_Subset
      <2>4. Cardinality(Preceding(S, R, x)) \in Nat /\ ~(Cardinality(Preceding(S, R, x)) < n)
            BY <1>1, <1>q, <2>1
      <2> QED BY ONLY <1>2, <1>5, <2>3, <2>4, n \in Nat
<1>6. ASSUME n > 0, S # {} PROVE P # {}
      <2>1. PICK x \in S : \A u \in S : <<u, x>> \notin R
            BY <1>6, FirstInOrder
      <2>2. Preceding(S, R, x) = {}
            BY <2>1 DEF Preceding
      <2>3. Cardinality(Preceding(S, R, x)) = 0
            BY <2>2, FS_EmptySet
      <2> QED BY <1>6, <1>q, <2>1, <2>3
<1>7. FirstPart(P, S, R, n)
      BY <1>2, <1>3, <1>5, <1>6 DEF FirstPart
<1> QED BY <1>p, <1>7

-----------------------------------------------------------------------------

\* The newest first, and the oldest first.
Newer == {p \in TraceIds \X TraceIds : Below(Key(p[2]), Key(p[1]))}
Older == {p \in TraceIds \X TraceIds : Below(Key(p[1]), Key(p[2]))}

\* Keys are pairs of numbers, no two of them the same.
LEMMA KeysOrder ==
    ASSUME PagesTypes
    PROVE  /\ \A a, b, c \in TraceIds : Below(Key(a), Key(b)) /\ Below(Key(b), Key(c))
                => Below(Key(a), Key(c))
           /\ \A a, b \in TraceIds : Below(Key(a), Key(b)) => ~Below(Key(b), Key(a))
           /\ \A a, b \in TraceIds : a = b \/ Below(Key(a), Key(b)) \/ Below(Key(b), Key(a))
           /\ \A k \in Nat \X Nat : \A a, b \in TraceIds :
                 Below(Key(a), Key(b)) /\ Below(Key(b), k) => Below(Key(a), k)
           /\ \A a \in TraceIds : Key(a) \in Nat \X Nat
<1>1. \A a \in TraceIds : a \in Nat /\ shown[a] \in Nat
      <2>1. \A a \in TraceIds : a \in Nat
            BY PagesAssumption DEF PagesAssumption
      <2>2. Clock \cup {0} \subseteq Nat
            BY PagesAssumption DEF PagesAssumption
      <2> QED BY <2>1, <2>2 DEF PagesTypes
<1>2. \A a, b \in TraceIds :
         Below(Key(a), Key(b)) <=> shown[a] < shown[b] \/ (shown[a] = shown[b] /\ a < b)
      BY DEF Below, Key
<1>3. ASSUME NEW k \in Nat \X Nat, NEW a \in TraceIds, NEW b \in TraceIds,
             Below(Key(a), Key(b)), Below(Key(b), k)
      PROVE  Below(Key(a), k)
      <2>1. PICK x \in Nat, y \in Nat : k = <<x, y>>
            OBVIOUS
      <2> QED BY <1>1, <1>3, <2>1 DEF Below, Key
<1>4. \A a \in TraceIds : Key(a) \in Nat \X Nat
      BY <1>1 DEF Key
<1>5. \A a, b, c \in TraceIds : Below(Key(a), Key(b)) /\ Below(Key(b), Key(c))
        => Below(Key(a), Key(c))
      BY <1>3, <1>4
<1>6. \A a, b \in TraceIds : Below(Key(a), Key(b)) => ~Below(Key(b), Key(a))
      BY <1>1, <1>2
<1>7. \A a, b \in TraceIds : a = b \/ Below(Key(a), Key(b)) \/ Below(Key(b), Key(a))
      BY <1>1, <1>2
<1> QED BY <1>3, <1>4, <1>5, <1>6, <1>7

\* Either way the list is in order.
LEMMA ListsOrdered ==
    ASSUME PagesTypes, NEW S \in SUBSET TraceIds
    PROVE  /\ IsFiniteSet(S) /\ Orders(Newer, S) /\ Orders(Older, S)
           /\ \A t \in TraceIds : /\ Later(S, t) = Cardinality(Preceding(S, Newer, t))
                                  /\ Earlier(S, t) = Cardinality(Preceding(S, Older, t))
<1>1. \A a, b \in TraceIds : /\ <<a, b>> \in Newer <=> Below(Key(b), Key(a))
                             /\ <<a, b>> \in Older <=> Below(Key(a), Key(b))
      BY DEF Newer, Older
<1>2. IsFiniteSet(S)
      BY PagesAssumption, FS_Subset DEF PagesAssumption
<1>3. /\ \A a, b, c \in TraceIds : Below(Key(a), Key(b)) /\ Below(Key(b), Key(c))
           => Below(Key(a), Key(c))
      /\ \A a, b \in TraceIds : Below(Key(a), Key(b)) => ~Below(Key(b), Key(a))
      /\ \A a, b \in TraceIds : a = b \/ Below(Key(a), Key(b)) \/ Below(Key(b), Key(a))
      BY KeysOrder
<1>4. \A a \in S : a \in TraceIds
      OBVIOUS
<1>5. Orders(Newer, S) /\ Orders(Older, S)
      BY ONLY <1>1, <1>3, <1>4 DEF Orders
<1>6. ASSUME NEW t \in TraceIds
      PROVE  Later(S, t) = Cardinality(Preceding(S, Newer, t))
               /\ Earlier(S, t) = Cardinality(Preceding(S, Older, t))
      <2>1. Preceding(S, Newer, t) = {u \in S : Below(Key(t), Key(u))}
            BY <1>1, <1>4 DEF Preceding
      <2>2. Preceding(S, Older, t) = {u \in S : Below(Key(u), Key(t))}
            BY <1>1, <1>4 DEF Preceding
      <2> QED BY <2>1, <2>2 DEF Later, Earlier
<1> QED BY <1>2, <1>5, <1>6

\* The newest n of a list: all of it, or no fewer.
NewestPart(P, S, n) ==
    /\ P \in SUBSET S /\ IsFiniteSet(P) /\ Cardinality(P) \in Nat
    /\ Cardinality(P) < n => P = S
    /\ n > 0 /\ S # {} => P # {}
    /\ \A s \in S, t \in P : Below(Key(t), Key(s)) => s \in P

\* So are the newest n.
LEMMA NewestOf ==
    ASSUME PagesTypes, NEW S \in SUBSET TraceIds, NEW n \in Nat
    PROVE  NewestPart({t \in S : Later(S, t) < n}, S, n)
<1>1. PICK P : P = AtFirst(S, Newer, n)
      OBVIOUS
<1>2. \A t \in S : Later(S, t) = Cardinality(Preceding(S, Newer, t))
      BY ListsOrdered
<1>3. P = {t \in S : Later(S, t) < n}
      BY <1>1, <1>2 DEF AtFirst
<1>4. FirstPart(P, S, Newer, n)
      BY <1>1, ListsOrdered, FirstPlaces
<1>5. \A a, b \in TraceIds : <<a, b>> \in Newer <=> Below(Key(b), Key(a))
      BY DEF Newer
<1>6. NewestPart(P, S, n)
      BY <1>4, <1>5 DEF NewestPart, FirstPart
<1> QED BY <1>3, <1>6

\* The page: the rows if there is no extra one, or a first part of what the cursor left,
\* down to the row whose key is the cursor.
Extra == {t \in Following : Later(Following, t) < ListLimit + 1}
OnPage == {t \in Extra : Later(Extra, t) < ListLimit}
LastOne == CHOOSE t \in OnPage : \A u \in OnPage : ~Below(Key(u), Key(t))

\* The page shows all that the cursor left, or what is not below the last row of it.
LEMMA PageDown ==
    ASSUME PagesTypes
    PROVE  /\ Following \in SUBSET TraceIds
           /\ Cardinality(Extra) <= ListLimit => OnPage = Following
           /\ ~(Cardinality(Extra) <= ListLimit) =>
                 /\ LastOne \in Following
                 /\ \A t \in Following : t \in OnPage <=> ~Below(Key(t), Key(LastOne))
<1>1. Following \in SUBSET TraceIds
      BY DEF Following, Shown
<1>2. ListLimit \in Nat /\ ListLimit > 0 /\ ListLimit + 1 \in Nat /\ ListLimit + 1 > 0
      BY PagesAssumption DEF PagesAssumption
<1>3. PICK F, E, P : F = Following /\ E = Extra /\ P = OnPage
      OBVIOUS
<1>4. E = {t \in F : Later(F, t) < ListLimit + 1} /\ P = {t \in E : Later(E, t) < ListLimit}
      BY <1>3 DEF Extra, OnPage
<1>5. F \in SUBSET TraceIds
      BY <1>1, <1>3
<1>6. /\ E \in SUBSET F /\ IsFiniteSet(E) /\ Cardinality(E) \in Nat
      /\ Cardinality(E) < ListLimit + 1 => E = F
      /\ \A s \in F, t \in E : Below(Key(t), Key(s)) => s \in E
      <2>1. NewestPart(E, F, ListLimit + 1)
            BY <1>2, <1>4, <1>5, NewestOf
      <2> QED BY <2>1 DEF NewestPart
<1>7. E \in SUBSET TraceIds
      BY <1>5, <1>6
<1>8. /\ P \in SUBSET E /\ (E # {} => P # {})
      /\ \A s \in E, t \in P : Below(Key(t), Key(s)) => s \in P
      <2>1. NewestPart(P, E, ListLimit)
            BY <1>2, <1>4, <1>7, NewestOf
      <2> QED BY <1>2, <2>1 DEF NewestPart
<1>9. ASSUME Cardinality(E) <= ListLimit PROVE P = F
      <2>1. E = F
            BY <1>2, <1>6, <1>9
      <2>2. ASSUME NEW t \in E PROVE Later(E, t) < ListLimit
            <3>1. /\ Later(E, t) = Cardinality(Preceding(E, Newer, t))
                  /\ IsFiniteSet(E) /\ Orders(Newer, E)
                  BY <1>7, ListsOrdered
            <3>2. Later(E, t) \in Nat /\ Later(E, t) < Cardinality(E)
                  BY <3>1, PlacesIn
            <3> QED BY ONLY <1>2, <1>6, <1>9, <3>2
      <2> QED BY <1>4, <2>1, <2>2
<1>10. ASSUME ~(Cardinality(E) <= ListLimit)
       PROVE  LastOne \in F /\ \A t \in F : t \in P <=> ~Below(Key(t), Key(LastOne))
       <2>1. E # {}
             <3> SUFFICES ASSUME E = {} PROVE FALSE
                 OBVIOUS
             <3>1. Cardinality(E) = 0
                   BY FS_EmptySet
             <3> QED BY <1>2, <1>10, <3>1
       <2>2. P \in SUBSET TraceIds /\ P # {}
             BY <1>7, <1>8, <2>1
       <2>3. IsFiniteSet(P) /\ Orders(Older, P)
             BY <2>2, ListsOrdered
       <2>4. PICK x \in P : \A u \in P : <<u, x>> \notin Older
             BY <2>2, <2>3, FirstInOrder
       <2>5. \A u \in P : ~Below(Key(u), Key(x))
             BY <2>2, <2>4 DEF Older
       <2>6. PICK last : last = LastOne
             OBVIOUS
       <2>7. last = CHOOSE t \in P : \A u \in P : ~Below(Key(u), Key(t))
             BY <1>3, <2>6 DEF LastOne
       <2>8. last \in P /\ \A u \in P : ~Below(Key(u), Key(last))
             BY <2>5, <2>7
       <2>9. ASSUME NEW t \in F, ~Below(Key(t), Key(last)) PROVE t \in P
             <3>1. t = last \/ Below(Key(last), Key(t))
                   BY <1>5, <2>2, <2>8, <2>9, KeysOrder
             <3>2. last \in E
                   BY <1>8, <2>8
             <3> QED BY <1>6, <1>8, <2>8, <3>1, <3>2
       <2> QED BY <1>6, <1>8, <2>6, <2>8, <2>9
<1> QED BY <1>1, <1>3, <1>9, <1>10

\* The places of a list.
LEMMA PlaceIs ==
    ASSUME PagesTypes
    PROVE  /\ Shown \in SUBSET TraceIds /\ Cardinality(Shown) \in Nat
           /\ \A t \in Shown : Place(t) \in Nat /\ Place(t) < Cardinality(Shown)
<1>1. Shown \in SUBSET TraceIds
      BY DEF Shown
<1>2. /\ IsFiniteSet(Shown) /\ Orders(Newer, Shown) /\ Orders(Older, Shown)
      /\ \A t \in TraceIds : /\ Later(Shown, t) = Cardinality(Preceding(Shown, Newer, t))
                             /\ Earlier(Shown, t) = Cardinality(Preceding(Shown, Older, t))
      BY <1>1, ListsOrdered
<1>3. /\ Cardinality(Shown) \in Nat
      /\ \A t \in Shown : Later(Shown, t) \in Nat /\ Later(Shown, t) < Cardinality(Shown)
      <2>1. /\ Cardinality(Shown) \in Nat
            /\ \A t \in Shown : /\ Cardinality(Preceding(Shown, Newer, t)) \in Nat
                                /\ Cardinality(Preceding(Shown, Newer, t)) < Cardinality(Shown)
            BY <1>2, PlacesIn
      <2> QED BY <1>1, <1>2, <2>1
<1>4. \A t \in Shown : Earlier(Shown, t) \in Nat /\ Earlier(Shown, t) < Cardinality(Shown)
      <2>1. \A t \in Shown : /\ Cardinality(Preceding(Shown, Older, t)) \in Nat
                             /\ Cardinality(Preceding(Shown, Older, t)) < Cardinality(Shown)
            BY <1>2, PlacesIn
      <2> QED BY <1>1, <1>2, <2>1
<1> QED BY <1>1, <1>3, <1>4 DEF Place

\* What a page adds.
LEMMA PageGives ==
    ASSUME PagesTypes, NEW page
    PROVE  /\ Gives(page) \in [TraceIds -> Nat]
           /\ \A t \in TraceIds : Gives(page)[t] = reader.given[t] + IF t \in page THEN 1 ELSE 0
<1>1. \A t \in TraceIds : reader.given[t] \in Nat
      BY DEF PagesTypes, ReaderTypes
<1> QED BY <1>1 DEF Gives

\* Reading changes nothing of the list.
LEMMA ListStays ==
    ASSUME UNCHANGED <<shown, style, edits, touched, appended>>
    PROVE  /\ Shown' = Shown /\ \A t : Key(t)' = Key(t) /\ Place(t)' = Place(t)
           /\ Stable' <=> Stable
BY DEF Shown, Key, Place, Earlier, Later, Below, Stable

\* A page by the cursor.
LEMMA CursorKeeps ==
    ASSUME PagesInv, GetCursorPage
    PROVE  PagesInv'
<1>1. /\ style = "cursor" /\ ~reader.done /\ UNCHANGED <<shown, style, edits, touched, appended>>
      /\ reader' = [reader EXCEPT !.given = Gives(OnPage),
                        !.done = Cardinality(Extra) <= ListLimit,
                        !.cursor = IF Cardinality(Extra) > ListLimit THEN Key(LastOne)
                                   ELSE reader.cursor]
      BY DEF GetCursorPage, CursorPage, Extra, OnPage, LastOne
<1>2. PagesTypes /\ reader \in ReaderTypes
      BY DEF PagesInv, PagesTypes
<1>3. /\ Following \in SUBSET TraceIds
      /\ Cardinality(Extra) <= ListLimit => OnPage = Following
      /\ ~(Cardinality(Extra) <= ListLimit) =>
            /\ LastOne \in Following
            /\ \A t \in Following : t \in OnPage <=> ~Below(Key(t), Key(LastOne))
      BY <1>2, PageDown
<1>n. ListLimit \in Nat /\ Cardinality(Extra) \in Nat
      <2>1. Extra \in SUBSET TraceIds
            BY <1>3 DEF Extra
      <2>2. IsFiniteSet(Extra)
            BY <1>2, <2>1, ListsOrdered
      <2> QED BY <2>2, FS_CardinalityType, PagesAssumption DEF PagesAssumption
<1>4. PICK ends \in BOOLEAN : ends <=> Cardinality(Extra) <= ListLimit
      OBVIOUS
<1>5. /\ reader'.given = Gives(OnPage) /\ (reader'.done <=> ends)
      /\ reader'.cursor = IF ends THEN reader.cursor ELSE Key(LastOne)
      BY <1>1, <1>2, <1>4, <1>n DEF ReaderTypes
<1>6. reader' \in ReaderTypes
      <2>1. Gives(OnPage) \in [TraceIds -> Nat]
            BY <1>2, PageGives
      <2>2. ~ends => Key(LastOne) \in Nat \X Nat
            BY <1>2, <1>3, <1>4, KeysOrder
      <2>3. ends => ~(Cardinality(Extra) > ListLimit)
            BY <1>4, <1>n
      <2>4. ~ends => Cardinality(Extra) > ListLimit
            BY <1>4, <1>n
      <2>5. (Cardinality(Extra) <= ListLimit) \in BOOLEAN
            OBVIOUS
      <2> QED BY <1>1, <1>2, <2>1, <2>2, <2>3, <2>4, <2>5 DEF ReaderTypes
<1>7. PagesTypes'
      BY <1>1, <1>2, <1>6 DEF PagesTypes, ReaderTypes
<1>8. Shown' = Shown /\ (\A t : Key(t)' = Key(t)) /\ touched' = touched
      BY <1>1, ListStays
<1>9. ASSUME NEW t \in Shown, t \notin touched
      PROVE  reader'.given[t] = IF reader'.done \/ ~(t \in Following)' THEN 1 ELSE 0
      <2>0. t \in TraceIds /\ reader.given[t] = (IF t \in Following THEN 0 ELSE 1)
            BY <1>1, <1>9 DEF PagesInv, PassedOnce, Shown
      <2>1. reader'.given[t] = reader.given[t] + IF t \in OnPage THEN 1 ELSE 0
            BY <1>2, <1>5, <2>0, PageGives
      <2>2. t \in OnPage => t \in Following
            BY DEF OnPage, Extra
      <2>3. CASE ends
            BY <1>3, <1>4, <1>5, <2>0, <2>1, <2>3
      <2>4. CASE ~ends
            <3>1. /\ LastOne \in Following /\ LastOne \in TraceIds
                  /\ t \in Following => (t \in OnPage <=> ~Below(Key(t), Key(LastOne)))
                  BY <1>3, <1>4, <2>4
            <3>2. Key(LastOne) # NoCursor
                  BY DEF Key, NoCursor
            <3>3. (t \in Following)' <=> Below(Key(t), Key(LastOne))
                  <4>1. (t \in Following)' <=> t \in Shown'
                          /\ (reader'.cursor = NoCursor \/ Below(Key(t)', reader'.cursor))
                        BY DEF Following
                  <4> QED BY <1>5, <1>8, <1>9, <2>4, <3>2, <4>1
            <3>4. t \notin Following => ~Below(Key(t), Key(LastOne))
                  <4>1. ASSUME t \notin Following, Below(Key(t), Key(LastOne)) PROVE FALSE
                        <5>1. reader.cursor # NoCursor /\ ~Below(Key(t), reader.cursor)
                              BY <1>9, <4>1 DEF Following
                        <5>2. reader.cursor \in Nat \X Nat
                              BY <1>2, <5>1 DEF ReaderTypes
                        <5>3. Below(Key(LastOne), reader.cursor)
                              BY <3>1, <5>1 DEF Following
                        <5> QED BY <1>2, <2>0, <3>1, <4>1, <5>1, <5>2, <5>3, KeysOrder
                  <4> QED BY <4>1
            <3> QED BY <1>5, <2>0, <2>1, <2>2, <2>4, <3>1, <3>3, <3>4
      <2> QED BY <2>3, <2>4
<1>10. PassedOnce'
       BY <1>8, <1>9 DEF PassedOnce
<1>11. PlacedOnce' /\ EndReached'
       BY <1>1 DEF PlacedOnce, EndReached
<1> QED BY <1>7, <1>10, <1>11 DEF PagesInv

\* Which places the pages have shown, before and after the rows of one are read.
LEMMA PlacesReadIs ==
    ASSUME PagesTypes
    PROVE  /\ reader.page \in Nat /\ ListLimit \in Nat /\ PlacesRead \in Nat
           /\ (reader.page - 1) * ListLimit \in Nat /\ reader.page * ListLimit \in Nat
           /\ (reader.page - 1) * ListLimit + ListLimit = reader.page * ListLimit
           /\ "rows" \in reader.asked => PlacesRead = (reader.page - 1) * ListLimit
           /\ "rows" \notin reader.asked => PlacesRead = reader.page * ListLimit
<1>1. reader.page \in Nat /\ reader.page >= 1 /\ ListLimit \in Nat
      BY PagesAssumption DEF PagesAssumption, PagesTypes, ReaderTypes
<1>2. PICK p \in Nat : p = reader.page - 1
      BY <1>1
<1>3. p * ListLimit \in Nat /\ reader.page = p + 1
      BY <1>1, <1>2
<1>4. (p + 1) * ListLimit = p * ListLimit + ListLimit
      BY ONLY <1>1, p \in Nat
<1>5. reader.page * ListLimit = p * ListLimit + ListLimit
      BY <1>3, <1>4
<1> QED BY <1>1, <1>2, <1>3, <1>5 DEF PlacesRead

\* The rows of a numbered page are read.
LEMMA RowsKeep ==
    ASSUME PagesInv, ReadRows
    PROVE  PagesInv'
<1> DEFINE page == {t \in Shown : (reader.page - 1) * ListLimit <= Place(t)
                                  /\ Place(t) < (reader.page - 1) * ListLimit + ListLimit}
<1>1. /\ style # "cursor" /\ "rows" \in reader.asked
           /\ UNCHANGED <<shown, style, edits, touched, appended>>
      /\ reader' = [reader EXCEPT !.asked = reader.asked \ {"rows"}, !.given = Gives(page)]
      BY DEF ReadRows
<1>2. PagesTypes /\ reader \in ReaderTypes
      BY DEF PagesInv, PagesTypes
<1>3. PICK o \in Nat : o = (reader.page - 1) * ListLimit
      BY <1>2, PlacesReadIs
<1>4. \A t \in Shown : t \in page <=> o <= Place(t) /\ Place(t) < o + ListLimit
      BY <1>3
<1> HIDE DEF page
<1>5. /\ reader'.asked = reader.asked \ {"rows"} /\ reader'.given = Gives(page)
      /\ reader'.page = reader.page /\ reader'.total = reader.total /\ reader'.done = reader.done
      BY <1>1, <1>2 DEF ReaderTypes
<1>6. PagesTypes'
      <2>1. Gives(page) \in [TraceIds -> Nat]
            BY <1>2, PageGives
      <2>2. reader' \in ReaderTypes
            BY <1>1, <1>2, <2>1 DEF ReaderTypes
      <2> QED BY <1>1, <1>2, <2>2 DEF PagesTypes, ReaderTypes
<1>7. /\ Shown' = Shown /\ (\A t : Place(t)' = Place(t)) /\ (Stable' <=> Stable)
           /\ touched' = touched
      BY <1>1, ListStays
<1>8. PlacesRead = o /\ PlacesRead' = o + ListLimit
      <2>1. PlacesRead' =
               (IF "rows" \in reader'.asked THEN reader'.page - 1 ELSE reader'.page) * ListLimit
            BY DEF PlacesRead
      <2>2. "rows" \notin reader'.asked
            BY <1>5
      <2>3. PlacesRead' = reader.page * ListLimit
            BY <1>5, <2>1, <2>2
      <2> QED BY <1>1, <1>2, <1>3, <2>3, PlacesReadIs
<1>9. ASSUME Stable, NEW t \in Shown, t \notin touched
      PROVE  /\ reader'.given[t] = IF Place(t) < o + ListLimit THEN 1 ELSE 0
             /\ "total" \notin reader'.asked => Place(t) < reader'.total
      <2>1. /\ reader.given[t] = IF Place(t) < o THEN 1 ELSE 0
            /\ "total" \notin reader.asked => Place(t) < reader.total
            BY <1>1, <1>8, <1>9 DEF PagesInv, PlacedOnce
      <2>2. t \in TraceIds /\ Place(t) \in Nat
            BY <1>2, <1>9, PlaceIs
      <2>3. reader'.given[t] = reader.given[t] + IF t \in page THEN 1 ELSE 0
            BY <1>2, <1>5, <2>2, PageGives
      <2>4. ListLimit \in Nat
            BY <1>2, PlacesReadIs
      <2>5. reader'.given[t] = IF Place(t) < o + ListLimit THEN 1 ELSE 0
            BY <1>4, <2>1, <2>2, <2>3, <2>4, <1>9
      <2> QED BY <1>5, <2>1, <2>5
<1>10. PlacedOnce'
       BY <1>7, <1>8, <1>9 DEF PlacedOnce
<1>11. PassedOnce' /\ EndReached'
       BY <1>1, <1>5 DEF PassedOnce, EndReached, PagesInv
<1> QED BY <1>6, <1>10, <1>11 DEF PagesInv

\* The traces are counted.
LEMMA TotalKeeps ==
    ASSUME PagesInv, CountRows
    PROVE  PagesInv'
<1>1. /\ style # "cursor" /\ "total" \in reader.asked
           /\ UNCHANGED <<shown, style, edits, touched, appended>>
      /\ reader' = [reader EXCEPT !.asked = reader.asked \ {"total"},
                                    !.total = Cardinality(Shown)]
      BY DEF CountRows
<1>2. PagesTypes /\ reader \in ReaderTypes
      BY DEF PagesInv, PagesTypes
<1>3. /\ reader'.asked = reader.asked \ {"total"} /\ reader'.given = reader.given
      /\ reader'.page = reader.page /\ reader'.total = Cardinality(Shown)
           /\ reader'.done = reader.done
      BY <1>1, <1>2 DEF ReaderTypes
<1>4. PagesTypes'
      <2>1. Cardinality(Shown) \in Nat
            BY <1>2, PlaceIs
      <2>2. reader' \in ReaderTypes
            BY <1>1, <1>2, <2>1 DEF ReaderTypes
      <2> QED BY <1>1, <1>2, <2>2 DEF PagesTypes, ReaderTypes
<1>5. /\ Shown' = Shown /\ (\A t : Place(t)' = Place(t)) /\ (Stable' <=> Stable)
           /\ touched' = touched
      BY <1>1, ListStays
<1>6. PlacesRead' = PlacesRead
      <2>1. "rows" \in reader'.asked <=> "rows" \in reader.asked
            BY <1>3
      <2> QED BY <1>3, <2>1 DEF PlacesRead
<1>7. \A t \in Shown : Place(t) < Cardinality(Shown)
      BY <1>2, PlaceIs
<1>8. PlacedOnce'
      BY <1>1, <1>3, <1>5, <1>6, <1>7 DEF PlacedOnce, PagesInv
<1>9. PassedOnce' /\ EndReached'
      BY <1>1, <1>3 DEF PassedOnce, EndReached, PagesInv
<1> QED BY <1>4, <1>8, <1>9 DEF PagesInv

\* The reader asks for the next page, or is done.
LEMMA TurnKeeps ==
    ASSUME PagesInv, TurnPage
    PROVE  PagesInv'
<1>1. /\ style # "cursor" /\ reader.asked = {} /\ ~reader.done
      /\ UNCHANGED <<shown, style, edits, touched, appended>>
      /\ reader' = IF reader.page * ListLimit >= reader.total THEN [reader EXCEPT !.done = TRUE]
                   ELSE [reader EXCEPT !.page = reader.page + 1, !.asked = Queries]
      BY DEF TurnPage
<1>2. PagesTypes /\ reader \in ReaderTypes
      BY DEF PagesInv, PagesTypes
<1>3. PagesTypes'
      <2>1. reader' \in ReaderTypes
            <3>1. [reader EXCEPT !.done = TRUE] \in ReaderTypes
                  BY <1>2 DEF ReaderTypes
            <3>2. reader.page + 1 \in Nat \ {0} /\ Queries \in SUBSET Queries
                  BY <1>2 DEF ReaderTypes
            <3>3. [reader EXCEPT !.page = reader.page + 1, !.asked = Queries] \in ReaderTypes
                  BY <1>2, <3>2 DEF ReaderTypes
            <3> QED BY <1>1, <3>1, <3>3
      <2> QED BY <1>1, <1>2, <2>1 DEF PagesTypes, ReaderTypes
<1>4. /\ Shown' = Shown /\ (\A t : Place(t)' = Place(t)) /\ (Stable' <=> Stable)
           /\ touched' = touched
      BY <1>1, ListStays
<1>5. reader'.given = reader.given /\ reader'.total = reader.total
      BY <1>1, <1>2 DEF ReaderTypes
<1>6. CASE reader.page * ListLimit >= reader.total
      <2>1. reader'.page = reader.page /\ reader'.asked = {}
            BY <1>1, <1>2, <1>6 DEF ReaderTypes
      <2>2. PlacesRead' = PlacesRead
            BY <1>1, <2>1 DEF PlacesRead
      <2>3. PlacedOnce'
            BY <1>1, <1>4, <1>5, <2>1, <2>2 DEF PlacedOnce, PagesInv
      <2>4. EndReached' /\ PassedOnce'
            BY <1>1, <1>5, <1>6, <2>1 DEF EndReached, PassedOnce
      <2> QED BY <1>3, <2>3, <2>4 DEF PagesInv
<1>7. CASE ~(reader.page * ListLimit >= reader.total)
      <2>1. reader'.page = reader.page + 1 /\ reader'.asked = Queries
              /\ reader'.done = reader.done
            BY <1>1, <1>2, <1>7 DEF ReaderTypes
      <2>2. "rows" \in reader'.asked /\ "total" \in reader'.asked
            BY <2>1 DEF Queries
      <2>3. PlacesRead' = PlacesRead
            <3>1. reader'.page - 1 = reader.page
                  BY <1>2, <2>1 DEF ReaderTypes
            <3> QED BY <1>1, <2>2, <3>1 DEF PlacesRead
      <2>4. PlacedOnce'
            BY <1>1, <1>4, <1>5, <2>2, <2>3 DEF PlacedOnce, PagesInv
      <2>5. EndReached' /\ PassedOnce'
            BY <1>1, <2>1 DEF EndReached, PassedOnce
      <2> QED BY <1>3, <2>4, <2>5 DEF PagesInv
<1> QED BY <1>6, <1>7

\* An edit at the end of the list, oldest first, changes no place of another trace.
LEMMA EditKeeps ==
    ASSUME PagesInv, NEW e \in TraceIds, Edit(e)
    PROVE  PagesInv'
<1>1. PICK ts \in (Clock \cup {0}) \ {shown[e]} :
         /\ shown' = [shown EXCEPT ![e] = ts]
         /\ appended' = (appended /\ shown[e] = 0 /\ \A o \in Shown : Below(Key(o), <<ts, e>>))
      BY DEF Edit
<1>2. touched' = touched \cup {e} /\ edits' = edits + 1 /\ UNCHANGED <<style, reader>>
      BY DEF Edit
<1>3. PagesTypes /\ shown \in [TraceIds -> Clock \cup {0}] /\ Clock \cup {0} \subseteq Nat
        /\ edits \in Nat
      BY PagesAssumption DEF PagesInv, PagesTypes, PagesAssumption
<1>4. PagesTypes'
      BY <1>1, <1>2, <1>3 DEF PagesTypes, ReaderTypes
<1>5. /\ \A t \in TraceIds : t # e => shown'[t] = shown[t] /\ Key(t)' = Key(t)
      /\ shown'[e] = ts /\ Key(e)' = <<ts, e>>
      BY <1>1, <1>3 DEF Key
<1>6. \A t : t \in Shown' /\ t \notin touched' => t \in Shown /\ t \notin touched /\ t # e
        /\ t \in TraceIds
      BY <1>2, <1>5 DEF Shown
<1>7. PassedOnce'
      <2>1. ASSUME style = "cursor", NEW t \in Shown', t \notin touched'
            PROVE  reader.given[t] = IF reader.done \/ ~(t \in Following)' THEN 1 ELSE 0
            <3>1. t \in Shown /\ t \notin touched /\ Key(t)' = Key(t)
                  BY <1>5, <1>6, <2>1
            <3>2. (t \in Following)' <=> t \in Following
                  BY <1>2, <2>1, <3>1 DEF Following
            <3> QED BY <2>1, <3>1, <3>2 DEF PagesInv, PassedOnce
      <2> QED BY <1>2, <2>1 DEF PassedOnce
<1>8. ASSUME style # "cursor", Stable' PROVE Stable /\ style = "asc" /\ appended'
      <2>1. edits' # 0
            BY <1>2, <1>3
      <2> QED BY <1>1, <1>2, <1>8, <2>1 DEF Stable
<1>9. ASSUME style # "cursor", Stable', NEW t \in Shown', t \notin touched'
      PROVE  Place(t)' = Place(t)
      <2>1. t \in Shown /\ t # e /\ Key(t)' = Key(t) /\ t \in TraceIds
            BY <1>5, <1>6, <1>9
      <2>2. shown[e] = 0 /\ Below(Key(t), <<ts, e>>)
            BY <1>1, <1>8, <1>9, <2>1
      <2>3. ~Below(Key(e)', Key(t)')
            <3>1. /\ t \in Nat /\ e \in Nat /\ ts \in Nat /\ shown[t] \in Nat
                  BY <1>3, <2>1, PagesAssumption DEF PagesAssumption
            <3> QED BY <1>5, <2>1, <2>2, <3>1 DEF Below, Key
      <2>4. \A u \in TraceIds : u # e => (u \in Shown' <=> u \in Shown) /\ Key(u)' = Key(u)
            BY <1>5 DEF Shown
      <2>5. {u \in Shown' : Below(Key(u)', Key(t)')} = {u \in Shown : Below(Key(u), Key(t))}
            <3>1. e \notin Shown
                  BY <2>2 DEF Shown
            <3>2. Shown \subseteq TraceIds /\ Shown' \subseteq TraceIds
                  BY DEF Shown
            <3> QED BY <2>1, <2>3, <2>4, <3>1, <3>2
      <2>6. Place(t) = Cardinality({u \in Shown : Below(Key(u), Key(t))})
            BY <1>8, <1>9 DEF Place, Earlier
      <2>7. Place(t)' = Cardinality({u \in Shown' : Below(Key(u)', Key(t)')})
            BY <1>2, <1>8, <1>9 DEF Place, Earlier, Below
      <2> QED BY <2>5, <2>6, <2>7
<1>10. PlacedOnce'
       <2>1. PlacesRead' = PlacesRead
             BY <1>2 DEF PlacesRead
       <2>2. ASSUME style # "cursor", Stable', NEW t \in Shown', t \notin touched'
             PROVE  /\ reader.given[t] = IF Place(t)' < PlacesRead THEN 1 ELSE 0
                    /\ "total" \notin reader.asked => Place(t)' < reader.total
             BY <1>6, <1>8, <1>9, <2>2 DEF PagesInv, PlacedOnce
       <2> QED BY <1>2, <2>1, <2>2 DEF PlacedOnce
<1>11. EndReached'
       BY <1>2 DEF EndReached, PagesInv
<1> QED BY <1>4, <1>7, <1>10, <1>11 DEF PagesInv

\* The inductive invariant holds at first.
LEMMA PagesInitOK == PagesInit => PagesInv
<1> SUFFICES ASSUME PagesInit PROVE PagesInv
    OBVIOUS
<1>1. /\ shown \in [TraceIds -> Clock \cup {0}] /\ style \in Styles /\ edits = 0
      /\ reader = [cursor |-> NoCursor, page |-> 1, asked |-> Queries, total |-> 0,
                   given |-> [t \in TraceIds |-> 0], done |-> FALSE]
      BY DEF PagesInit
<1>2. PagesTypes
      <2>1. reader \in ReaderTypes
            BY <1>1 DEF ReaderTypes
      <2> QED BY <1>1, <2>1 DEF PagesTypes
<1>3. /\ reader.cursor = NoCursor /\ reader.page = 1 /\ reader.asked = Queries /\ ~reader.done
      /\ \A t \in TraceIds : reader.given[t] = 0
      BY <1>1
<1>4. PassedOnce
      BY <1>3 DEF PassedOnce, Following, Shown
<1>5. PlacesRead = 0
      <2>1. ListLimit \in Nat
            BY PagesAssumption DEF PagesAssumption
      <2> QED BY <1>3, <2>1 DEF PlacesRead, Queries
<1>6. \A t \in Shown : ~(Place(t) < 0) /\ t \in TraceIds
      BY <1>2, PlaceIs
<1>7. PlacedOnce
      BY <1>3, <1>5, <1>6 DEF PlacedOnce, Queries
<1>8. EndReached
      BY <1>3 DEF EndReached
<1> QED BY <1>2, <1>4, <1>7, <1>8 DEF PagesInv

\* Every step keeps it.
LEMMA PagesStep == PagesInv /\ [PagesNext]_pageVars => PagesInv'
<1> SUFFICES ASSUME PagesInv, [PagesNext]_pageVars PROVE PagesInv'
    OBVIOUS
<1>1. CASE UNCHANGED pageVars
      <2>1. UNCHANGED <<shown, style, edits, touched, appended>> /\ reader' = reader
            BY <1>1 DEF pageVars
      <2>2. /\ Shown' = Shown /\ (\A t : Key(t)' = Key(t) /\ Place(t)' = Place(t))
                 /\ (Stable' <=> Stable)
            BY <2>1, ListStays
      <2>3. PagesTypes' /\ EndReached'
            BY <2>1 DEF PagesInv, PagesTypes, ReaderTypes, EndReached
      <2>4. Following' = Following /\ PlacesRead' = PlacesRead
            BY <2>1, <2>2 DEF Following, PlacesRead
      <2>5. PassedOnce' /\ PlacedOnce'
            BY <2>1, <2>2, <2>4 DEF PagesInv, PassedOnce, PlacedOnce
      <2> QED BY <2>3, <2>5 DEF PagesInv
<1> QED BY <1>1, CursorKeeps, RowsKeep, TotalKeeps, TurnKeeps, EditKeeps DEF PagesNext

\* It gives each trace once.
LEMMA InvGivesOnce == PagesInv => GivenOnce
<1> SUFFICES ASSUME PagesInv, Stable, NEW t \in Shown, t \notin touched
             PROVE  reader.given[t] <= 1 /\ (reader.done => reader.given[t] = 1)
    BY DEF GivenOnce
<1>1. CASE style = "cursor"
      BY <1>1 DEF PagesInv, PassedOnce
<1>2. CASE style # "cursor"
      <2>1. /\ reader.given[t] = IF Place(t) < PlacesRead THEN 1 ELSE 0
            /\ "total" \notin reader.asked => Place(t) < reader.total
            BY <1>2 DEF PagesInv, PlacedOnce
      <2>2. ASSUME reader.done PROVE Place(t) < PlacesRead
            <3>1. reader.asked = {} /\ reader.page * ListLimit >= reader.total
                  BY <1>2, <2>2 DEF PagesInv, EndReached
            <3>2. PlacesRead = reader.page * ListLimit /\ PlacesRead \in Nat
                  BY <3>1, PlacesReadIs DEF PagesInv
            <3>3. Place(t) \in Nat /\ reader.total \in Nat /\ Place(t) < reader.total
                  BY <2>1, <3>1, PlaceIs DEF PagesInv, PagesTypes, ReaderTypes
            <3> QED BY <3>1, <3>2, <3>3
      <2> QED BY <2>1, <2>2
<1> QED BY <1>1, <1>2

\* queries.ts: keyset pagination by (timestamp, id) gives each trace that stays as it was
\* once; page numbers do, of a list left alone or one that grows at its end.
THEOREM EachGivenOnce == PagesSpec => []GivenOnce
BY PagesInitOK, PagesStep, InvGivesOnce, PTL DEF PagesSpec

=============================================================================
