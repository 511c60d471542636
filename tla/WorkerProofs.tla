---------------------------- MODULE WorkerProofs ----------------------------
(***************************************************************************)
(* Proofs about four components of the worker: the recovery cursor         *)
(* (RecoveryCursor), for any number of old intents, replicas and failures  *)
(* and any budget of a pass; the connection pools (ConnectionPools), for   *)
(* any cast of processors, buckets and sizes of the pools; the windows of  *)
(* a pull import (ImportWindows), for any runs, pages and traces; and the  *)
(* environment registry (EnvironmentRegistry), for any replicas, names,    *)
(* traces, cap and page of the scan.                                       *)
(*                                                                         *)
(* The cursor: a cycle owes the intents it found and has not examined.     *)
(* They are all still pending, so a pass lists each of them, and it takes  *)
(* the smallest of its list: what is owed stays beyond the cursor.         *)
(* The pools: the clients that the actors' plans hold are fewer than a     *)
(* pool has, so a pool of waiters only is never full. Who waits for a lock *)
(* waits in one order: the object, then the buckets as they ascend, then   *)
(* the fence, whose holders have nothing left to take. In a set of actors  *)
(* that wait only for one another, whoever waits for the greatest bucket   *)
(* would wait for one that waits for a greater.                            *)
(* The windows: whatever lies before the stored position has landed, and   *)
(* so has what lies before the position of each run; a page holds a first  *)
(* part of what follows, so behind its newest trace nothing is missing.    *)
(* The registry: a scan that has come down to its cursor has found the     *)
(* name of whatever was settled from there on, unless it found too many or *)
(* the name was observed since the rebuild began; and what was observed is *)
(* read again under the lock that keeps observations out until the swap.   *)
(***************************************************************************)
EXTENDS RecoveryCursor, ConnectionPools, ImportWindows, EnvironmentRegistry,
        SequenceTheorems, FiniteSetTheorems, WellFoundedInduction, TLAPS

-----------------------------------------------------------------------------
\* The recovery cursor.

\* What a cycle owes, and where a pass keeps it.
OwedInv ==
    /\ \A x \in Cycles : owed[x] \subseteq pending
    /\ \A c \in Recons : pc[c] = "idle" => owed[c] = {} /\ after[c] = 0
    /\ \A c \in Recons : pc[c] \notin {"idle", "list"} => owed[c] \subseteq page[c]

IInv == TypeOK /\ OwedInv /\ NothingSkipped

-----------------------------------------------------------------------------

\* The inductive invariant holds at first.
LEMMA InitIInv == Init => IInv
BY CursorAssumption
   DEF Init, IInv, TypeOK, OwedInv, NothingSkipped, Cycles, Keys, Old, LatestKey, Gone

\* An intent becomes old.
LEMMA ArriveIInv ==
    ASSUME IInv, NEW k \in Keys, Arrive(k)
    PROVE  IInv'
BY CursorAssumption
   DEF IInv, TypeOK, OwedInv, NothingSkipped, Arrive, Begun, passVars,
       Cycles, Keys, Old, LatestKey, Gone

\* An intent is processed.
LEMMA DrainIInv ==
    ASSUME IInv, NEW k \in Keys, Drain(k)
    PROVE  IInv'
BY CursorAssumption
   DEF IInv, TypeOK, OwedInv, NothingSkipped, Drain, Cycles, Keys, Old, LatestKey, Gone

\* A new cycle owes what is pending, the stored cycle what it still owed.
LEMMA ReadIInv ==
    ASSUME IInv, NEW c \in Recons, ReadCursor(c) \/ DiscardCursor(c)
    PROVE  IInv'
<1> USE CursorAssumption DEF Cycles
<1>1. /\ StartPass(c) /\ cursor' \in {0, cursor}
      /\ outdated' \subseteq Cycles
  BY DEF IInv, TypeOK, ReadCursor, DiscardCursor, NewCycle
<1>2. CASE NewCycle(c) /\ cursor' = 0
  <2>1. TypeOK'
    BY <1>1, <1>2 DEF IInv, TypeOK, StartPass, PStep, NewCycle, LatestKey
  <2>2. OwedInv'
    BY <1>1, <1>2 DEF IInv, TypeOK, OwedInv, StartPass, PStep, NewCycle
  <2>3. NothingSkipped'
    BY <1>1, <1>2
       DEF IInv, TypeOK, OwedInv, NothingSkipped, StartPass, PStep, NewCycle, Old
  <2> QED
    BY <2>1, <2>2, <2>3 DEF IInv
<1>3. CASE /\ cursor' = cursor /\ after' = [after EXCEPT ![c] = cursor]
           /\ owed' = [owed EXCEPT ![c] = owed[Stored]]
  <2>1. TypeOK'
    BY <1>1, <1>3 DEF IInv, TypeOK, StartPass, PStep, LatestKey
  <2>2. OwedInv'
    BY <1>1, <1>3 DEF IInv, TypeOK, OwedInv, StartPass, PStep
  <2>3. NothingSkipped'
    BY <1>1, <1>3 DEF IInv, TypeOK, NothingSkipped, StartPass, PStep
  <2> QED
    BY <2>1, <2>2, <2>3 DEF IInv
<1> QED
  BY <1>2, <1>3 DEF ReadCursor, DiscardCursor

\* What a cycle owes is pending and beyond the cursor, so the list has it.
LEMMA ListIInv ==
    ASSUME IInv, NEW c \in Recons, List(c)
    PROVE  IInv'
<1>1. TypeOK'
  BY DEF IInv, TypeOK, List, PStep, Keys
<1>2. OwedInv'
  BY CursorAssumption
     DEF IInv, TypeOK, OwedInv, NothingSkipped, List, PStep, Cycles, Old
<1>3. NothingSkipped'
  BY DEF IInv, NothingSkipped, List
<1> QED
  BY <1>1, <1>2, <1>3 DEF IInv

\* The pass stops at its budget, at the end of its cycle or past the last key.
LEMMA ChooseIInv ==
    ASSUME IInv, NEW c \in Recons, BudgetSpent(c) \/ AfterCycle(c) \/ Exhausted(c)
    PROVE  IInv'
<1>1. PICK to \in {"wrap", "save"} : PStep(c, "next", to)
  BY DEF BudgetSpent, AfterCycle, Exhausted
<1>2. UNCHANGED <<pending, cursor, outdated, after, page, count, owed>>
  BY DEF BudgetSpent, AfterCycle, Exhausted
<1> QED
  BY <1>1, <1>2 DEF IInv, TypeOK, OwedInv, NothingSkipped, PStep

\* The smallest key of the list is examined: the others are beyond it.
LEMMA ReconcileIInv ==
    ASSUME IInv, NEW c \in Recons, Reconcile(c)
    PROVE  IInv'
BY CursorAssumption
   DEF IInv, TypeOK, OwedInv, NothingSkipped, Reconcile, ReconcileOne, LastExamined,
       NextListed, PStep, Cycles, Keys, Old, LatestKey, Gone

\* What the cursor keeps is what the pass owed, beyond what it examined.
LEMMA EndIInv ==
    ASSUME IInv, NEW c \in Recons,
           Wrap(c) \/ SaveCursor(c) \/ NothingPending(c) \/ PassFails(c)
    PROVE  IInv'
<1>1. EndPass(c)
  BY DEF Wrap, SaveCursor, NothingPending, PassFails
<1>2. CASE Wrap(c)
  BY <1>1, <1>2, CursorAssumption
     DEF IInv, TypeOK, OwedInv, NothingSkipped, Wrap, EndPass, Cycles, Keys, Old, LatestKey
<1>3. CASE SaveCursor(c)
  <2>1. TypeOK'
    <3>1. outdated' \subseteq Cycles
      BY <1>3 DEF IInv, TypeOK, SaveCursor, StoreProgress, Cycles
    <3> QED
      BY <1>1, <1>3, <3>1, CursorAssumption
         DEF IInv, TypeOK, SaveCursor, EndPass, StoreProgress, Cycles, LatestKey
  <2>2. OwedInv'
    <3>1. owed[c] \subseteq pending /\ pc[c] = "save"
      BY <1>3 DEF IInv, OwedInv, SaveCursor, Cycles
    <3> QED
      BY <1>1, <1>3, <3>1, CursorAssumption
         DEF IInv, TypeOK, OwedInv, SaveCursor, EndPass, StoreProgress, Cycles
  <2>3. NothingSkipped'
    BY <1>1, <1>3, CursorAssumption
       DEF IInv, TypeOK, NothingSkipped, SaveCursor, EndPass, StoreProgress, Cycles, LatestKey
  <2> QED
    BY <2>1, <2>2, <2>3 DEF IInv
<1>4. CASE NothingPending(c) \/ PassFails(c)
  BY <1>1, <1>4, CursorAssumption
     DEF IInv, TypeOK, OwedInv, NothingSkipped, NothingPending, PassFails, EndPass,
         StoreNothing, Cycles, Keys, Old, LatestKey
<1> QED
  BY <1>2, <1>3, <1>4

\* Nothing changes.
LEMMA StutterIInv ==
    ASSUME IInv, UNCHANGED vars
    PROVE  IInv'
BY DEF IInv, TypeOK, OwedInv, NothingSkipped, vars, passVars

\* Every step keeps the invariant.
LEMMA NextIInv ==
    ASSUME IInv, [Next]_vars
    PROVE  IInv'
BY ArriveIInv, DrainIInv, ReadIInv, ListIInv, ChooseIInv, ReconcileIInv,
   EndIInv, StutterIInv
   DEF Next, Pass

\* The inductive invariant holds in every reachable state.
THEOREM Invariance == Spec => []IInv
<1>1. Init => IInv
  BY InitIInv
<1>2. IInv /\ [Next]_vars => IInv'
  BY NextIInv
<1> QED
  BY <1>1, <1>2, PTL DEF Spec

\* No cursor, stored or in a pass, ever passes an intent that was pending when
\* its cycle began and that the cycle has not examined (readCursor, run).
THEOREM CursorSkipsNothing == Spec => []NothingSkipped
BY Invariance, PTL DEF IInv

-----------------------------------------------------------------------------
\* The connection pools.

FamilyOf(F, S) == F # {} /\ \A T \in F : T \subseteq S
HasSmallest(F) == \E T \in F : \A U \in F : U \subseteq T => U = T

\* A family of subsets of a finite set has a smallest member: what stands in
\* for induction over a finite set.
LEMMA SmallestMember ==
    ASSUME NEW S, IsFiniteSet(S), NEW F, FamilyOf(F, S)
    PROVE  HasSmallest(F)
<1> DEFINE R == StrictSubsetOrdering(S)
<1>1. IsWellFoundedOn(R, FiniteSubsetsOf(S))
      BY FS_StrictSubsetOrderingWellFounded
<1>2. F \subseteq FiniteSubsetsOf(S) /\ F # {}
      BY FS_Subset DEF FiniteSubsetsOf, FamilyOf
<1>3. \A T \in F : T \subseteq S
      BY DEF FamilyOf
<1> HIDE DEF R
<1>4. PICK T \in F : \A U \in F : ~(<<U, T>> \in R)
      BY <1>1, <1>2, WFMin
<1> QED BY <1>3, <1>4 DEF R, StrictSubsetOrdering, HasSmallest

\* A nonempty finite set of numbers has a greatest.
LEMMA GreatestOf ==
    ASSUME NEW S \in SUBSET Nat, IsFiniteSet(S), S # {}
    PROVE  Max(S) \in S /\ \A y \in S : Max(S) >= y
<1> DEFINE Top(T) == \E x \in T : \A y \in T : x >= y
           F == {T \in SUBSET S : T # {} /\ ~Top(T)}
<1>1. ASSUME F # {} PROVE FALSE
      <2>1. PICK T \in F : \A U \in F : U \subseteq T => U = T
            <3>1. FamilyOf(F, S)
                  BY <1>1 DEF FamilyOf
            <3> HIDE DEF F
            <3>2. HasSmallest(F)
                  BY ONLY <3>1, IsFiniteSet(S), SmallestMember
            <3> QED BY <3>2 DEF HasSmallest
      <2>2. PICK x \in T : x \in Nat
            OBVIOUS
      <2>3. \A y \in T : y \in Nat
            OBVIOUS
      <2>4. T \ {x} \notin F
            BY <2>1, <2>2
      <2>5. CASE T \ {x} = {}
            <3>1. \A y \in T : y = x
                  BY <2>5
            <3> QED BY <2>1, <2>2, <3>1
      <2>6. CASE Top(T \ {x})
            <3>1. PICK z \in T \ {x} : \A y \in T \ {x} : z >= y
                  BY <2>6
            <3>2. (IF z >= x THEN z ELSE x) \in T /\ \A y \in T : (IF z >= x THEN z ELSE x) >= y
                  BY ONLY <2>2, <2>3, <3>1
            <3> QED BY <2>1, <3>2
      <2> QED BY <2>4, <2>5, <2>6
<1>2. Top(S)
      BY <1>1
<1> QED BY <1>2 DEF Max

IsAscending(list) == \A i, j \in DOMAIN list : i < j => list[i] < list[j]

\* A finite set of numbers can be enumerated in order.
LEMMA AscendingIs ==
    ASSUME NEW S \in SUBSET Nat, IsFiniteSet(S)
    PROVE  /\ Ascending(S) \in Seq(Nat)
           /\ IsAscending(Ascending(S))
<1> DEFINE Enumerations(T) == [1 .. Cardinality(T) -> T]
           Able(T) == \E list \in Enumerations(T) : IsAscending(list)
           F == {T \in SUBSET S : ~Able(T)}
<1>c. \A T \in SUBSET S : IsFiniteSet(T) /\ Cardinality(T) \in Nat
      BY FS_Subset, FS_CardinalityType
<1>1. ASSUME F # {} PROVE FALSE
      <2>1. PICK T \in F : \A U \in F : U \subseteq T => U = T
            <3>1. FamilyOf(F, S)
                  BY <1>1 DEF FamilyOf
            <3> HIDE DEF F
            <3>2. HasSmallest(F)
                  BY ONLY <3>1, IsFiniteSet(S), SmallestMember
            <3> QED BY <3>2 DEF HasSmallest
      <2>t. T \in SUBSET S /\ T \in SUBSET Nat /\ IsFiniteSet(T) /\ ~Able(T)
            BY <1>c, <2>1
      <2>2. T # {}
            <3> SUFFICES ASSUME T = {} PROVE FALSE
                OBVIOUS
            <3>1. Cardinality(T) = 0
                  BY FS_EmptySet
            <3>2. [i \in 1 .. 0 |-> 0] \in Enumerations(T) /\ IsAscending([i \in 1 .. 0 |-> 0])
                  BY <3>1 DEF IsAscending
            <3> QED BY <2>t, <3>2
      <2>3. Max(T) \in T /\ \A y \in T : Max(T) >= y
            BY <2>t, <2>2, GreatestOf
      <2>4. PICK m \in T : \A y \in T : m >= y
            BY <2>3
      <2> DEFINE U == T \ {m}
                 c == Cardinality(U)
      <2>5. U \notin F /\ U \in SUBSET S
            BY <2>1, <2>t
      <2>6. Able(U)
            BY <2>5
      <2>7. c \in Nat /\ Cardinality(T) = c + 1
            <3>1. Cardinality(U) = Cardinality(T) - 1
                  BY <2>t, FS_RemoveElement
            <3>2. Cardinality(T) \in Nat /\ Cardinality(U) \in Nat
                  BY <1>c, <2>t, <2>5
            <3> HIDE DEF U
            <3> QED BY <3>1, <3>2
      <2>8. PICK list \in [1 .. c -> U] : IsAscending(list)
            BY <2>6
      <2> DEFINE longer == [i \in 1 .. c + 1 |-> IF i <= c THEN list[i] ELSE m]
      <2> HIDE DEF c
      <2>9. longer \in [1 .. c + 1 -> T]
            BY <2>7, <2>8
      <2>10. IsAscending(longer)
            <3> SUFFICES ASSUME NEW i \in 1 .. c + 1, NEW j \in 1 .. c + 1, i < j
                         PROVE  longer[i] < longer[j]
                BY DEF IsAscending
            <3>1. i \in 1 .. c /\ longer[i] = list[i] /\ list[i] \in U
                  BY <2>7, <2>8
            <3>2. CASE j <= c
                  BY <2>7, <2>8, <3>1, <3>2 DEF IsAscending
            <3>3. CASE ~(j <= c)
                  <4>1. longer[j] = m
                        BY <3>3, <2>7
                  <4>2. list[i] \in Nat /\ m \in Nat /\ list[i] # m /\ m >= list[i]
                        BY <3>1, <2>4, <2>t
                  <4> QED BY <3>1, <4>1, <4>2
            <3> QED BY <3>2, <3>3
      <2> QED BY <2>t, <2>7, <2>9, <2>10
<1>2. Able(S)
      BY <1>1
<1>3. Ascending(S) \in Enumerations(S) /\ IsAscending(Ascending(S))
      BY <1>2 DEF Ascending, IsAscending
<1>4. PICK n \in Nat : Ascending(S) \in [1 .. n -> Nat]
      BY <1>c, <1>3
<1>5. Ascending(S) \in Seq(Nat)
      BY ONLY <1>4
<1> QED BY <1>3, <1>4, <1>5

-----------------------------------------------------------------------------
\* The plans.  What each part takes, place by place.

Kinds == {"client", "lock", "try", "shared", "exclusive"}
Things == {"main", "merge", "fence", "object", "bucket", "execution"}
AnyStep(object) == [is : Kinds, of : Things, id : Nat \cup {object}]

\* A processor's plan: the object, the buckets if there are any, the fence.
ProcessorPlan(steps, object, buckets) ==
    LET k == Len(buckets)
        m == IF k = 0 THEN 2 ELSE k + 3
    IN  /\ Len(steps) = m + 2
        /\ steps[1] = Client("main") /\ steps[2] = Lock("object", object)
        /\ k > 0 => steps[3] = Client("merge")
        /\ \A i \in 1 .. k : steps[3 + i] = Lock("bucket", buckets[i])
        /\ steps[m + 1] = Client("fence") /\ steps[m + 2] = Shared

\* What a concatenation holds.
LEMMA Joined ==
    ASSUME NEW S, NEW s \in Seq(S), NEW t \in Seq(S)
    PROVE  /\ s \o t \in Seq(S)
           /\ Len(s \o t) = Len(s) + Len(t)
           /\ \A i \in 1 .. Len(s) : (s \o t)[i] = s[i]
           /\ \A i \in 1 .. Len(t) : (s \o t)[Len(s) + i] = t[i]
<1>1. Len(s) \in Nat /\ Len(t) \in Nat
      BY LenProperties
<1>2. ASSUME NEW i \in 1 .. Len(s) PROVE (s \o t)[i] = s[i]
      BY <1>1, ConcatProperties
<1>3. ASSUME NEW i \in 1 .. Len(t) PROVE (s \o t)[Len(s) + i] = t[i]
      <2>1. Len(s) + i \in 1 .. Len(s) + Len(t) /\ ~(Len(s) + i <= Len(s))
              /\ Len(s) + i - Len(s) = i
            BY <1>1
      <2> QED BY <2>1, ConcatProperties
<1>4. s \o t \in Seq(S) /\ Len(s \o t) = Len(s) + Len(t)
      BY ConcatProperties
<1> QED BY <1>2, <1>3, <1>4

\* What a concatenation of a pair, a sequence and a pair holds.
ThreeIn(w, r, s, t) ==
    /\ Len(w) = Len(s) + 4
    /\ w[1] = r[1] /\ w[2] = r[2]
    /\ \A i \in 1 .. Len(s) : w[2 + i] = s[i]
    /\ w[Len(s) + 3] = t[1] /\ w[Len(s) + 4] = t[2]

LEMMA ThreeParts ==
    ASSUME NEW S, NEW r \in Seq(S), NEW s \in Seq(S), NEW t \in Seq(S),
           Len(r) = 2, Len(t) = 2
    PROVE  ThreeIn(r \o s \o t, r, s, t)
<1>0. PICK n \in Nat : n = Len(s)
      BY LenProperties
<1>1. PICK u : u = r \o s
      OBVIOUS
<1>2. /\ u \in Seq(S) /\ Len(u) = Len(r) + Len(s)
      /\ \A i \in 1 .. Len(r) : u[i] = r[i]
      /\ \A i \in 1 .. Len(s) : u[Len(r) + i] = s[i]
      BY ONLY r \in Seq(S), s \in Seq(S), <1>1, Joined
<1>3. PICK w : w = u \o t
      OBVIOUS
<1>4. /\ Len(w) = Len(u) + Len(t)
      /\ \A i \in 1 .. Len(u) : w[i] = u[i]
      /\ \A i \in 1 .. Len(t) : w[Len(u) + i] = t[i]
      <2>1. u \in Seq(S)
            BY <1>2
      <2> QED BY ONLY t \in Seq(S), <2>1, <1>3, Joined
<1>5. Len(u) = 2 + n
      BY <1>0, <1>2
<1>6. w[1] = r[1] /\ w[2] = r[2]
      BY <1>2, <1>4, <1>5
<1>7. ASSUME NEW i \in 1 .. n PROVE w[2 + i] = s[i]
      BY <1>0, <1>2, <1>4, <1>5
<1>8. w[n + 3] = t[1] /\ w[n + 4] = t[2] /\ Len(w) = n + 4
      <2>1. (2 + n) + 1 = n + 3 /\ (2 + n) + 2 = n + 4
            OBVIOUS
      <2>2. w[(2 + n) + 1] = t[1] /\ w[(2 + n) + 2] = t[2]
            BY <1>4, <1>5
      <2> QED BY <2>1, <2>2, <1>4, <1>5
<1>9. ThreeIn(w, r, s, t)
      BY <1>0, <1>6, <1>7, <1>8 DEF ThreeIn
<1> QED BY <1>1, <1>3, <1>9

\* What the merge locks are, if there are any.
LEMMA LocksAre ==
    ASSUME NEW object, NEW buckets \in Seq(Nat), buckets # <<>>
    PROVE  /\ LocksOf(buckets) \in Seq(AnyStep(object))
           /\ Len(LocksOf(buckets)) = Len(buckets) + 1
           /\ LocksOf(buckets)[1] = Client("merge")
           /\ \A i \in 1 .. Len(buckets) : LocksOf(buckets)[i + 1] = Lock("bucket", buckets[i])
<1>1. PICK k \in Nat \ {0} : k = Len(buckets) /\ DOMAIN buckets = 1 .. k
      BY LenProperties, EmptySeq
<1>2. PICK any : any = AnyStep(object)
      OBVIOUS
<1>3. [i \in 1 .. k |-> Lock("bucket", buckets[i])] \in [1 .. k -> any]
      <2>1. \A i \in 1 .. k : buckets[i] \in Nat
            BY <1>1, ElementOfSeq
      <2> QED BY <1>2, <2>1 DEF Lock, AnyStep, Kinds, Things
<1>4. PICK locks \in [1 .. k -> any] : locks = [i \in 1 .. k |-> Lock("bucket", buckets[i])]
      BY <1>3
<1>5. locks \in Seq(any) /\ Len(locks) = k
      BY <1>1
<1>6. PICK one : one = <<Client("merge")>>
      OBVIOUS
<1>a. one \in Seq(any) /\ Len(one) = 1 /\ one[1] = Client("merge")
      <2>1. Client("merge") \in any
            BY <1>2 DEF Client, AnyStep, Kinds, Things
      <2> QED BY <1>6, <2>1
<1>b. /\ one \o locks \in Seq(any) /\ Len(one \o locks) = Len(one) + Len(locks)
      /\ \A i \in 1 .. Len(one) : (one \o locks)[i] = one[i]
      /\ \A i \in 1 .. Len(locks) : (one \o locks)[Len(one) + i] = locks[i]
      <2>1. one \in Seq(any) /\ locks \in Seq(any)
            BY <1>5, <1>a
      <2> QED BY ONLY <2>1, Joined
<1>7. /\ one \o locks \in Seq(any) /\ Len(one \o locks) = 1 + k
      /\ (one \o locks)[1] = one[1]
      /\ \A i \in 1 .. k : (one \o locks)[1 + i] = locks[i]
      BY <1>1, <1>5, <1>a, <1>b
<1>8. LocksOf(buckets) = one \o locks
      BY <1>1, <1>4, <1>6 DEF LocksOf
<1>9. (one \o locks)[1] = Client("merge")
      BY <1>a, <1>7
<1>10. ASSUME NEW i \in 1 .. k PROVE (one \o locks)[i + 1] = Lock("bucket", buckets[i])
      <2>1. 1 + i = i + 1
            BY <1>1
      <2> QED BY <1>4, <1>7, <2>1
<1> QED BY <1>1, <1>2, <1>7, <1>8, <1>9, <1>10

\* The steps of a processor, one by one.
LEMMA PlanIs ==
    ASSUME NEW object, NEW buckets \in Seq(Nat)
    PROVE  ProcessorPlan(<<Client("main"), Lock("object", object)>> \o LocksOf(buckets)
                            \o <<Client("fence"), Shared>>, object, buckets)
<1>1. PICK any : any = AnyStep(object)
      OBVIOUS
<1>a. PICK first : first = <<Client("main"), Lock("object", object)>>
      OBVIOUS
<1>2. /\ first \in Seq(any) /\ Len(first) = 2
      /\ first[1] = Client("main") /\ first[2] = Lock("object", object)
      <2>1. Client("main") \in any /\ Lock("object", object) \in any
            BY <1>1 DEF Client, Lock, AnyStep, Kinds, Things
      <2> QED BY <1>a, <2>1
<1>b. PICK last : last = <<Client("fence"), Shared>>
      OBVIOUS
<1>3. /\ last \in Seq(any) /\ Len(last) = 2
      /\ last[1] = Client("fence") /\ last[2] = Shared
      <2>1. Client("fence") \in any /\ Shared \in any
            BY <1>1 DEF Client, Shared, AnyStep, Kinds, Things
      <2> QED BY <1>b, <2>1
<1>4. PICK k \in Nat : k = Len(buckets)
      BY LenProperties
<1>5. CASE buckets = <<>>
      <2>1. k = 0 /\ LocksOf(buckets) = <<>>
            BY <1>4, <1>5, EmptySeq DEF LocksOf
      <2>2. <<>> \in Seq(any) /\ Len(<<>>) = 0
            BY EmptySeq
      <2>3. Len(first \o <<>> \o last) = 4
            /\ (first \o <<>> \o last)[1] = first[1] /\ (first \o <<>> \o last)[2] = first[2]
            /\ (first \o <<>> \o last)[3] = last[1] /\ (first \o <<>> \o last)[4] = last[2]
            <3>1. 0 + 4 = 4 /\ 0 + 3 = 3
                  OBVIOUS
            <3>2. PICK none : none = <<>>
                  OBVIOUS
            <3>3. PICK w : w = first \o none \o last
                  OBVIOUS
            <3>4. none \in Seq(any) /\ Len(none) = 0
                  BY <2>2, <3>2
            <3>5. ThreeIn(w, first, none, last)
                  BY <1>2, <1>3, <3>3, <3>4, ThreeParts
            <3>6. /\ Len(w) = 4 /\ w[1] = first[1] /\ w[2] = first[2]
                  /\ w[3] = last[1] /\ w[4] = last[2]
                  BY <3>1, <3>4, <3>5 DEF ThreeIn
            <3> QED BY <3>2, <3>3, <3>6
      <2>4. \A i \in 1 .. 0 : FALSE
            OBVIOUS
      <2> QED BY <1>a, <1>b, <1>2, <1>3, <1>4, <2>1, <2>2, <2>3, <2>4 DEF ProcessorPlan
<1>6. CASE buckets # <<>>
      <2>1. k > 0
            BY <1>4, <1>6, EmptySeq
      <2>2. PICK locks \in Seq(any) :
              /\ locks = LocksOf(buckets) /\ Len(locks) = k + 1 /\ locks[1] = Client("merge")
              /\ \A i \in 1 .. k : locks[i + 1] = Lock("bucket", buckets[i])
            BY <1>1, <1>4, <1>6, LocksAre
      <2>3. /\ Len(first \o locks \o last) = k + 1 + 4
            /\ (first \o locks \o last)[1] = first[1] /\ (first \o locks \o last)[2] = first[2]
            /\ \A i \in 1 .. k + 1 : (first \o locks \o last)[2 + i] = locks[i]
            /\ (first \o locks \o last)[k + 1 + 3] = last[1]
                 /\ (first \o locks \o last)[k + 1 + 4] = last[2]
            <3>1. PICK w : w = first \o locks \o last
                  OBVIOUS
            <3>2. ThreeIn(w, first, locks, last)
                  BY <1>2, <1>3, <3>1, ThreeParts
            <3>3. /\ Len(w) = k + 1 + 4 /\ w[1] = first[1] /\ w[2] = first[2]
                  /\ \A i \in 1 .. k + 1 : w[2 + i] = locks[i]
                  /\ w[k + 1 + 3] = last[1] /\ w[k + 1 + 4] = last[2]
                  BY <2>2, <3>2 DEF ThreeIn
            <3> QED BY <3>1, <3>3
      <2>4. PICK plan : plan = first \o locks \o last
            OBVIOUS
      <2>5. /\ k + 1 + 4 = k + 3 + 2 /\ k + 1 + 3 = k + 3 + 1
            /\ 1 \in 1 .. k + 1 /\ 2 + 1 = 3 /\ k # 0
            BY <2>1
      <2>6. ASSUME NEW i \in 1 .. k PROVE plan[3 + i] = Lock("bucket", buckets[i])
            <3>1. i + 1 \in 1 .. k + 1 /\ 2 + (i + 1) = 3 + i
                  OBVIOUS
            <3> QED BY <2>2, <2>3, <2>4, <3>1
      <2>7. plan[3] = Client("merge")
            BY <2>2, <2>3, <2>4, <2>5
      <2> QED BY <1>a, <1>b, <1>2, <1>3, <1>4, <2>1, <2>2, <2>3, <2>4, <2>5, <2>6, <2>7
                DEF ProcessorPlan
<1> QED BY <1>5, <1>6

-----------------------------------------------------------------------------
\* What the plans have in common, which is all the argument uses.

OthersTake ==
    {<<"recovery", 1>>, <<"sweep", 1>>, <<"sweep", 3>>, <<"retention", 1>>, <<"import", 1>>}

\* What is what, and what is last.
KnownSteps(steps) ==
    \A i \in 1 .. Len(steps) :
        /\ steps[i].is \in Kinds
        /\ steps[i].is \in {"shared", "exclusive"} =>
             i = Len(steps) /\ steps[i] \in {Shared, Exclusive}
        /\ steps[i].is = "lock" =>
             \/ steps[i].of = "object"
             \/ steps[i].of = "bucket" /\ steps[i].id \in Nat
        /\ steps[i].is = "client" =>
             \E pool \in {"main", "merge", "fence"} : steps[i] = Client(pool)

\* Where a processor takes a client of a pool.
PlaceOf(pool, n) ==
    CASE pool = "main" -> 1 [] pool = "merge" -> 3 [] pool = "fence" -> n - 1

\* Where the clients are.
KnownClients(a, steps) ==
    \A i \in 1 .. Len(steps), pool \in {"main", "merge", "fence"} : steps[i] = Client(pool) =>
        \/ a \in Processors /\ i = PlaceOf(pool, Len(steps))
        \/ pool = "main" /\ <<a, i>> \in {<<"recovery", 1>>, <<"sweep", 1>>, <<"sweep", 3>>}
        \/ pool = "fence" /\ <<a, i>> \in {<<"retention", 1>>, <<"import", 1>>}

\* The order of the locks.
OrderedLocks(steps) ==
    \A i, j \in 1 .. Len(steps) : i < j /\ steps[j].is = "lock" =>
        /\ steps[i].of = "object" => steps[j].of # "object"
        /\ steps[i].of = "bucket" => steps[j].of = "bucket" /\ steps[i].id < steps[j].id

OrderlyPlan(a, steps) ==
    /\ Len(steps) \in Nat \ {0}
    /\ KnownSteps(steps)
    /\ KnownClients(a, steps)
    /\ OrderedLocks(steps)

\* The plans of those that are not processors.
LEMMA OthersOrderly ==
    \A a \in Others : OrderlyPlan(a, Steps(a))
<1>1. Processors \cap Others = {}
      BY PoolAssumption
<1>2. OrderlyPlan("recovery", Steps("recovery"))
      <2>1. Steps("recovery") = <<Client("main"), Lock("object", target["recovery"].object)>>
            BY <1>1 DEF Steps, ObjectLock, Others
      <2>2. PICK steps : steps = Steps("recovery")
            OBVIOUS
      <2>3. /\ Len(steps) = 2 /\ steps[1] = Client("main") /\ steps[2].is = "lock"
                 /\ steps[2].of = "object"
            /\ \A i \in 1 .. 2 : i = 1 \/ i = 2
            BY <2>1, <2>2 DEF Lock
      <2>4. steps[1].is = "client" /\ steps[1].of = "main"
            BY <2>3 DEF Client
      <2>5. \A pool : Client(pool).is = "client" /\ Client(pool).of = pool
            BY DEF Client
      <2>6. KnownSteps(steps)
            BY <2>3, <2>4 DEF KnownSteps, Kinds
      <2>7. KnownClients("recovery", steps)
            BY <2>3, <2>4, <2>5 DEF KnownClients
      <2>8. OrderedLocks(steps)
            BY <2>3, <2>4 DEF OrderedLocks
      <2> QED BY <2>2, <2>3, <2>6, <2>7, <2>8 DEF OrderlyPlan
<1>3. OrderlyPlan("retention", Steps("retention"))
      <2>1. PICK steps : steps = Steps("retention")
            OBVIOUS
      <2>2. steps = <<Client("fence"), Exclusive>>
            BY <1>1, <2>1 DEF Steps, Fence, Others
      <2>3. /\ Len(steps) = 2 /\ steps[1] = Client("fence") /\ steps[2] = Exclusive
            /\ \A i \in 1 .. 2 : i = 1 \/ i = 2
            BY <2>2
      <2>4. /\ steps[1].is = "client" /\ steps[1].of = "fence"
            /\ steps[2].is = "exclusive" /\ steps[2].of = "fence"
            BY <2>3 DEF Client, Exclusive
      <2>5. \A pool : Client(pool).is = "client" /\ Client(pool).of = pool
            BY DEF Client
      <2>6. \A i \in 1 .. 2, pool \in {"main", "merge", "fence"} :
              steps[i] = Client(pool) => pool = "fence" /\ <<"retention", i>> = <<"retention", 1>>
            <3> TAKE i \in 1 .. 2, pool \in {"main", "merge", "fence"}
            <3>1. CASE i = 1
                  BY <3>1, <2>4, <2>5
            <3>2. CASE i = 2
                  BY <3>2, <2>4, <2>5
            <3> QED BY <3>1, <3>2, <2>3
      <2>7. \A i \in 1 .. 2 : steps[i].is # "lock"
            BY <2>3, <2>4
      <2>8. \A i \in 1 .. 2 :
              /\ steps[i].is \in Kinds
              /\ steps[i].is \in {"shared", "exclusive"} => i = 2
                   /\ steps[i] \in {Shared, Exclusive}
              /\ steps[i].is = "client" => steps[i] = Client("fence")
            BY <2>3, <2>4 DEF Kinds
      <2>9. Len(steps) = 2
            BY <2>3
      <2>10. KnownSteps(steps)
             BY <2>7, <2>8, <2>9 DEF KnownSteps
      <2>11. KnownClients("retention", steps)
             BY <2>6, <2>9 DEF KnownClients
      <2>12. OrderedLocks(steps)
             BY <2>7, <2>9 DEF OrderedLocks
      <2> QED BY <2>1, <2>9, <2>10, <2>11, <2>12 DEF OrderlyPlan
<1>4. OrderlyPlan("import", Steps("import"))
      <2>1. PICK steps : steps = Steps("import")
            OBVIOUS
      <2>2. steps = <<Client("fence"), Shared>>
            BY <1>1, <2>1 DEF Steps, Fence, Others
      <2>3. /\ Len(steps) = 2 /\ steps[1] = Client("fence") /\ steps[2] = Shared
            /\ \A i \in 1 .. 2 : i = 1 \/ i = 2
            BY <2>2
      <2>4. /\ steps[1].is = "client" /\ steps[1].of = "fence"
            /\ steps[2].is = "shared" /\ steps[2].of = "fence"
            BY <2>3 DEF Client, Shared
      <2>5. \A pool : Client(pool).is = "client" /\ Client(pool).of = pool
            BY DEF Client
      <2>6. \A i \in 1 .. 2, pool \in {"main", "merge", "fence"} :
              steps[i] = Client(pool) => pool = "fence" /\ <<"import", i>> = <<"import", 1>>
            <3> TAKE i \in 1 .. 2, pool \in {"main", "merge", "fence"}
            <3>1. CASE i = 1
                  BY <3>1, <2>4, <2>5
            <3>2. CASE i = 2
                  BY <3>2, <2>4, <2>5
            <3> QED BY <3>1, <3>2, <2>3
      <2>7. \A i \in 1 .. 2 : steps[i].is # "lock"
            BY <2>3, <2>4
      <2>8. \A i \in 1 .. 2 :
              /\ steps[i].is \in Kinds
              /\ steps[i].is \in {"shared", "exclusive"} => i = 2
                   /\ steps[i] \in {Shared, Exclusive}
              /\ steps[i].is = "client" => steps[i] = Client("fence")
            BY <2>3, <2>4 DEF Kinds
      <2>9. Len(steps) = 2
            BY <2>3
      <2>10. KnownSteps(steps)
             BY <2>7, <2>8, <2>9 DEF KnownSteps
      <2>11. KnownClients("import", steps)
             BY <2>6, <2>9 DEF KnownClients
      <2>12. OrderedLocks(steps)
             BY <2>7, <2>9 DEF OrderedLocks
      <2> QED BY <2>1, <2>9, <2>10, <2>11, <2>12 DEF OrderlyPlan
<1>5. OrderlyPlan("sweep", Steps("sweep"))
      <2>1. Steps("sweep") = <<Client("main"), Try("execution", 0)>>
                               \o <<Client("main"), Try("object", target["sweep"].object)>>
            BY <1>1 DEF Steps, ExecutionLock, TryObjectLock, Others
      <2>2. Steps("sweep") = <<Client("main"), Try("execution", 0), Client("main"),
                               Try("object", target["sweep"].object)>>
            BY <2>1
      <2>3. PICK steps : steps = Steps("sweep")
            OBVIOUS
      <2>4. /\ Len(steps) = 4 /\ steps[1] = Client("main") /\ steps[2] = Try("execution", 0)
            /\ steps[3] = Client("main") /\ steps[4] = Try("object", target["sweep"].object)
            /\ \A i \in 1 .. 4 : i = 1 \/ i = 2 \/ i = 3 \/ i = 4
            BY <2>2, <2>3
      <2>5. /\ steps[1].is = "client" /\ steps[1].of = "main" /\ steps[2].is = "try"
            /\ steps[3].is = "client" /\ steps[3].of = "main" /\ steps[4].is = "try"
            BY <2>4 DEF Client, Try
      <2>6. \A pool : Client(pool).is = "client" /\ Client(pool).of = pool
            BY DEF Client
      <2>7. KnownSteps(steps)
            BY <2>4, <2>5 DEF KnownSteps, Kinds
      <2>8. KnownClients("sweep", steps)
            BY <2>4, <2>5, <2>6 DEF KnownClients
      <2>9. OrderedLocks(steps)
            BY <2>4, <2>5 DEF OrderedLocks
      <2> QED BY <2>3, <2>4, <2>7, <2>8, <2>9 DEF OrderlyPlan
<1> QED BY <1>2, <1>3, <1>4, <1>5 DEF Others

\* The plan of a processor.
LEMMA ProcessorOrderly ==
    ASSUME NEW p \in Processors, target[p].records \in Seq(Nat)
    PROVE  OrderlyPlan(p, Steps(p))
<1>1. PICK object : object = target[p].object
      OBVIOUS
<1>2. Range(target[p].records) \in SUBSET Nat /\ IsFiniteSet(Range(target[p].records))
      <2>1. PICK records \in Seq(Nat) : records = target[p].records
            OBVIOUS
      <2>2. PICK n \in Nat : n = Len(records) /\ records \in [1 .. n -> Nat]
            BY LenProperties
      <2>3. IsFiniteSet(1 .. n)
            BY FS_Interval
      <2>4. records \in Surjection(1 .. n, Range(records))
            BY <2>2 DEF Surjection, Range
      <2>5. IsFiniteSet(Range(records)) /\ Range(records) \subseteq Nat
            BY <2>2, <2>3, <2>4, FS_Surjection DEF Range
      <2> QED BY <2>1, <2>5
<1>3. PICK buckets \in Seq(Nat) : buckets = Ascending(Range(target[p].records))
             /\ IsAscending(buckets)
      BY <1>2, AscendingIs
<1>4. PICK steps : steps = Steps(p)
      OBVIOUS
<1>5. ProcessorPlan(steps, object, buckets)
      <2>1. Steps(p) = <<Client("main"), Lock("object", object)>> \o LocksOf(buckets)
                         \o <<Client("fence"), Shared>>
            <3>1. p \notin Others
                  BY PoolAssumption
            <3> QED BY <1>1, <1>3, <3>1 DEF Steps, ObjectLock, MergeLocks, Fence, Others
      <2> QED BY <1>4, <2>1, PlanIs
<1>6. PICK k \in Nat : k = Len(buckets) /\ buckets \in [1 .. k -> Nat]
      BY LenProperties
<1>7. CASE k = 0
      <2>1. /\ Len(steps) = 4 /\ steps[1] = Client("main") /\ steps[2] = Lock("object", object)
            /\ steps[3] = Client("fence") /\ steps[4] = Shared
            BY <1>5, <1>6, <1>7 DEF ProcessorPlan
      <2>2. \A i \in 1 .. 4 : i = 1 \/ i = 2 \/ i = 3 \/ i = 4
            OBVIOUS
      <2>3. /\ steps[1].is = "client" /\ steps[1].of = "main"
            /\ steps[2].is = "lock" /\ steps[2].of = "object"
            /\ steps[3].is = "client" /\ steps[3].of = "fence"
            /\ steps[4].is = "shared" /\ steps[4].of = "fence"
            BY <2>1 DEF Client, Lock, Shared
      <2>4. \A pool : Client(pool).is = "client" /\ Client(pool).of = pool
            BY DEF Client
      <2>5. KnownSteps(steps)
            BY <2>1, <2>2, <2>3 DEF KnownSteps, Kinds
      <2>6. KnownClients(p, steps)
            BY <2>1, <2>2, <2>3, <2>4 DEF KnownClients, PlaceOf
      <2>7. OrderedLocks(steps)
            BY <2>1, <2>2, <2>3 DEF OrderedLocks
      <2> QED BY <1>4, <2>1, <2>5, <2>6, <2>7 DEF OrderlyPlan
<1>8. CASE k # 0
      <2>1. /\ Len(steps) = k + 5 /\ steps[1] = Client("main")
                 /\ steps[2] = Lock("object", object)
            /\ steps[3] = Client("merge") /\ steps[k + 4] = Client("fence")
                 /\ steps[k + 5] = Shared
            <3>1. k > 0 /\ k + 3 + 2 = k + 5 /\ k + 3 + 1 = k + 4
                  BY <1>8
            <3> QED BY <1>5, <1>6, <1>8, <3>1 DEF ProcessorPlan
      <2>2. \A i \in 4 .. k + 3 : steps[i] = Lock("bucket", buckets[i - 3]) /\ i - 3 \in 1 .. k
            <3> TAKE i \in 4 .. k + 3
            <3>1. i - 3 \in 1 .. k /\ 3 + (i - 3) = i
                  OBVIOUS
            <3>2. \A m \in 1 .. k : steps[3 + m] = Lock("bucket", buckets[m])
                  BY <1>5, <1>6 DEF ProcessorPlan
            <3> QED BY <3>1, <3>2
      <2>3. \A i \in 1 .. k + 5 : i = 1 \/ i = 2 \/ i = 3 \/ i \in 4 .. k + 3 \/ i = k + 4 \/ i = k + 5
            OBVIOUS
      <2>4. \A i \in 4 .. k + 3 : /\ steps[i].is = "lock" /\ steps[i].of = "bucket"
                                  /\ steps[i].id = buckets[i - 3] /\ steps[i].id \in Nat
            <3> TAKE i \in 4 .. k + 3
            <3>1. buckets[i - 3] \in Nat
                  BY <1>6, <2>2
            <3>2. steps[i] = Lock("bucket", buckets[i - 3])
                  BY <2>2
            <3> QED BY <3>1, <3>2 DEF Lock
      <2>5. \A i, j \in 4 .. k + 3 : i < j => steps[i].id < steps[j].id
            <3> TAKE i, j \in 4 .. k + 3
            <3>1. i < j => i - 3 < j - 3
                  OBVIOUS
            <3>2. i - 3 \in DOMAIN buckets /\ j - 3 \in DOMAIN buckets
                  BY <1>6, <2>2
            <3> QED BY <1>3, <2>4, <3>1, <3>2 DEF IsAscending
      <2>6. /\ steps[1].is = "client" /\ steps[1].of = "main"
            /\ steps[2].is = "lock" /\ steps[2].of = "object"
            /\ steps[3].is = "client" /\ steps[3].of = "merge"
            /\ steps[k + 4].is = "client" /\ steps[k + 4].of = "fence"
            /\ steps[k + 5].is = "shared" /\ steps[k + 5].of = "fence"
            BY <2>1 DEF Client, Lock, Shared
      <2>7. \A i \in 1 .. k + 5 :
              /\ steps[i].is \in Kinds
              /\ steps[i].is \in {"shared", "exclusive"} => i = k + 5
                   /\ steps[i] \in {Shared, Exclusive}
              /\ steps[i].is = "lock" => \/ steps[i].of = "object"
                                         \/ steps[i].of = "bucket" /\ steps[i].id \in Nat
              /\ steps[i].is = "client"
                   => \E pool \in {"main", "merge", "fence"} : steps[i] = Client(pool)
            BY <2>1, <2>3, <2>4, <2>6 DEF Kinds
      <2>8. \A i \in 1 .. k + 5, pool \in {"main", "merge", "fence"} : steps[i] = Client(pool) =>
              i = PlaceOf(pool, k + 5)
            <3> TAKE i \in 1 .. k + 5, pool \in {"main", "merge", "fence"}
            <3>1. Client(pool).is = "client" /\ Client(pool).of = pool
                  BY DEF Client
            <3>2. i \in 4 .. k + 3 => steps[i] # Client(pool)
                  BY <2>4, <3>1
            <3>3. i = k + 4 => i = (k + 5) - 1
                  OBVIOUS
            <3> QED BY <2>3, <2>6, <3>1, <3>2, <3>3 DEF PlaceOf
      <2>9. \A i, j \in 1 .. k + 5 : i < j /\ steps[j].is = "lock" =>
              /\ steps[i].of = "object" => steps[j].of # "object"
              /\ steps[i].of = "bucket" => steps[j].of = "bucket" /\ steps[i].id < steps[j].id
            <3> SUFFICES ASSUME NEW i \in 1 .. k + 5, NEW j \in 1 .. k + 5, i < j,
                                  steps[j].is = "lock"
                         PROVE  /\ steps[i].of = "object" => steps[j].of # "object"
                                /\ steps[i].of = "bucket" => steps[j].of = "bucket"
                                     /\ steps[i].id < steps[j].id
                OBVIOUS
            <3>1. j = 2 \/ j \in 4 .. k + 3
                  BY <2>3, <2>6
            <3>2. CASE j = 2
                  <4>1. i = 1
                        BY <3>2
                  <4> QED BY <4>1, <2>6
            <3>3. CASE j \in 4 .. k + 3
                  <4>1. i = 1 \/ i = 2 \/ i = 3 \/ i \in 4 .. k + 3
                        BY <3>3
                  <4> QED BY <4>1, <3>3, <2>4, <2>5, <2>6
            <3> QED BY <3>1, <3>2, <3>3
      <2>10. Len(steps) = k + 5 /\ k + 5 \in Nat \ {0}
             BY <2>1
      <2>11. KnownSteps(steps)
             BY <2>7, <2>10 DEF KnownSteps
      <2>12. KnownClients(p, steps)
             BY <2>8, <2>10 DEF KnownClients
      <2>13. OrderedLocks(steps)
             BY <2>9, <2>10 DEF OrderedLocks
      <2> QED BY <1>4, <2>10, <2>11, <2>12, <2>13 DEF OrderlyPlan
<1> QED BY <1>7, <1>8

-----------------------------------------------------------------------------
\* The state: a wait is for what is next of a plan, by one with no query.

Queries == {"none", "client", "running", "lock", "locked"}
PoolNames == {"main", "merge", "fence"}

PoolTypes ==
    /\ cast \in Casts
    /\ target \in Targets
    /\ waiting \in [Actors -> BOOLEAN]
    /\ query \in [Actors -> Queries]
    /\ depth \in [Actors -> Nat]

OnPlan == \A a \in Actors : depth[a] <= Len(Steps(a))
WaitsWithin == \A a \in Actors : waiting[a] => depth[a] < Len(Steps(a)) /\ query[a] = "none"
WithinPools == \A pool \in PoolNames : Cardinality(InUse(pool)) <= PoolSize

PlanInv == PoolTypes /\ OnPlan /\ WaitsWithin
PoolInv == PlanInv /\ WithinPools

\* Every plan of a reachable state is orderly.
LEMMA AllOrderly ==
    ASSUME PoolTypes
    PROVE  \A a \in Actors : OrderlyPlan(a, Steps(a))
<1>1. ASSUME NEW p \in Processors PROVE OrderlyPlan(p, Steps(p))
      BY <1>1, PoolAssumption, ProcessorOrderly DEF PoolTypes
<1> QED BY <1>1, OthersOrderly DEF Actors

\* Plans depend on the targets alone.
LEMMA StepsStay == target' = target => \A a : Steps(a)' = Steps(a)
BY DEF Steps, ObjectLock, TryObjectLock, ExecutionLock, MergeLocks, Fence

\* What an actor goes back to is less than what it holds.
LEMMA AroundLess ==
    ASSUME PoolTypes, NEW a \in Actors
    PROVE  Around(a) \in Nat /\ (depth[a] > 0 => Around(a) < depth[a])
           /\ (depth[a] = 0 => Around(a) = 0)
<1>1. PICK n \in Nat : n = depth[a]
      BY DEF PoolTypes
<1>2. PICK outer : outer = {d \in 1 .. n - 1 : Inside(a, d)}
      OBVIOUS
<1>3. Around(a) = IF outer = {} THEN 0 ELSE Max(outer)
      BY <1>1, <1>2 DEF Around
<1>4. CASE outer = {}
      BY <1>1, <1>3, <1>4
<1>5. CASE outer # {}
      <2>1. outer \in SUBSET Nat /\ IsFiniteSet(outer)
            <3>1. IsFiniteSet(1 .. n - 1)
                  BY FS_Interval
            <3> QED BY <1>2, <3>1, FS_Subset
      <2>2. Max(outer) \in outer
            BY <1>5, <2>1, GreatestOf
      <2>3. Max(outer) \in 1 .. n - 1
            BY <1>2, <2>2
      <2> QED BY <1>1, <1>3, <1>5, <2>3
<1> QED BY <1>4, <1>5

\* Everybody is before the first step of a plan.
LEMMA InitPlan == PoolsInit => PlanInv
<1> SUFFICES ASSUME PoolsInit PROVE PlanInv
    OBVIOUS
<1>1. PoolTypes
      BY DEF PoolsInit, PoolTypes, Queries
<1>2. \A a \in Actors : Len(Steps(a)) \in Nat
      BY <1>1, AllOrderly DEF OrderlyPlan
<1> QED BY <1>1, <1>2 DEF PoolsInit, PlanInv, OnPlan, WaitsWithin

\* Every step keeps to the plans.
LEMMA PlanStep == PlanInv /\ [PoolsNext]_poolVars => PlanInv'
<1> SUFFICES ASSUME PlanInv, [PoolsNext]_poolVars PROVE PlanInv'
    OBVIOUS
<1> USE DEF PlanInv, Queries
<1>1. \A a \in Actors : Len(Steps(a)) \in Nat
      BY AllOrderly DEF OrderlyPlan
<1>2. target' = target => \A a : Steps(a)' = Steps(a)
      BY StepsStay
<1>3. CASE UNCHANGED poolVars
      BY <1>2, <1>3 DEF poolVars, PoolTypes, OnPlan, WaitsWithin
<1>4. ASSUME NEW a \in Actors, Enter(a) PROVE PlanInv'
      <2>1. /\ cast' = cast /\ target' = target /\ depth' = depth /\ query' = query
            /\ waiting' = [waiting EXCEPT ![a] = TRUE] /\ query[a] = "none"
                 /\ depth[a] < Len(Steps(a))
            BY <1>4 DEF Enter, InCallback
      <2>2. PoolTypes'
            BY <2>1 DEF PoolTypes
      <2>3. OnPlan'
            BY <1>2, <2>1 DEF OnPlan
      <2>4. WaitsWithin'
            BY <1>2, <2>1 DEF WaitsWithin, PoolTypes
      <2> QED BY <2>2, <2>3, <2>4
<1>5. ASSUME NEW a \in Actors, Grant(a) PROVE PlanInv'
      <2>1. /\ cast' = cast /\ target' = target /\ query' = query /\ waiting[a]
            /\ depth' = [depth EXCEPT ![a] = @ + 1]
            /\ waiting' = [waiting EXCEPT ![a] = ~Inside(a, depth[a] + 1)]
            BY <1>5 DEF Grant
      <2>2. depth[a] < Len(Steps(a)) /\ query[a] = "none" /\ depth[a] \in Nat
            BY <2>1 DEF WaitsWithin, PoolTypes
      <2>3. PICK now \in BOOLEAN : (now <=> ~Inside(a, depth[a] + 1))
            OBVIOUS
      <2>4. waiting' = [waiting EXCEPT ![a] = now]
            BY <2>1, <2>3
      <2>5. PoolTypes'
            BY <2>1, <2>4 DEF PoolTypes
      <2>6. OnPlan'
            <3>1. depth[a] + 1 <= Len(Steps(a))
                  BY <1>1, <2>2
            <3> QED BY <1>2, <2>1, <3>1 DEF OnPlan, PoolTypes
      <2>7. WaitsWithin'
            <3>1. now => depth[a] + 1 < Len(Steps(a))
                  BY <1>1, <2>2, <2>3 DEF Inside
            <3> QED BY <1>2, <2>1, <2>2, <2>4, <3>1 DEF WaitsWithin, PoolTypes
      <2> QED BY <2>5, <2>6, <2>7
<1>6. ASSUME NEW a \in Actors, TryFails(a) \/ Leave(a) PROVE PlanInv'
      <2>1. /\ cast' = cast /\ target' = target /\ query' = query
            /\ depth' = [depth EXCEPT ![a] = Around(a)]
            /\ waiting' \in {waiting, [waiting EXCEPT ![a] = FALSE]}
            BY <1>6 DEF TryFails, Leave
      <2>2. ~waiting'[a]
            BY <1>6 DEF TryFails, Leave, InCallback, PoolTypes
      <2>3. Around(a) \in Nat /\ Around(a) <= depth[a] /\ depth[a] \in Nat
            BY AroundLess DEF PoolTypes
      <2>4. PoolTypes'
            BY <2>1, <2>3 DEF PoolTypes
      <2>5. OnPlan'
            <3>1. Around(a) <= Len(Steps(a))
                  BY <1>1, <2>3 DEF OnPlan
            <3> QED BY <1>2, <2>1, <3>1 DEF OnPlan, PoolTypes
      <2>6. WaitsWithin'
            <3>1. \A b \in Actors : waiting'[b] => b # a /\ waiting[b]
                  BY <2>1, <2>2 DEF PoolTypes
            <3> QED BY <1>2, <2>1, <3>1 DEF WaitsWithin, PoolTypes
      <2> QED BY <2>4, <2>5, <2>6
<1>7. ASSUME NEW a \in Actors,
               Ask(a) \/ GetClient(a) \/ WantFeedLock(a) \/ GetFeedLock(a) \/ EndQuery(a)
      PROVE  PlanInv'
      <2>1. /\ cast' = cast /\ target' = target /\ depth' = depth /\ waiting' = waiting
            /\ \E to \in Queries : query' = [query EXCEPT ![a] = to]
            BY <1>7 DEF Ask, GetClient, WantFeedLock, GetFeedLock, EndQuery, Query
      <2>2. ~waiting[a]
            <3>1. query[a] # "none" \/ ~waiting[a]
                  BY <1>7 DEF Ask, GetClient, WantFeedLock, GetFeedLock,
                    EndQuery, Query, InCallback
            <3> QED BY <3>1 DEF WaitsWithin
      <2>3. PICK to \in Queries : query' = [query EXCEPT ![a] = to]
            BY <2>1
      <2>4. PoolTypes'
            BY <2>1, <2>3 DEF PoolTypes
      <2>5. OnPlan'
            BY <1>2, <2>1 DEF OnPlan
      <2>6. WaitsWithin'
            BY <1>2, <2>1, <2>2, <2>3 DEF WaitsWithin, PoolTypes
      <2> QED BY <2>4, <2>5, <2>6
<1> QED BY <1>3, <1>4, <1>5, <1>6, <1>7 DEF PoolsNext

-----------------------------------------------------------------------------
\* The pools.  Clients that locks hold are too few to fill one.

\* One more member counts at most one more.
LEMMA OneMoreAtMost ==
    ASSUME NEW T, IsFiniteSet(T), NEW x
    PROVE  /\ IsFiniteSet(T \cup {x}) /\ Cardinality(T \cup {x}) \in Nat
           /\ Cardinality(T \cup {x}) <= Cardinality(T) + 1
<1>1. IsFiniteSet(T \cup {x}) /\ Cardinality(T) \in Nat
      BY FS_AddElement, FS_CardinalityType
<1>2. Cardinality(T \cup {x}) \in {Cardinality(T), Cardinality(T) + 1}
      BY FS_AddElement
<1> QED BY <1>1, <1>2

\* An image of a finite set and three more.
LEMMA ImageAndThree ==
    ASSUME NEW S, IsFiniteSet(S), NEW V, NEW f \in [S -> V], NEW x, NEW y, NEW z
    PROVE  /\ IsFiniteSet(Range(f) \cup {x, y, z})
           /\ Cardinality(Range(f) \cup {x, y, z}) <= Cardinality(S) + 3
<1>1. PICK T : T = Range(f)
      OBVIOUS
<1>2. f \in Surjection(S, T)
      BY <1>1 DEF Surjection, Range
<1>3. IsFiniteSet(T) /\ Cardinality(T) <= Cardinality(S)
      BY <1>2, FS_Surjection
<1>4. Cardinality(T) \in Nat /\ Cardinality(S) \in Nat
      BY <1>3, FS_CardinalityType
<1>5. PICK T1 : T1 = T \cup {x}
      OBVIOUS
<1>6. IsFiniteSet(T1) /\ Cardinality(T1) <= Cardinality(T) + 1 /\ Cardinality(T1) \in Nat
      BY <1>3, <1>4, <1>5, OneMoreAtMost
<1>7. PICK T2 : T2 = T1 \cup {y}
      OBVIOUS
<1>8. IsFiniteSet(T2) /\ Cardinality(T2) <= Cardinality(T1) + 1 /\ Cardinality(T2) \in Nat
      BY <1>6, <1>7, OneMoreAtMost
<1>9. PICK T3 : T3 = T2 \cup {z}
      OBVIOUS
<1>10. IsFiniteSet(T3) /\ Cardinality(T3) <= Cardinality(T2) + 1 /\ Cardinality(T3) \in Nat
      BY <1>8, <1>9, OneMoreAtMost
<1>11. T3 = Range(f) \cup {x, y, z}
      BY <1>1, <1>5, <1>7, <1>9
<1> QED BY <1>3, <1>4, <1>6, <1>8, <1>10, <1>11

\* The clients that plans hold are fewer than a pool has.
LEMMA LocksHoldFew ==
    ASSUME PlanInv, NEW pool \in PoolNames
    PROVE  \E few : /\ IsFiniteSet(few) /\ Cardinality(few) < PoolSize
                    /\ \A a \in Actors : \A i \in 1 .. depth[a] :
                         Steps(a)[i] = Client(pool) => <<a, i>> \in few
<1>1. PICK at : at = [p \in Processors |-> <<p, PlaceOf(pool, Len(Steps(p)))>>]
      OBVIOUS
<1>t. at \in [Processors -> Range(at)]
      BY <1>1 DEF Range
<1>2. IsFiniteSet(Processors) /\ Cardinality(Processors) \in Nat
      /\ PoolSize \in Nat /\ PoolSize > Cardinality(Processors) + 3
      BY PoolAssumption, FS_CardinalityType
<1>3. ASSUME NEW a \in Actors, NEW i \in 1 .. depth[a], Steps(a)[i] = Client(pool)
      PROVE  \/ <<a, i>> \in Range(at)
             \/ pool = "main" /\ <<a, i>> \in {<<"recovery", 1>>, <<"sweep", 1>>, <<"sweep", 3>>}
             \/ pool = "fence" /\ <<a, i>> \in {<<"retention", 1>>, <<"import", 1>>}
      <2>1. KnownClients(a, Steps(a)) /\ Len(Steps(a)) \in Nat
            BY AllOrderly DEF PlanInv, OrderlyPlan
      <2>2. i \in 1 .. Len(Steps(a))
            BY <2>1 DEF PlanInv, OnPlan, PoolTypes
      <2>3. a \in Processors /\ i = PlaceOf(pool, Len(Steps(a))) => <<a, i>> \in Range(at)
            BY <1>1 DEF Range
      <2> QED BY <1>3, <2>1, <2>2, <2>3 DEF KnownClients, PoolNames
<1>4. CASE pool = "fence"
      <2>1. PICK few : few = Range(at) \cup {<<"retention", 1>>, <<"import", 1>>, <<"import", 1>>}
            OBVIOUS
      <2>2. IsFiniteSet(few) /\ Cardinality(few) <= Cardinality(Processors) + 3
              /\ Cardinality(few) \in Nat
            BY <1>2, <1>t, <2>1, ImageAndThree, FS_CardinalityType
      <2>3. \A a \in Actors : \A i \in 1 .. depth[a] : Steps(a)[i] = Client(pool)
              => <<a, i>> \in few
            BY <1>3, <1>4, <2>1
      <2> QED BY <1>2, <2>2, <2>3
<1>5. CASE pool # "fence"
      <2>1. PICK few : few = Range(at) \cup {<<"recovery", 1>>, <<"sweep", 1>>, <<"sweep", 3>>}
            OBVIOUS
      <2>2. IsFiniteSet(few) /\ Cardinality(few) <= Cardinality(Processors) + 3
              /\ Cardinality(few) \in Nat
            BY <1>2, <1>t, <2>1, ImageAndThree, FS_CardinalityType
      <2>3. \A a \in Actors : \A i \in 1 .. depth[a] : Steps(a)[i] = Client(pool)
              => <<a, i>> \in few
            BY <1>3, <1>5, <2>1
      <2> QED BY <1>2, <2>2, <2>3
<1> QED BY <1>4, <1>5

\* What of a pool is in use.
Using(pool, a, i) ==
    \/ i \in 1 .. depth[a] /\ Steps(a)[i] = Client(pool)
    \/ i = 0 /\ pool = "main" /\ query[a] \in {"running", "lock", "locked"}

\* What is in use, as clients held and clients of queries.
LEMMA InUseIs ==
    ASSUME NEW pool
    PROVE  /\ \A slot \in InUse(pool) : \E a \in Actors : \E i : slot = <<a, i>>
                /\ Using(pool, a, i)
           /\ \A a \in Actors : \A i : Using(pool, a, i) => <<a, i>> \in InUse(pool)
<1>1. ASSUME NEW slot \in InUse(pool)
      PROVE  \E a \in Actors : \E i : slot = <<a, i>> /\ Using(pool, a, i)
      <2>1. CASE \E a \in Actors : \E i \in {j \in 1 .. depth[a] : Steps(a)[j] = Client(pool)} : slot = <<a, i>>
            BY <2>1 DEF Using
      <2>2. CASE \E a \in {b \in Actors : pool = "main" /\ query[b] \in {"running", "lock", "locked"}} :
                   slot = <<a, 0>>
            BY <2>2 DEF Using
      <2> DEFINE held == {{<<a, i>> : i \in {j \in 1 .. depth[a] : Steps(a)[j] = Client(pool)}} : a \in Actors}
                 asked == {<<a, 0>> : a \in {b \in Actors :
                              pool = "main" /\ query[b] \in {"running", "lock", "locked"}}}
      <2>3. slot \in UNION held \/ slot \in asked
            BY <1>1 DEF InUse
      <2>4. slot \in UNION held => \E a \in Actors :
              \E i \in {j \in 1 .. depth[a] : Steps(a)[j] = Client(pool)} : slot = <<a, i>>
            OBVIOUS
      <2> QED BY <2>1, <2>2, <2>3, <2>4
<1>2. ASSUME NEW a \in Actors, NEW i, Using(pool, a, i) PROVE <<a, i>> \in InUse(pool)
      <2>1. CASE i \in 1 .. depth[a] /\ Steps(a)[i] = Client(pool)
            <3>1. <<a, i>> \in {<<a, j>> : j \in {k \in 1 .. depth[a] : Steps(a)[k] = Client(pool)}}
                  BY <2>1
            <3> QED BY <3>1 DEF InUse
      <2>2. CASE i = 0 /\ pool = "main" /\ query[a] \in {"running", "lock", "locked"}
            <3>1. a \in {b \in Actors : pool = "main" /\ query[b] \in {"running", "lock", "locked"}}
                  BY <2>2
            <3>2. <<a, 0>> \in {<<c, 0>> : c \in {b \in Actors :
                        pool = "main" /\ query[b] \in {"running", "lock", "locked"}}}
                  BY <3>1
            <3> QED BY <2>2, <3>2 DEF InUse
      <2> QED BY <1>2, <2>1, <2>2 DEF Using
<1> QED BY <1>1, <1>2

\* The same of every pool, in a form that can be primed.
EveryUse ==
    \A pool : \A slot \in InUse(pool) : \E a \in Actors : \E i : slot = <<a, i>>
      /\ Using(pool, a, i)

\* The same of every pool.
LEMMA EveryUseIs == EveryUse
BY InUseIs DEF EveryUse

\* There are finitely many actors.
LEMMA FewActors == IsFiniteSet(Actors)
<1>1. Others = {"recovery", "sweep", "retention"} \cup {"import"}
      BY DEF Others
<1>2. {"recovery", "sweep", "retention"} = {"recovery", "sweep"} \cup {"retention"}
      OBVIOUS
<1>3. {"recovery", "sweep"} = {"recovery"} \cup {"sweep"}
      OBVIOUS
<1>4. IsFiniteSet({"recovery"})
      BY FS_Singleton
<1>5. IsFiniteSet({"recovery", "sweep"})
      BY <1>3, <1>4, FS_AddElement
<1>6. IsFiniteSet({"recovery", "sweep", "retention"})
      BY <1>2, <1>5, FS_AddElement
<1>7. IsFiniteSet(Others)
      BY <1>1, <1>6, FS_AddElement
<1> QED BY <1>7, PoolAssumption, FS_Union DEF Actors

\* What is in use is finite.
LEMMA InUseFinite ==
    ASSUME PlanInv, NEW pool \in PoolNames
    PROVE  IsFiniteSet(InUse(pool)) /\ Cardinality(InUse(pool)) \in Nat
<1>1. PICK few : /\ IsFiniteSet(few) /\ Cardinality(few) < PoolSize
                 /\ \A a \in Actors : \A i \in 1 .. depth[a] : Steps(a)[i] = Client(pool)
                      => <<a, i>> \in few
      BY LocksHoldFew
<1>2. PICK asked : asked = [a \in Actors |-> <<a, 0>>]
      OBVIOUS
<1>3. IsFiniteSet(Actors)
      BY FewActors
<1>4. asked \in Surjection(Actors, Range(asked))
      BY <1>2 DEF Surjection, Range
<1>5. IsFiniteSet(Range(asked))
      BY <1>3, <1>4, FS_Surjection
<1>6. IsFiniteSet(few \cup Range(asked))
      BY <1>1, <1>5, FS_Union
<1>7. InUse(pool) \subseteq few \cup Range(asked)
      <2> SUFFICES ASSUME NEW slot \in InUse(pool) PROVE slot \in few \cup Range(asked)
          OBVIOUS
      <2>1. PICK a \in Actors : \E i : slot = <<a, i>> /\ Using(pool, a, i)
            BY InUseIs
      <2>2. <<a, 0>> \in Range(asked)
            BY <1>2 DEF Range
      <2> QED BY <1>1, <2>1, <2>2 DEF Using
<1> QED BY <1>6, <1>7, FS_Subset, FS_CardinalityType

\* One more client is lent when the pool is not full, and one at a time.
LEMMA LentOneAtATime ==
    ASSUME PlanInv, PlanInv', NEW pool \in PoolNames, Cardinality(InUse(pool)) <= PoolSize,
           NEW slot, InUse(pool)' \subseteq InUse(pool) \cup {slot},
           PoolFull(pool) => InUse(pool)' \subseteq InUse(pool)
    PROVE  Cardinality(InUse(pool)') <= PoolSize
<1>1. PICK now : now = InUse(pool)
      OBVIOUS
<1>2. PICK next : next = InUse(pool)'
      OBVIOUS
<1>3. IsFiniteSet(now) /\ Cardinality(now) \in Nat /\ Cardinality(now) <= PoolSize
        /\ PoolSize \in Nat
      BY <1>1, InUseFinite, PoolAssumption
<1>4. CASE next \subseteq now
      <2>1. Cardinality(next) <= Cardinality(now) /\ Cardinality(next) \in Nat
            BY <1>3, <1>4, FS_Subset, FS_CardinalityType
      <2> QED BY <1>2, <1>3, <2>1
<1>5. CASE next \subseteq now \cup {slot} /\ Cardinality(now) < PoolSize
      <2>1. PICK more : more = now \cup {slot}
            OBVIOUS
      <2>2. IsFiniteSet(more) /\ Cardinality(more) <= Cardinality(now) + 1
              /\ Cardinality(more) \in Nat
            BY <1>3, <2>1, OneMoreAtMost
      <2>3. Cardinality(next) <= Cardinality(more) /\ Cardinality(next) \in Nat
            BY <1>5, <2>1, <2>2, FS_Subset, FS_CardinalityType
      <2> QED BY <1>2, <1>3, <1>5, <2>2, <2>3
<1>6. PoolFull(pool) \/ Cardinality(now) < PoolSize
      BY <1>1, <1>3 DEF PoolFull
<1> QED BY <1>1, <1>2, <1>4, <1>5, <1>6

\* Every step keeps within the pools.
LEMMA PoolStep == PoolInv /\ [PoolsNext]_poolVars => WithinPools'
<1> SUFFICES ASSUME PlanInv, WithinPools, [PoolsNext]_poolVars, NEW pool \in PoolNames
             PROVE  Cardinality(InUse(pool)') <= PoolSize
    BY DEF PoolInv, WithinPools
<1>1. PlanInv'
      BY PlanStep
<1>2. Cardinality(InUse(pool)) <= PoolSize
      BY DEF WithinPools
<1>3. SUFFICES \E slot : /\ InUse(pool)' \subseteq InUse(pool) \cup {slot}
                         /\ PoolFull(pool) => InUse(pool)' \subseteq InUse(pool)
      <2>1. PICK slot : /\ InUse(pool)' \subseteq InUse(pool) \cup {slot}
                        /\ PoolFull(pool) => InUse(pool)' \subseteq InUse(pool)
            BY <1>3
      <2> QED BY <1>1, <1>2, <2>1, LentOneAtATime
<1>e. EveryUse'
      BY EveryUseIs, PTL
<1>4. ASSUME \A b \in Actors : \A i : Using(pool, b, i)' => Using(pool, b, i)
      PROVE  InUse(pool)' \subseteq InUse(pool)
      <2>1. \A x \in InUse(pool)' : \E b \in Actors : \E i : x = <<b, i>> /\ Using(pool, b, i)'
            BY <1>e DEF EveryUse
      <2> QED BY <1>4, <2>1, InUseIs
<1>5. target' = target => \A a : Steps(a)' = Steps(a)
      BY StepsStay
<1>6. CASE UNCHANGED poolVars
      BY <1>6, <1>5, <1>4 DEF poolVars, Using
<1>7. ASSUME NEW a \in Actors, Enter(a) PROVE InUse(pool)' \subseteq InUse(pool)
      BY <1>7, <1>4, <1>5 DEF Enter, Using
<1>8. ASSUME NEW a \in Actors, TryFails(a) \/ Leave(a) PROVE InUse(pool)' \subseteq InUse(pool)
      <2>1. depth' = [depth EXCEPT ![a] = Around(a)] /\ query' = query /\ target' = target
            BY <1>8 DEF TryFails, Leave
      <2>2. Around(a) \in Nat /\ Around(a) <= depth[a] /\ depth \in [Actors -> Nat]
            BY AroundLess DEF PlanInv, PoolTypes
      <2>3. \A b \in Actors : \A i \in 1 .. depth'[b] : i \in 1 .. depth[b]
            BY <2>1, <2>2
      <2> QED BY <1>4, <1>5, <2>1, <2>3 DEF Using
<1>9. ASSUME NEW a \in Actors, Ask(a) \/ WantFeedLock(a) \/ GetFeedLock(a) \/ EndQuery(a)
      PROVE InUse(pool)' \subseteq InUse(pool)
      <2>1. /\ depth' = depth /\ target' = target
            /\ \E to \in Queries : /\ query' = [query EXCEPT ![a] = to]
                                   /\ to \in {"running", "lock", "locked"} =>
                                        query[a] \in {"running", "lock", "locked"}
            BY <1>9 DEF Ask, WantFeedLock, GetFeedLock, EndQuery, Query, Queries
      <2>2. query \in [Actors -> Queries]
            BY DEF PlanInv, PoolTypes
      <2>3. \A b \in Actors : query'[b] \in {"running", "lock", "locked"} =>
                                query[b] \in {"running", "lock", "locked"}
            BY <2>1, <2>2
      <2> QED BY <1>4, <1>5, <2>1, <2>3 DEF Using
<1>10. ASSUME NEW a \in Actors, NEW at, \A b \in Actors : \A i : Using(pool, b, i)' =>
                Using(pool, b, i) \/ (b = a /\ i = at)
       PROVE  InUse(pool)' \subseteq InUse(pool) \cup {<<a, at>>}
      <2>1. \A x \in InUse(pool)' : \E b \in Actors : \E i : x = <<b, i>> /\ Using(pool, b, i)'
            BY <1>e DEF EveryUse
      <2> QED BY <1>10, <2>1, InUseIs
<1>11. ASSUME NEW a \in Actors, GetClient(a)
       PROVE  \E slot : /\ InUse(pool)' \subseteq InUse(pool) \cup {slot}
                        /\ PoolFull(pool) => InUse(pool)' \subseteq InUse(pool)
      <2>1. /\ depth' = depth /\ target' = target /\ query' = [query EXCEPT ![a] = "running"]
            /\ ~PoolFull("main") /\ query \in [Actors -> Queries]
            BY <1>11 DEF GetClient, Query, PlanInv, PoolTypes
      <2>2. CASE pool = "main"
            <3>1. \A b \in Actors : \A i : Using(pool, b, i)'
                    => Using(pool, b, i) \/ (b = a /\ i = 0)
                  BY <1>5, <2>1 DEF Using
            <3> QED BY <1>10, <2>1, <2>2, <3>1
      <2>3. CASE pool # "main"
            <3>1. \A b \in Actors : \A i : Using(pool, b, i)' => Using(pool, b, i)
                  BY <1>5, <2>1, <2>3 DEF Using
            <3> QED BY <1>4, <3>1
      <2> QED BY <2>2, <2>3
<1>12. ASSUME NEW a \in Actors, Grant(a)
       PROVE  \E slot : /\ InUse(pool)' \subseteq InUse(pool) \cup {slot}
                        /\ PoolFull(pool) => InUse(pool)' \subseteq InUse(pool)
      <2>1. /\ target' = target /\ query' = query /\ Granted(a, NextStep(a))
            /\ depth' = [depth EXCEPT ![a] = @ + 1] /\ depth \in [Actors -> Nat]
            BY <1>12 DEF Grant, PlanInv, PoolTypes
      <2>2. \A b \in Actors : \A i \in 1 .. depth'[b] :
              i \in 1 .. depth[b] \/ (b = a /\ i = depth[a] + 1)
            BY <2>1
      <2>3. CASE NextStep(a) = Client(pool)
            <3>1. ~PoolFull(pool)
                  BY <2>1, <2>3 DEF Granted, Client
            <3>2. \A b \in Actors : \A i : Using(pool, b, i)' =>
                    Using(pool, b, i) \/ (b = a /\ i = depth[a] + 1)
                  BY <1>5, <2>1, <2>2 DEF Using
            <3>3. PICK at : at = depth[a] + 1
                  OBVIOUS
            <3> QED BY <1>10, <3>1, <3>2, <3>3
      <2>4. CASE NextStep(a) # Client(pool)
            <3>1. \A b \in Actors : \A i : Using(pool, b, i)' => Using(pool, b, i)
                  BY <1>5, <2>1, <2>2, <2>4 DEF Using, NextStep
            <3> QED BY <1>4, <3>1
      <2> QED BY <2>3, <2>4
<1> QED BY <1>6, <1>7, <1>8, <1>9, <1>11, <1>12 DEF PoolsNext

\* Nothing is in use at first.
LEMMA InitPools == PoolsInit => WithinPools
<1> SUFFICES ASSUME PoolsInit, NEW pool \in PoolNames PROVE Cardinality(InUse(pool)) <= PoolSize
    BY DEF WithinPools
<1>1. \A a \in Actors : \A i : ~Using(pool, a, i)
      BY DEF PoolsInit, Using
<1>2. InUse(pool) = {}
      BY <1>1, InUseIs
<1> QED BY <1>2, FS_EmptySet, PoolAssumption

-----------------------------------------------------------------------------
\* No circle.  Who waits for a client waits for one that no lock holds, and who
\* waits for a lock waits for one whose holder is further in its plan.

\* Those who wait do not wait for one another.
LEMMA NoCircle == PlanInv => NobodyWaitsForever
<1> SUFFICES ASSUME PlanInv,
                    NEW S \in SUBSET {a \in Actors : waiting[a] \/ query[a] \in {"client", "lock"}},
                    S # {}, \A a \in S : WaitsFor(a, S)
             PROVE  FALSE
    BY DEF NobodyWaitsForever
<1>1. \A a \in S : /\ a \in Actors /\ OrderlyPlan(a, Steps(a)) /\ depth[a] \in Nat
                   /\ waiting[a] \/ query[a] \in {"client", "lock"}
                   /\ waiting[a] => depth[a] < Len(Steps(a)) /\ query[a] = "none"
      BY AllOrderly DEF PlanInv, PoolTypes, WaitsWithin
<1>2. \A a \in S : query[a] # "lock"
      BY <1>1 DEF WaitsFor
<1>3. ASSUME NEW pool \in PoolNames, PoolFull(pool), Holders(pool) \subseteq S PROVE FALSE
      <2>1. PICK few : /\ IsFiniteSet(few) /\ Cardinality(few) < PoolSize
                       /\ \A a \in Actors : \A i \in 1 .. depth[a] :
                            Steps(a)[i] = Client(pool) => <<a, i>> \in few
            BY LocksHoldFew
      <2>2. InUse(pool) \subseteq few
            <3> SUFFICES ASSUME NEW slot \in InUse(pool) PROVE slot \in few
                OBVIOUS
            <3>0. PICK a \in Actors : \E i : slot = <<a, i>> /\ Using(pool, a, i)
                  BY InUseIs
            <3>1. PICK i : slot = <<a, i>> /\ Using(pool, a, i)
                  BY <3>0
            <3>2. a \in S
                  <4>1. slot[1] = a
                        BY <3>1
                  <4> QED BY <1>3, <4>1 DEF Holders
            <3>3. query[a] \notin {"running", "lock", "locked"}
                  BY <1>1, <1>2, <3>2
            <3> QED BY <2>1, <3>1, <3>3 DEF Using
      <2>3. /\ Cardinality(InUse(pool)) <= Cardinality(few) /\ Cardinality(InUse(pool)) \in Nat
            /\ Cardinality(few) \in Nat
            BY <2>1, <2>2, FS_Subset, FS_CardinalityType
      <2> QED BY <1>3, <2>1, <2>3, PoolAssumption DEF PoolFull
<1>4. \A a \in S : /\ waiting[a] /\ NextStep(a).is \notin {"client", "try"}
                   /\ \E b \in S : b \in Blockers(a, NextStep(a))
      <2> SUFFICES ASSUME NEW a \in S
                   PROVE  /\ waiting[a] /\ NextStep(a).is \notin {"client", "try"}
                          /\ \E b \in S : b \in Blockers(a, NextStep(a))
          OBVIOUS
      <2>1. CASE /\ waiting[a] /\ NextStep(a).is = "client"
                 /\ PoolFull(NextStep(a).of) /\ Holders(NextStep(a).of) \subseteq S
            <3>1. depth[a] + 1 \in 1 .. Len(Steps(a)) /\ KnownSteps(Steps(a))
                  BY <1>1, <2>1 DEF OrderlyPlan
            <3>2. PICK pool \in PoolNames : NextStep(a) = Client(pool)
                  BY <2>1, <3>1 DEF KnownSteps, NextStep, PoolNames
            <3>3. NextStep(a).of = pool
                  BY <3>2 DEF Client
            <3> QED BY <1>3, <2>1, <3>3
      <2>2. CASE query[a] = "client" /\ PoolFull("main") /\ Holders("main") \subseteq S
            BY <1>3, <2>2 DEF PoolNames
      <2>3. CASE query[a] = "lock"
            BY <1>2, <2>3
      <2>4. CASE waiting[a] /\ NextStep(a).is \notin {"client", "try"}
                   /\ Blockers(a, NextStep(a)) \cap S # {}
            BY <2>4
      <2> QED BY <2>1, <2>2, <2>3, <2>4 DEF WaitsFor
<1>5. \A a \in S : /\ depth[a] + 1 \in 1 .. Len(Steps(a)) /\ depth[a] < Len(Steps(a))
                   /\ Len(Steps(a)) \in Nat /\ depth[a] \in Nat
                   /\ KnownSteps(Steps(a)) /\ OrderedLocks(Steps(a))
      <2> TAKE a \in S
      <2>1. /\ depth[a] < Len(Steps(a)) /\ Len(Steps(a)) \in Nat /\ depth[a] \in Nat
            /\ KnownSteps(Steps(a)) /\ OrderedLocks(Steps(a))
            BY <1>1, <1>4 DEF OrderlyPlan
      <2>2. depth[a] + 1 \in 1 .. Len(Steps(a))
            BY <2>1
      <2> QED BY <2>1, <2>2
<1>6. \A a \in S : ~Holds(a, Shared) /\ ~Holds(a, Exclusive)
      <2> SUFFICES ASSUME NEW a \in S,
                            NEW i \in 1 .. depth[a], Steps(a)[i] \in {Shared, Exclusive}
                   PROVE  FALSE
          BY DEF Holds
      <2>1. i \in 1 .. Len(Steps(a)) /\ i < Len(Steps(a))
            BY <1>5
      <2>2. Steps(a)[i].is \in {"shared", "exclusive"}
            BY DEF Shared, Exclusive
      <2> QED BY <1>5, <2>1, <2>2 DEF KnownSteps
<1>7. \A a \in S : NextStep(a).is # "exclusive"
      <2> SUFFICES ASSUME NEW a \in S, NextStep(a).is = "exclusive" PROVE FALSE
          OBVIOUS
      <2>1. PICK b \in S : b \in Blockers(a, NextStep(a))
            BY <1>4
      <2>2. Holds(b, Shared) \/ Holds(b, Exclusive)
            BY <2>1 DEF Blockers
      <2> QED BY <1>6, <2>2
<1>8. \A a \in S : NextStep(a).is # "shared"
      <2> SUFFICES ASSUME NEW a \in S, NextStep(a).is = "shared" PROVE FALSE
          OBVIOUS
      <2>1. PICK b \in S : b \in Blockers(a, NextStep(a))
            BY <1>4
      <2>2. Holds(b, Exclusive) \/ NextStep(b) = Exclusive
            BY <2>1 DEF Blockers
      <2>3. Exclusive.is = "exclusive"
            BY DEF Exclusive
      <2> QED BY <1>6, <1>7, <2>2, <2>3
<1>9. \A a \in S : /\ NextStep(a).is = "lock"
                   /\ \/ NextStep(a).of = "object"
                      \/ NextStep(a).of = "bucket" /\ NextStep(a).id \in Nat
      BY <1>4, <1>5, <1>7, <1>8 DEF KnownSteps, NextStep, Kinds
<1>10. \A a \in S : \E b \in S :
         /\ NextStep(a).of = "object" => NextStep(b).of # "object"
         /\ NextStep(a).of = "bucket" => NextStep(b).of = "bucket"
              /\ NextStep(a).id < NextStep(b).id
       <2> SUFFICES ASSUME NEW a \in S
                    PROVE  \E b \in S :
                      /\ NextStep(a).of = "object" => NextStep(b).of # "object"
                      /\ NextStep(a).of = "bucket" => NextStep(b).of = "bucket"
                           /\ NextStep(a).id < NextStep(b).id
           OBVIOUS
       <2>1. PICK b \in S : b \in Blockers(a, NextStep(a))
             BY <1>4
       <2>2. \/ Holds(b, Lock(NextStep(a).of, NextStep(a).id))
             \/ Holds(b, Try(NextStep(a).of, NextStep(a).id))
             BY <1>9, <2>1 DEF Blockers
       <2>3. PICK i \in 1 .. depth[b] : /\ Steps(b)[i].of = NextStep(a).of
                                        /\ Steps(b)[i].id = NextStep(a).id
             BY <2>2 DEF Holds, Lock, Try
       <2>4. i \in 1 .. Len(Steps(b)) /\ i < depth[b] + 1
             BY <1>5
       <2>5. /\ Steps(b)[i].of = "object" => NextStep(b).of # "object"
             /\ Steps(b)[i].of = "bucket" =>
                  NextStep(b).of = "bucket" /\ Steps(b)[i].id < NextStep(b).id
             BY <1>5, <1>9, <2>4 DEF OrderedLocks, NextStep
       <2> QED BY <2>3, <2>5
<1>11. \A a \in S : NextStep(a).of # "bucket"
       <2> SUFFICES ASSUME NEW a \in S, NextStep(a).of = "bucket" PROVE FALSE
           OBVIOUS
       <2>1. PICK T : T = {c \in S : NextStep(c).of = "bucket"}
             OBVIOUS
       <2>2. PICK id : id = [c \in T |-> NextStep(c).id]
             OBVIOUS
       <2>3. IsFiniteSet(T)
             BY <2>1, <1>1, FewActors, FS_Subset
       <2>4. id \in Surjection(T, Range(id))
             BY <2>2 DEF Surjection, Range
       <2>5. IsFiniteSet(Range(id)) /\ Range(id) \in SUBSET Nat
             BY <1>9, <2>1, <2>2, <2>3, <2>4, FS_Surjection DEF Range
       <2>6. Range(id) # {}
             BY <2>1, <2>2 DEF Range
       <2>7. Max(Range(id)) \in Range(id) /\ \A y \in Range(id) : Max(Range(id)) >= y
             BY <2>5, <2>6, GreatestOf
       <2>8. PICK c \in T : \A d \in T : NextStep(c).id >= NextStep(d).id
             BY <2>2, <2>7 DEF Range
       <2>9. PICK d \in S : NextStep(d).of = "bucket" /\ NextStep(c).id < NextStep(d).id
             BY <1>10, <2>1
       <2>10. NextStep(c).id \in Nat /\ NextStep(d).id \in Nat
              BY <1>9, <2>1, <2>9
       <2> QED BY <2>1, <2>8, <2>9, <2>10
<1> QED BY <1>9, <1>10, <1>11

-----------------------------------------------------------------------------
\* The invariant always holds.
LEMMA PoolsInvariant == PoolsSpec => []PoolInv
<1>1. PoolsInit => PoolInv
      BY InitPlan, InitPools DEF PoolInv
<1>2. PoolInv /\ [PoolsNext]_poolVars => PoolInv'
      BY PlanStep, PoolStep DEF PoolInv
<1> QED BY <1>1, <1>2, PTL DEF PoolsSpec

\* The state is well formed and no pool ever lends more clients than it has.
THEOREM PoolsTypeCorrect == PoolsSpec => []PoolsTypeOK
<1>1. PoolInv => PoolsTypeOK
      <2> SUFFICES ASSUME PoolInv PROVE PoolsTypeOK
          OBVIOUS
      <2>1. \A a \in Actors : depth[a] \in 0 .. Len(Steps(a))
            <3>1. \A a \in Actors : Len(Steps(a)) \in Nat
                  BY AllOrderly DEF PoolInv, PlanInv, OrderlyPlan
            <3> QED BY <3>1 DEF PoolInv, PlanInv, PoolTypes, OnPlan
      <2> QED BY <2>1 DEF PoolInv, PlanInv, PoolTypes, WithinPools,
                PoolsTypeOK, PoolNames, Queries
<1> QED BY <1>1, PoolsInvariant, PTL

\* The parts of the worker process, however many jobs it runs and whatever they
\* merge, never wait in a circle for clients and locks that only they hold.
THEOREM NoDeadlock == PoolsSpec => []NobodyWaitsForever
<1>1. PoolInv => NobodyWaitsForever
      BY NoCircle DEF PoolInv
<1> QED BY <1>1, PoolsInvariant, PTL

-----------------------------------------------------------------------------
\* The windows of an import.

\* The window and the places in it, of any set of traces.
Seen(S, a) == {x \in S : x.at >= a}
Before(S, x, a) == {y \in Seen(S, a) : Earlier(y, x)}
Place(S, x, a) == Cardinality(Before(S, x, a))

TraceRecords == [id : Nat, at : Nat]
Numbered(S) ==
    /\ IsFiniteSet(S) /\ S \in SUBSET TraceRecords
    /\ \A x \in S : x.id <= Cardinality(S)

\* Nothing before the position was missed; and the position is not beyond the
\* traces there are.
Behind(S, L, a, o) ==
    \A x \in S : x.id \in L \cup Unmappable \/ (x.at >= a /\ Place(S, x, a) >= o)
Reached(S, a, o) ==
    (a = 0 \/ \E x \in S : x.at = a) /\ Cardinality(Seen(S, a)) >= o

\* A page: of the traces from the position on, a first part; and all of its
\* length when it is not the last.
IsPage(S, p) ==
    /\ p.page \subseteq S
    /\ \A x \in S, y \in p.page :
          x.at >= p.anchor /\ Place(S, x, p.anchor) >= p.offset /\ Earlier(x, y) => x \in p.page
    /\ ~p.last =>
          /\ Cardinality(Seen(S, p.anchor)) >= p.offset + PageSize
          /\ \A x \in S : /\ x.at >= p.anchor
                          /\ Place(S, x, p.anchor) >= p.offset
                          /\ Place(S, x, p.anchor) < p.offset + PageSize
                          => x \in p.page

PullOk(S, L, p) ==
    /\ p.pc \in {"list", "stage", "save"} =>
          /\ Reached(S, p.anchor, p.offset) /\ Behind(S, L, p.anchor, p.offset)
          /\ p.newest # 0 => Reached(S, p.newest, 0) /\ Behind(S, L, p.newest, 0)
    /\ p.pc \in {"stage", "save"} => IsPage(S, p)
    /\ p.pc = "save" => \A x \in p.page : x.id \in L \cup Unmappable

Pulls ==
    {Resting} \cup
    [pc : {"list", "stage", "save", "finish"}, anchor : Nat, offset : Nat, newest : Nat,
     fetched : Nat, page : SUBSET TraceRecords, last : BOOLEAN]

WindowTypes ==
    /\ pull \in [Pullers -> Pulls]
    /\ checkpoint \in [anchor : Nat, offset : Nat]

WindowInv ==
    /\ WindowTypes /\ Numbered(upstream)
    /\ Reached(upstream, checkpoint.anchor, checkpoint.offset)
    /\ Behind(upstream, landed, checkpoint.anchor, checkpoint.offset)
    /\ \A w \in Pullers : PullOk(upstream, landed, pull[w])

\* The window and the ranks of the model are those of the traces there are.
LEMMA RankIsPlace ==
    /\ \A a : Window(a) = Seen(upstream, a)
    /\ \A x, a : Rank(x, a) = Place(upstream, x, a)
BY DEF Window, Seen, Rank, Place, Before

\* Windows are finite, and places are numbers.
LEMMA PlacesCount ==
    ASSUME NEW S, Numbered(S), NEW a \in Nat
    PROVE  /\ IsFiniteSet(Seen(S, a)) /\ Cardinality(Seen(S, a)) \in Nat
           /\ \A x : IsFiniteSet(Before(S, x, a)) /\ Place(S, x, a) \in Nat
<1>1. IsFiniteSet(S) /\ Seen(S, a) \subseteq S
      BY DEF Numbered, Seen
<1>2. IsFiniteSet(Seen(S, a))
      BY <1>1, FS_Subset
<1>3. ASSUME NEW x PROVE IsFiniteSet(Before(S, x, a))
      <2>1. Before(S, x, a) \subseteq Seen(S, a)
            BY DEF Before
      <2> QED BY <1>2, <2>1, FS_Subset
<1> QED BY <1>2, <1>3, FS_CardinalityType DEF Place

\* An earlier trace has an earlier place.
LEMMA EarlierPlace ==
    ASSUME NEW S, Numbered(S), NEW a \in Nat, NEW x \in Seen(S, a),
             NEW y \in Seen(S, a), Earlier(x, y)
    PROVE  Place(S, x, a) < Place(S, y, a)
<1>1. PICK B, C : B = Before(S, x, a) /\ C = Before(S, y, a)
      OBVIOUS
<1>2. \A z \in Seen(S, a) : z.at \in Nat /\ z.id \in Nat
      BY DEF Numbered, Seen, TraceRecords
<1>3. B \subseteq C
      BY <1>1, <1>2 DEF Before, Earlier
<1>4. x \in C /\ x \notin B
      BY <1>1, <1>2 DEF Before, Earlier
<1>5. IsFiniteSet(C)
      BY <1>1, PlacesCount
<1>6. Cardinality(B) < Cardinality(C)
      BY <1>3, <1>4, <1>5, FS_Subset, FS_CardinalityType
<1> QED BY <1>1, <1>6 DEF Place

\* A trace appears behind the others.
NewLast(S, n) ==
    /\ n \in TraceRecords /\ n.id = Cardinality(S) + 1
    /\ \A x \in S : x.at <= n.at

\* It is the last of every window, which grows.
LEMMA NewIsLast ==
    ASSUME NEW S, Numbered(S), NEW n, NewLast(S, n), NEW a \in Nat
    PROVE  /\ Numbered(S \cup {n}) /\ n \notin S
           /\ \A x \in S : Earlier(x, n) /\ ~Earlier(n, x)
           /\ n.at >= a => Place(S \cup {n}, n, a) = Cardinality(Seen(S, a))
           /\ Cardinality(Seen(S \cup {n}, a)) >= Cardinality(Seen(S, a))
<1>0. IsFiniteSet(S) /\ Cardinality(S) \in Nat
      BY FS_CardinalityType DEF Numbered
<1>1. \A x \in S : x.id \in Nat /\ x.at \in Nat /\ x.id < n.id /\ x.at <= n.at
      BY <1>0 DEF Numbered, NewLast, TraceRecords
<1>2. n \notin S /\ n.id \in Nat /\ n.at \in Nat
      BY <1>1 DEF NewLast, TraceRecords
<1>3. Numbered(S \cup {n})
      <2>1. IsFiniteSet(S \cup {n}) /\ Cardinality(S \cup {n}) = Cardinality(S) + 1
            BY <1>0, <1>2, FS_AddElement
      <2>2. PICK k : k = Cardinality(S \cup {n})
            OBVIOUS
      <2>3. \A x \in S \cup {n} : x.id <= k
            BY <1>0, <1>1, <2>1, <2>2 DEF NewLast
      <2> QED BY <2>1, <2>2, <2>3 DEF Numbered, NewLast
<1>4. \A x \in S : Earlier(x, n) /\ ~Earlier(n, x)
      BY <1>1, <1>2 DEF Earlier
<1>5. ~Earlier(n, n)
      BY <1>2 DEF Earlier
<1>7. n.at >= a => Before(S \cup {n}, n, a) = Seen(S, a)
      BY <1>4, <1>5 DEF Before, Seen
<1>8. Cardinality(Seen(S \cup {n}, a)) >= Cardinality(Seen(S, a))
      <2>1. PICK B, C : B = Seen(S, a) /\ C = Seen(S \cup {n}, a)
            OBVIOUS
      <2>2. B \subseteq C
            BY <2>1 DEF Seen
      <2>3. IsFiniteSet(C) /\ Cardinality(B) \in Nat /\ Cardinality(C) \in Nat
            BY <1>3, <2>1, PlacesCount
      <2>4. Cardinality(B) <= Cardinality(C)
            BY <2>2, <2>3, FS_Subset
      <2> QED BY <2>1, <2>3, <2>4
<1> QED BY <1>2, <1>3, <1>4, <1>7, <1>8 DEF Place

\* The others keep their places.
LEMMA PlaceStays ==
    ASSUME NEW S, Numbered(S), NEW n, NewLast(S, n), NEW a \in Nat, NEW x \in S
    PROVE  Place(S \cup {n}, x, a) = Place(S, x, a)
<1>1. ~Earlier(n, x)
      BY NewIsLast
<1>2. Before(S \cup {n}, x, a) = Before(S, x, a)
      BY <1>1 DEF Before, Seen
<1> QED BY <1>2 DEF Place

\* Behind a position there is still nothing missing.
LEMMA PositionStays ==
    ASSUME NEW S, Numbered(S), NEW n, NewLast(S, n), NEW L, NEW a \in Nat, NEW o \in Nat,
           Reached(S, a, o), Behind(S, L, a, o)
    PROVE  Reached(S \cup {n}, a, o) /\ Behind(S \cup {n}, L, a, o)
<1>1. PICK T : T = S \cup {n}
      OBVIOUS
<1>2. /\ \A x \in S : Place(T, x, a) = Place(S, x, a)
      /\ n.at >= a => Place(T, n, a) = Cardinality(Seen(S, a))
      /\ Cardinality(Seen(T, a)) >= Cardinality(Seen(S, a)) /\ Numbered(T)
      <2>1. /\ \A x \in S : Place(S \cup {n}, x, a) = Place(S, x, a)
            /\ n.at >= a => Place(S \cup {n}, n, a) = Cardinality(Seen(S, a))
            /\ Cardinality(Seen(S \cup {n}, a)) >= Cardinality(Seen(S, a))
            /\ Numbered(S \cup {n})
            <3>0. a \in Nat /\ Numbered(S) /\ NewLast(S, n)
                  OBVIOUS
            <3>1. \A x \in S : Place(S \cup {n}, x, a) = Place(S, x, a)
                  BY <3>0, PlaceStays
            <3>4. Numbered(S \cup {n})
                  BY <3>0, NewIsLast
            <3>2. Cardinality(Seen(S \cup {n}, a)) >= Cardinality(Seen(S, a))
                  BY <3>0, NewIsLast
            <3>3. n.at >= a => Place(S \cup {n}, n, a) = Cardinality(Seen(S, a))
                  BY <3>0, NewIsLast
            <3> QED BY <3>1, <3>2, <3>3, <3>4
      <2> QED BY <1>1, <2>1
<1>3. Cardinality(Seen(S, a)) \in Nat /\ Cardinality(Seen(T, a)) \in Nat
      BY <1>2, PlacesCount
<1>4. n.at >= a
      <2>1. n.at \in Nat
            BY DEF NewLast, TraceRecords
      <2> QED BY <2>1 DEF Reached, NewLast
<1>5. Reached(T, a, o)
      <2>1. Cardinality(Seen(T, a)) >= o
            BY <1>2, <1>3 DEF Reached
      <2>2. a = 0 \/ \E x \in T : x.at = a
            BY <1>1 DEF Reached
      <2> QED BY <2>1, <2>2 DEF Reached
<1>6. Behind(T, L, a, o)
      <2> SUFFICES ASSUME NEW x \in T, x.id \notin L \cup Unmappable
                   PROVE  x.at >= a /\ Place(T, x, a) >= o
          BY DEF Behind
      <2>1. CASE x \in S
            BY <1>2, <2>1 DEF Behind
      <2>2. CASE x = n
            BY <1>2, <1>4, <2>2 DEF Reached
      <2> QED BY <1>1, <2>1, <2>2
<1> QED BY <1>1, <1>5, <1>6

\* So what a run relies on stays true when a trace appears.
LEMMA PullStays ==
    ASSUME NEW S, Numbered(S), NEW n, NewLast(S, n), NEW L, NEW p \in Pulls, PullOk(S, L, p)
    PROVE  PullOk(S \cup {n}, L, p)
<1>1. PICK T : T = S \cup {n}
      OBVIOUS
<1>2. CASE p.pc \notin {"list", "stage", "save"}
      BY <1>1, <1>2 DEF PullOk
<1>3. CASE p.pc \in {"list", "stage", "save"}
      <2>1. p.anchor \in Nat /\ p.offset \in Nat /\ p.newest \in Nat /\ 0 \in Nat
            BY <1>3 DEF Pulls, Resting
      <2>2. Reached(T, p.anchor, p.offset) /\ Behind(T, L, p.anchor, p.offset)
            BY <1>1, <1>3, <2>1, PositionStays DEF PullOk
      <2>3. p.newest # 0 => Reached(T, p.newest, 0) /\ Behind(T, L, p.newest, 0)
            BY <1>1, <1>3, <2>1, PositionStays DEF PullOk
      <2>4. ASSUME p.pc \in {"stage", "save"} PROVE IsPage(T, p)
            <3>1. IsPage(S, p)
                  BY <2>4 DEF PullOk
            <3>2. PICK a, o, listed : a = p.anchor /\ o = p.offset /\ listed = p.page
                  OBVIOUS
            <3>3. /\ \A x \in S : Place(T, x, a) = Place(S, x, a)
                  /\ \A x \in S : ~Earlier(n, x)
                  /\ n.at >= a => Place(T, n, a) = Cardinality(Seen(S, a))
                  /\ Cardinality(Seen(T, a)) >= Cardinality(Seen(S, a)) /\ Numbered(T)
                  <4>1. /\ \A x \in S : Place(S \cup {n}, x, a) = Place(S, x, a)
                        /\ \A x \in S : ~Earlier(n, x)
                        /\ n.at >= a => Place(S \cup {n}, n, a) = Cardinality(Seen(S, a))
                        /\ Cardinality(Seen(S \cup {n}, a)) >= Cardinality(Seen(S, a))
                        /\ Numbered(S \cup {n})
                        <5>1. a \in Nat
                              BY <2>1, <3>2
                        <5>2. Numbered(S) /\ NewLast(S, n)
                              OBVIOUS
                        <5>3. Numbered(S \cup {n})
                              BY <5>1, <5>2, NewIsLast
                        <5>7. \A x \in S : Place(S \cup {n}, x, a) = Place(S, x, a)
                              BY <5>1, <5>2, PlaceStays
                        <5>6. \A x \in S : ~Earlier(n, x)
                              BY <5>1, <5>2, NewIsLast
                        <5>4. Cardinality(Seen(S \cup {n}, a)) >= Cardinality(Seen(S, a))
                              BY <5>1, <5>2, NewIsLast
                        <5>5. n.at >= a => Place(S \cup {n}, n, a) = Cardinality(Seen(S, a))
                              BY <5>1, <5>2, NewIsLast
                        <5> QED BY <5>3, <5>4, <5>5, <5>6, <5>7
                  <4> QED BY <1>1, <4>1
            <3>4. /\ Cardinality(Seen(S, a)) \in Nat /\ Cardinality(Seen(T, a)) \in Nat
                  /\ PageSize \in Nat
                  BY <2>1, <3>2, <3>3, PlacesCount, WindowAssumption
            <3>5. listed \subseteq S /\ listed \subseteq T
                  BY <1>1, <3>1, <3>2 DEF IsPage
            <3>6. ASSUME NEW x \in T, NEW y \in listed, x.at >= a,
                           Place(T, x, a) >= o, Earlier(x, y)
                  PROVE  x \in listed
                  <4>1. x \in S
                        BY <1>1, <3>3, <3>5, <3>6
                  <4> QED BY <3>1, <3>2, <3>3, <3>6, <4>1 DEF IsPage
            <3>7. ASSUME ~p.last
                  PROVE  /\ Cardinality(Seen(T, a)) >= o + PageSize
                         /\ \A x \in T : /\ x.at >= a
                                         /\ Place(T, x, a) >= o
                                         /\ Place(T, x, a) < o + PageSize
                                         => x \in listed
                  <4>1. Cardinality(Seen(S, a)) >= o + PageSize
                        BY <3>1, <3>2, <3>7 DEF IsPage
                  <4>2. Cardinality(Seen(T, a)) >= o + PageSize
                        BY <2>1, <3>2, <3>3, <3>4, <4>1
                  <4>3. ASSUME NEW x \in T, x.at >= a, Place(T, x, a) >= o,
                               Place(T, x, a) < o + PageSize
                        PROVE  x \in listed
                        <5>1. x # n
                              BY <2>1, <3>2, <3>3, <3>4, <4>1, <4>3
                        <5>2. x \in S
                              BY <1>1, <5>1
                        <5> QED BY <3>1, <3>2, <3>3, <3>7, <4>3, <5>2 DEF IsPage
                  <4> QED BY <4>2, <4>3
            <3> QED BY <3>2, <3>5, <3>6, <3>7 DEF IsPage
      <2>5. p.pc = "save" => \A x \in p.page : x.id \in L \cup Unmappable
            BY DEF PullOk
      <2> QED BY <1>1, <2>2, <2>3, <2>4, <2>5 DEF PullOk
<1> QED BY <1>2, <1>3

\* A trace appears.
LEMMA AppearKeeps == WindowInv /\ Appear => WindowInv'
<1> SUFFICES ASSUME WindowInv, Appear PROVE WindowInv'
    OBVIOUS
<1>1. PICK n : NewLast(upstream, n) /\ upstream' = upstream \cup {n}
      <2>1. PICK at \in Stamps :
              /\ \A x \in upstream : x.at <= at
              /\ upstream' = upstream \cup {[id |-> Cardinality(upstream) + 1, at |-> at]}
            BY DEF Appear
      <2>2. at \in Nat
            BY WindowAssumption
      <2>3. Cardinality(upstream) \in Nat
            BY FS_CardinalityType DEF WindowInv, Numbered
      <2>4. PICK n : n = [id |-> Cardinality(upstream) + 1, at |-> at]
            OBVIOUS
      <2>5. n \in TraceRecords /\ n.id = Cardinality(upstream) + 1 /\ n.at = at
            BY <2>2, <2>3, <2>4 DEF TraceRecords
      <2> QED BY <2>1, <2>4, <2>5 DEF NewLast
<1>2. UNCHANGED <<checkpoint, pull, landed>>
      BY DEF Appear
<1>3. Numbered(upstream')
      <2>1. 0 \in Nat
            OBVIOUS
      <2> QED BY <1>1, <2>1, NewIsLast DEF WindowInv
<1>4. checkpoint.anchor \in Nat /\ checkpoint.offset \in Nat
      BY DEF WindowInv, WindowTypes
<1>5. /\ Reached(upstream', checkpoint.anchor, checkpoint.offset)
      /\ Behind(upstream', landed, checkpoint.anchor, checkpoint.offset)
      BY <1>1, <1>4, PositionStays DEF WindowInv
<1>6. \A w \in Pullers : PullOk(upstream', landed, pull[w])
      BY <1>1, PullStays DEF WindowInv, WindowTypes
<1> QED BY <1>2, <1>3, <1>5, <1>6 DEF WindowInv, WindowTypes

-----------------------------------------------------------------------------
\* More that has landed does no harm.
LEMMA LandedGrows ==
    ASSUME NEW S, NEW L, NEW M, L \subseteq M
    PROVE  /\ \A a, o : Behind(S, L, a, o) => Behind(S, M, a, o)
           /\ \A p : PullOk(S, L, p) => PullOk(S, M, p)
<1>1. \A a, o : Behind(S, L, a, o) => Behind(S, M, a, o)
      BY DEF Behind
<1> QED BY <1>1 DEF PullOk

\* One puller's step, under a checkpoint that may move.
LEMMA PullerMoves ==
    ASSUME WindowInv, NEW w \in Pullers, NEW p \in Pulls, pull' = [pull EXCEPT ![w] = p],
           upstream' = upstream, landed \subseteq landed', PullOk(upstream, landed', p),
           checkpoint' \in [anchor : Nat, offset : Nat],
           Reached(upstream, checkpoint'.anchor, checkpoint'.offset),
           Behind(upstream, landed', checkpoint'.anchor, checkpoint'.offset)
    PROVE  WindowInv'
<1>1. WindowTypes'
      BY DEF WindowInv, WindowTypes
<1>2. \A v \in Pullers : PullOk(upstream, landed', pull'[v])
      <2>1. \A v \in Pullers : PullOk(upstream, landed', pull[v])
            BY LandedGrows DEF WindowInv
      <2> QED BY <2>1 DEF WindowInv, WindowTypes
<1> QED BY <1>1, <1>2 DEF WindowInv

\* A run that ends.
LEMMA RestKeeps ==
    ASSUME WindowInv, NEW w \in Pullers, pull' = [pull EXCEPT ![w] = Resting],
           UNCHANGED <<upstream, checkpoint, landed>>
    PROVE  WindowInv'
<1>1. Resting \in Pulls /\ Resting.pc = "off"
      BY DEF Pulls, Resting
<1>2. PullOk(upstream, landed', Resting)
      BY <1>1 DEF PullOk
<1>3. /\ checkpoint' \in [anchor : Nat, offset : Nat]
      /\ Reached(upstream, checkpoint'.anchor, checkpoint'.offset)
      /\ Behind(upstream, landed', checkpoint'.anchor, checkpoint'.offset)
      BY DEF WindowInv, WindowTypes
<1> QED BY <1>1, <1>2, <1>3, PullerMoves

\* A run begins where the checkpoint is.
LEMMA ClaimWindowKeeps ==
    ASSUME WindowInv, NEW w \in Pullers, ClaimWindow(w) PROVE WindowInv'
<1>1. PICK p : p = [pc |-> "list", anchor |-> checkpoint.anchor, offset |-> checkpoint.offset,
                    newest |-> 0, fetched |-> 0, page |-> {}, last |-> FALSE]
      OBVIOUS
<1>2. pull' = [pull EXCEPT ![w] = p] /\ UNCHANGED <<upstream, checkpoint, landed>>
      BY <1>1 DEF ClaimWindow
<1>3. /\ checkpoint.anchor \in Nat /\ checkpoint.offset \in Nat
      /\ checkpoint' \in [anchor : Nat, offset : Nat]
      BY <1>2 DEF WindowInv, WindowTypes
<1>4. p \in Pulls
      BY <1>1, <1>3 DEF Pulls
<1>5. p.pc = "list" /\ p.anchor = checkpoint.anchor /\ p.offset = checkpoint.offset
        /\ p.newest = 0
      BY <1>1
<1>6. PullOk(upstream, landed', p)
      BY <1>2, <1>5 DEF WindowInv, PullOk
<1> QED BY <1>2, <1>3, <1>4, <1>6, PullerMoves DEF WindowInv

\* A page that is not the last ends before the traces do.
LEMMA LastPages ==
    ASSUME NEW a, NEW o \in Nat, NEW last \in LastPage(a, o), Cardinality(Window(a)) \in Nat
    PROVE  last \in BOOLEAN /\ (~last => Cardinality(Window(a)) >= o + PageSize)
<1>1. PICK left : left = Cardinality(Window(a)) - o
      OBVIOUS
<1>2. left \in Int /\ PageSize \in Nat
      BY <1>1, WindowAssumption
<1>3. \/ last \in {left <= PageSize}
      \/ left = PageSize /\ last \in BOOLEAN
      \/ last \in {left < PageSize}
      BY <1>1 DEF LastPage
<1>4. CASE last \in {left <= PageSize}
      <2>1. CASE left <= PageSize
            BY ONLY <1>4, <2>1
      <2>2. CASE ~(left <= PageSize)
            <3>1. last \in BOOLEAN
                  BY ONLY <1>4, <2>2
            <3> QED BY <1>1, <1>2, <2>2, <3>1
      <2> QED BY <2>1, <2>2
<1>5. CASE left = PageSize /\ last \in BOOLEAN
      BY <1>1, <1>2, <1>5
<1>6. CASE last \in {left < PageSize}
      <2>1. CASE left < PageSize
            BY ONLY <1>6, <2>1
      <2>2. CASE ~(left < PageSize)
            <3>1. last \in BOOLEAN
                  BY ONLY <1>6, <2>2
            <3> QED BY <1>1, <1>2, <2>2, <3>1
      <2> QED BY <2>1, <2>2
<1> QED BY <1>3, <1>4, <1>5, <1>6

\* A page is listed.
LEMMA FetchKeeps ==
    ASSUME WindowInv, NEW w \in Pullers, FetchWindow(w) PROVE WindowInv'
<1>1. UNCHANGED <<upstream, checkpoint, landed>> /\ pull[w].pc = "list"
      BY DEF FetchWindow
<1>2. CASE ~HasLease(w)
      BY <1>1, <1>2, RestKeeps DEF FetchWindow, Abandon
<1>3. CASE HasLease(w)
      <2>1. PICK q : q = pull[w]
            OBVIOUS
      <2>2. /\ q \in Pulls /\ q.pc = "list" /\ q.anchor \in Nat /\ q.offset \in Nat
            /\ q \in [pc : {"list", "stage", "save", "finish"}, anchor : Nat, offset : Nat,
                      newest : Nat, fetched : Nat, page : SUBSET TraceRecords, last : BOOLEAN]
            BY <1>1, <2>1 DEF WindowInv, WindowTypes, Pulls, Resting
      <2>3. PICK last \in LastPage(q.anchor, q.offset) :
              pull' = [pull EXCEPT ![w].pc = "stage", ![w].last = last,
                                   ![w].page = PageAt(q.anchor, q.offset)]
            BY <1>3, <2>1 DEF FetchWindow
      <2>4. PICK listed : listed = PageAt(q.anchor, q.offset)
            OBVIOUS
      <2>6. /\ PageSize \in Nat /\ Numbered(upstream)
            /\ Cardinality(Seen(upstream, q.anchor)) \in Nat
            /\ \A x : Place(upstream, x, q.anchor) \in Nat
            BY <2>2, WindowAssumption, PlacesCount DEF WindowInv
      <2>5. last \in BOOLEAN /\ (~last => Cardinality(Window(q.anchor)) >= q.offset + PageSize)
            BY <2>2, <2>3, <2>6, LastPages, RankIsPlace
      <2>7. ~last => Cardinality(Seen(upstream, q.anchor)) >= q.offset + PageSize
            BY <2>5, RankIsPlace
      <2>8. \A x : x \in listed <=>
              /\ x \in upstream /\ x.at >= q.anchor
              /\ Place(upstream, x, q.anchor) >= q.offset
              /\ Place(upstream, x, q.anchor) < q.offset + PageSize
            <3>1. \A k \in Nat : k \in q.offset .. q.offset + PageSize - 1
                                   <=> k >= q.offset /\ k < q.offset + PageSize
                  BY <2>2, <2>6
            <3>2. \A x : x \in listed <=>
                    /\ x \in Window(q.anchor)
                    /\ Rank(x, q.anchor) \in q.offset .. q.offset + PageSize - 1
                  BY <2>4 DEF PageAt
            <3>3. \A x : x \in Window(q.anchor) <=> x \in upstream /\ x.at >= q.anchor
                  BY DEF Window
            <3> QED BY <2>6, <3>1, <3>2, <3>3, RankIsPlace
      <2>9. listed \in SUBSET TraceRecords
            BY <2>6, <2>8 DEF Numbered
      <2>10. PICK p : p = [q EXCEPT !.pc = "stage", !.last = last, !.page = listed]
             OBVIOUS
      <2>11. pull' = [pull EXCEPT ![w] = p]
             BY <2>1, <2>3, <2>4, <2>10 DEF WindowInv, WindowTypes
      <2>12. p \in Pulls
             BY <2>2, <2>5, <2>9, <2>10 DEF Pulls
      <2>13. /\ p.pc = "stage" /\ p.anchor = q.anchor /\ p.offset = q.offset
                  /\ p.newest = q.newest
             /\ p.page = listed /\ p.last = last
             BY <2>2, <2>10
      <2>14. IsPage(upstream, p)
             <3>1. listed \subseteq upstream
                   BY <2>8
             <3>2. ASSUME NEW x \in upstream, NEW y \in listed, x.at >= q.anchor,
                          Place(upstream, x, q.anchor) >= q.offset, Earlier(x, y)
                   PROVE  x \in listed
                   <4>1. x \in Seen(upstream, q.anchor) /\ y \in Seen(upstream, q.anchor)
                         BY <2>8, <3>2 DEF Seen
                   <4>2. Place(upstream, x, q.anchor) < Place(upstream, y, q.anchor)
                         BY <2>2, <2>6, <3>2, <4>1, EarlierPlace
                   <4>3. Place(upstream, x, q.anchor) < q.offset + PageSize
                         BY <2>2, <2>6, <2>8, <4>2
                   <4> QED BY <2>8, <3>2, <4>3
             <3> QED BY <2>7, <2>8, <2>13, <3>1, <3>2 DEF IsPage
      <2>15. PullOk(upstream, landed', p)
             BY <1>1, <2>1, <2>2, <2>13, <2>14 DEF WindowInv, PullOk
      <2> QED BY <1>1, <2>11, <2>12, <2>15, PullerMoves DEF WindowInv, WindowTypes
<1> QED BY <1>2, <1>3

LivePulls ==
    [pc : {"list", "stage", "save", "finish"}, anchor : Nat, offset : Nat, newest : Nat,
     fetched : Nat, page : SUBSET TraceRecords, last : BOOLEAN]

\* The newest trace of a page.
LEMMA NewestIs ==
    ASSUME NEW P \in SUBSET TraceRecords, IsFiniteSet(P), P # {}
    PROVE  Newest(P) \in Nat /\ \E y \in P : y.at = Newest(P) /\ \A x \in P : x.at <= Newest(P)
<1>1. PICK T : T = {x.at : x \in P}
      OBVIOUS
<1>2. T \in SUBSET Nat /\ T # {}
      BY <1>1 DEF TraceRecords
<1>3. IsFiniteSet(T)
      <2>1. PICK f : f = [x \in P |-> x.at]
            OBVIOUS
      <2>2. f \in Surjection(P, T)
            BY <1>1, <2>1 DEF Surjection
      <2> QED BY <2>2, FS_Surjection
<1>4. PICK m : m = Max(T)
      OBVIOUS
<1>5. m \in T /\ \A t \in T : m >= t
      BY <1>2, <1>3, <1>4, GreatestOf
<1>6. \A x \in P : x.at <= m
      <2>1. \A x \in P : x.at \in T /\ x.at \in Nat
            BY <1>1 DEF TraceRecords
      <2> QED BY <1>2, <1>5, <2>1
<1>7. Newest(P) \in T /\ \A x \in P : x.at <= Newest(P)
      BY <1>1, <1>5, <1>6 DEF Newest
<1> QED BY <1>1, <1>2, <1>7

\* Before the newest trace of a page that has landed, nothing was missed.
LEMMA NewestReached ==
    ASSUME NEW S, Numbered(S), NEW L, NEW M, L \subseteq M, NEW p \in LivePulls,
           Behind(S, L, p.anchor, p.offset), IsPage(S, p), p.page # {},
           \A x \in p.page : x.id \in M \cup Unmappable
    PROVE  /\ Newest(p.page) \in Nat
           /\ Reached(S, Newest(p.page), 0) /\ Behind(S, M, Newest(p.page), 0)
<1>0. PICK P : P = p.page
      OBVIOUS
<1>1. P \in SUBSET TraceRecords /\ P \subseteq S /\ IsFiniteSet(P) /\ P # {}
      <2>1. P \in SUBSET TraceRecords /\ P \subseteq S /\ IsFiniteSet(S)
            BY <1>0 DEF LivePulls, IsPage, Numbered
      <2> QED BY <1>0, <2>1, FS_Subset
<1>2. PICK m : m = Newest(P)
      OBVIOUS
<1>3. m \in Nat
      BY <1>1, <1>2, NewestIs
<1>4. PICK y \in P : y.at = m
      BY <1>1, <1>2, NewestIs
<1>5. Cardinality(Seen(S, m)) \in Nat /\ \A x : Place(S, x, m) \in Nat
      BY <1>3, PlacesCount
<1>6. Reached(S, m, 0)
      BY <1>1, <1>4, <1>5 DEF Reached
<1>7. Behind(S, M, m, 0)
      <2> SUFFICES ASSUME NEW x \in S, x.id \notin M \cup Unmappable PROVE x.at >= m
          BY <1>5 DEF Behind
      <2>1. x.at >= p.anchor /\ Place(S, x, p.anchor) >= p.offset
            BY DEF Behind
      <2>2. x \notin P
            BY <1>0
      <2>3. ~Earlier(x, y)
            BY <1>0, <2>1, <2>2 DEF IsPage
      <2>4. x.at \in Nat
            BY DEF Numbered, TraceRecords
      <2> QED BY <1>3, <1>4, <2>3, <2>4 DEF Earlier
<1> QED BY <1>0, <1>2, <1>3, <1>6, <1>7

\* A page lands.
LEMMA StageKeeps ==
    ASSUME WindowInv, NEW w \in Pullers, StageWindow(w) PROVE WindowInv'
<1>1. UNCHANGED <<upstream, checkpoint>> /\ pull[w].pc = "stage"
      BY DEF StageWindow
<1>2. CASE ~HasLease(w)
      BY <1>1, <1>2, RestKeeps DEF StageWindow, Abandon
<1>3. CASE HasLease(w)
      <2>1. PICK q : q = pull[w]
            OBVIOUS
      <2>2. q \in LivePulls /\ q.pc = "stage"
            BY <1>1, <2>1 DEF WindowInv, WindowTypes, Pulls, Resting, LivePulls
      <2>3. PICK M : M = landed'
            OBVIOUS
      <2>4. /\ landed \subseteq M
            /\ \A x \in q.page : x.id \in M \cup Unmappable
            BY <1>3, <2>1, <2>3 DEF StageWindow
      <2>5. PICK new : new = IF q.page = {} THEN q.newest ELSE Newest(q.page)
            OBVIOUS
      <2>6. PICK p : p = [q EXCEPT !.pc = "save", !.newest = new]
            OBVIOUS
      <2>7. pull' = [pull EXCEPT ![w] = p]
            BY <1>3, <2>1, <2>2, <2>5, <2>6 DEF StageWindow, WindowInv, WindowTypes, LivePulls
      <2>8. PullOk(upstream, landed, q) /\ Numbered(upstream)
            BY <2>1 DEF WindowInv
      <2>9. /\ Reached(upstream, q.anchor, q.offset)
                 /\ Behind(upstream, landed, q.anchor, q.offset)
            /\ q.newest # 0 => Reached(upstream, q.newest, 0)
                 /\ Behind(upstream, landed, q.newest, 0)
            /\ IsPage(upstream, q)
            BY <2>2, <2>8 DEF PullOk
      <2>10. /\ new \in Nat
             /\ new # 0 => Reached(upstream, new, 0) /\ Behind(upstream, M, new, 0)
             <3>1. CASE q.page = {}
                   <4>1. new = q.newest /\ q.newest \in Nat
                         BY <2>2, <2>5, <3>1 DEF LivePulls
                   <4> QED BY <2>4, <2>9, <4>1, LandedGrows
             <3>2. CASE q.page # {}
                   BY <2>2, <2>4, <2>5, <2>8, <2>9, <3>2, NewestReached
             <3> QED BY <3>1, <3>2
      <2>11. /\ p \in LivePulls
             /\ p.pc = "save" /\ p.anchor = q.anchor /\ p.offset = q.offset /\ p.newest = new
             /\ p.page = q.page /\ p.last = q.last
             BY <2>2, <2>6, <2>10 DEF LivePulls
      <2>12. IsPage(upstream, p)
             BY <2>9, <2>11 DEF IsPage
      <2>13. Behind(upstream, M, p.anchor, p.offset)
             BY <2>4, <2>9, <2>11, LandedGrows
      <2>14. PullOk(upstream, M, p)
             BY <2>4, <2>9, <2>10, <2>11, <2>12, <2>13 DEF PullOk
      <2>15. p \in Pulls
             BY <2>11 DEF Pulls, LivePulls
      <2>16. /\ checkpoint' \in [anchor : Nat, offset : Nat]
             /\ Reached(upstream, checkpoint'.anchor, checkpoint'.offset)
             /\ Behind(upstream, M, checkpoint'.anchor, checkpoint'.offset)
             BY <1>1, <2>4, LandedGrows DEF WindowInv, WindowTypes
      <2> QED BY <1>1, <2>3, <2>4, <2>7, <2>14, <2>15, <2>16, PullerMoves
<1> QED BY <1>2, <1>3

\* The stored position, when a page has landed.
LEMMA ProgressReached ==
    ASSUME WindowInv, NEW w \in Pullers, pull[w].pc = "save"
    PROVE  /\ Progress(w) \in [anchor : Nat, offset : Nat]
           /\ Reached(upstream, Progress(w).anchor, Progress(w).offset)
           /\ Behind(upstream, landed, Progress(w).anchor, Progress(w).offset)
           /\ ~PagesDone(w) => Progress(w).anchor = pull[w].anchor
<1>1. PICK q : q = pull[w]
      OBVIOUS
<1>2. q \in LivePulls /\ q.pc = "save"
      BY <1>1 DEF WindowInv, WindowTypes, Pulls, Resting, LivePulls
<1>3. PullOk(upstream, landed, q) /\ Numbered(upstream)
      BY <1>1 DEF WindowInv
<1>4. /\ Reached(upstream, q.anchor, q.offset) /\ Behind(upstream, landed, q.anchor, q.offset)
      /\ q.newest # 0 => Reached(upstream, q.newest, 0) /\ Behind(upstream, landed, q.newest, 0)
      /\ IsPage(upstream, q)
      /\ \A x \in q.page : x.id \in landed \cup Unmappable
      BY <1>2, <1>3 DEF PullOk
<1>5. /\ q.anchor \in Nat /\ q.offset \in Nat /\ q.newest \in Nat /\ q.last \in BOOLEAN
      /\ PageSize \in Nat
      BY <1>2, WindowAssumption DEF LivePulls
<1>6. /\ Cardinality(Seen(upstream, q.anchor)) \in Nat
      /\ \A x : Place(upstream, x, q.anchor) \in Nat
      BY <1>3, <1>5, PlacesCount
<1>7. CASE PagesDone(w)
      <2>1. CASE q.newest = 0
            <3>1. Progress(w) = [anchor |-> q.anchor, offset |-> 0]
                  BY <1>1, <1>7, <2>1 DEF Progress, NextWindow
            <3>2. Reached(upstream, q.anchor, 0)
                  BY <1>4, <1>6 DEF Reached
            <3>3. Behind(upstream, landed, q.anchor, 0)
                  BY <1>4, <1>6 DEF Behind
            <3> QED BY <1>5, <1>7, <3>1, <3>2, <3>3
      <2>2. CASE q.newest # 0
            <3>1. Progress(w) = [anchor |-> q.newest, offset |-> 0]
                  BY <1>1, <1>7, <2>2 DEF Progress, NextWindow
            <3> QED BY <1>4, <1>5, <1>7, <2>2, <3>1
      <2> QED BY <2>1, <2>2
<1>8. CASE ~PagesDone(w)
      <2>1. Progress(w) = [anchor |-> q.anchor, offset |-> q.offset + PageSize]
            BY <1>1, <1>8 DEF Progress
      <2>2. ~q.last
            BY <1>1, <1>8 DEF PagesDone
      <2>3. Reached(upstream, q.anchor, q.offset + PageSize)
            BY <1>4, <2>2 DEF Reached, IsPage
      <2>4. Behind(upstream, landed, q.anchor, q.offset + PageSize)
            <3> SUFFICES ASSUME NEW x \in upstream, x.id \notin landed \cup Unmappable
                         PROVE  x.at >= q.anchor
                                  /\ Place(upstream, x, q.anchor) >= q.offset + PageSize
                BY DEF Behind
            <3>1. x.at >= q.anchor /\ Place(upstream, x, q.anchor) >= q.offset
                  BY <1>4 DEF Behind
            <3>2. x \notin q.page
                  BY <1>4
            <3>3. ~(Place(upstream, x, q.anchor) < q.offset + PageSize)
                  BY <1>4, <2>2, <3>1, <3>2 DEF IsPage
            <3> QED BY <1>5, <1>6, <3>1, <3>3
      <2>5. q.offset + PageSize \in Nat
            BY <1>5
      <2> QED BY <1>1, <1>5, <2>1, <2>3, <2>4, <2>5
<1> QED BY <1>7, <1>8

\* The position after a page is stored.
LEMMA StoreKeeps ==
    ASSUME WindowInv, NEW w \in Pullers, StoreWindow(w) PROVE WindowInv'
<1>1. UNCHANGED <<upstream, landed>> /\ pull[w].pc = "save"
      BY DEF StoreWindow
<1>2. CASE ~HasLease(w)
      BY <1>1, <1>2, RestKeeps DEF StoreWindow, Abandon
<1>3. CASE HasLease(w)
      <2>1. PICK q, c : q = pull[w] /\ c = Progress(w)
            OBVIOUS
      <2>2. q \in LivePulls /\ q.pc = "save"
            BY <1>1, <2>1 DEF WindowInv, WindowTypes, Pulls, Resting, LivePulls
      <2>3. /\ c \in [anchor : Nat, offset : Nat]
            /\ Reached(upstream, c.anchor, c.offset)
            /\ Behind(upstream, landed, c.anchor, c.offset)
            /\ ~PagesDone(w) => c.anchor = q.anchor
            BY <1>1, <2>1, ProgressReached
      <2>4. PICK done : done = IF PagesDone(w) \/ q.fetched + 1 = MaxPages THEN "finish" ELSE "list"
            OBVIOUS
      <2>5. PICK p : p = [q EXCEPT !.pc = done, !.offset = c.offset, !.fetched = @ + 1]
            OBVIOUS
      <2>6. checkpoint' = c /\ pull' = [pull EXCEPT ![w] = p]
            BY <1>3, <2>1, <2>2, <2>4, <2>5 DEF StoreWindow, WindowInv, WindowTypes, LivePulls
      <2>7. done \in {"list", "finish"} /\ (done = "list" => ~PagesDone(w))
            BY <2>4
      <2>8. q.fetched + 1 \in Nat /\ c.offset \in Nat
            BY <2>2, <2>3 DEF LivePulls
      <2>9. /\ p \in LivePulls
            /\ p.pc = done /\ p.anchor = q.anchor /\ p.offset = c.offset /\ p.newest = q.newest
            BY <2>2, <2>5, <2>7, <2>8 DEF LivePulls
      <2>10. PullOk(upstream, landed, q)
             BY <2>1 DEF WindowInv
      <2>11. q.newest # 0 => Reached(upstream, q.newest, 0)
               /\ Behind(upstream, landed, q.newest, 0)
             BY <2>2, <2>10 DEF PullOk
      <2>12. PullOk(upstream, landed, p)
             BY <2>3, <2>7, <2>9, <2>11 DEF PullOk
      <2>13. p \in Pulls
             BY <2>9 DEF Pulls, LivePulls
      <2> QED BY <1>1, <2>3, <2>6, <2>12, <2>13, PullerMoves
<1> QED BY <1>2, <1>3

\* Every step keeps the invariant.
LEMMA WindowStep == WindowInv /\ [WindowsNext]_windowVars => WindowInv'
<1> SUFFICES ASSUME WindowInv, [WindowsNext]_windowVars PROVE WindowInv'
    OBVIOUS
<1>1. CASE Appear
      BY <1>1, AppearKeeps
<1>2. CASE UNCHANGED <<upstream, checkpoint, pull, landed>>
      BY <1>2 DEF WindowInv, WindowTypes
<1>3. CASE DeadTenureLapses \/ TenureLapses \/ UNCHANGED windowVars
      BY <1>2, <1>3 DEF DeadTenureLapses, TenureLapses, windowVars
<1>4. ASSUME NEW w \in Pullers, PullStep(w) PROVE WindowInv'
      <2>1. CASE FetchWindow(w)
            BY <2>1, FetchKeeps
      <2>2. CASE StageWindow(w)
            BY <2>2, StageKeeps
      <2>3. CASE StoreWindow(w)
            BY <2>3, StoreKeeps
      <2>4. CASE FinishWindow(w)
            BY <2>4, RestKeeps DEF FinishWindow, Abandon
      <2> QED BY <1>4, <2>1, <2>2, <2>3, <2>4 DEF PullStep
<1>5. ASSUME NEW w \in Pullers, PullFails(w) \/ PullerDies(w) PROVE WindowInv'
      BY <1>5, RestKeeps DEF PullFails, PullerDies, Abandon
<1> QED BY <1>1, <1>3, <1>4, <1>5, ClaimWindowKeeps DEF WindowsNext

\* It holds at first.
LEMMA WindowFirst == WindowsInit => WindowInv
<1> SUFFICES ASSUME WindowsInit PROVE WindowInv
    OBVIOUS
<1>1. upstream = {} /\ checkpoint.anchor = 0 /\ checkpoint.offset = 0
      BY DEF WindowsInit
<1>2. WindowTypes
      BY DEF WindowsInit, WindowTypes, Pulls
<1>3. Numbered(upstream)
      BY <1>1, FS_EmptySet DEF Numbered
<1>4. Reached(upstream, 0, 0) /\ Behind(upstream, landed, 0, 0)
      <2>1. Cardinality(Seen(upstream, 0)) \in Nat
            BY <1>3, PlacesCount
      <2> QED BY <1>1, <2>1 DEF Reached, Behind
<1>5. \A w \in Pullers : PullOk(upstream, landed, pull[w])
      BY DEF WindowsInit, PullOk, Resting
<1> QED BY <1>1, <1>2, <1>3, <1>4, <1>5 DEF WindowInv

(* An interrupted run resumes "rather than restarting the whole backfill   *)
(* or silently skipping the gap" (langfuse-importer.ts): every trace       *)
(* before the stored position has landed, for any number of runs, pages    *)
(* and traces, and however runs were interrupted, overlapped or took over. *)
THEOREM ImportSkipsNothing == WindowsSpec => []NothingPassed
<1>1. WindowInv => NothingPassed
      BY RankIsPlace DEF WindowInv, Behind, NothingPassed
<1> QED BY <1>1, WindowFirst, WindowStep, PTL DEF WindowsSpec

-----------------------------------------------------------------------------
\* Places in a set of keys, newest first.

\* A nonempty finite set of numbers has a least.
LEMMA LeastOf ==
    ASSUME NEW S \in SUBSET Nat, IsFiniteSet(S), S # {}
    PROVE  Min(S) \in S /\ \A y \in S : Min(S) <= y
<1> DEFINE Least(T) == \E x \in T : \A y \in T : x <= y
           F == {T \in SUBSET S : T # {} /\ ~Least(T)}
<1>1. ASSUME F # {} PROVE FALSE
      <2>1. PICK T \in F : \A U \in F : U \subseteq T => U = T
            <3>1. FamilyOf(F, S)
                  BY <1>1 DEF FamilyOf
            <3> HIDE DEF F
            <3>2. HasSmallest(F)
                  BY ONLY <3>1, IsFiniteSet(S), SmallestMember
            <3> QED BY <3>2 DEF HasSmallest
      <2>2. PICK x \in T : x \in Nat
            OBVIOUS
      <2>3. \A y \in T : y \in Nat
            OBVIOUS
      <2>4. T \ {x} \notin F
            BY <2>1, <2>2
      <2>5. CASE T \ {x} = {}
            <3>1. \A y \in T : y = x
                  BY <2>5
            <3> QED BY <2>1, <2>2, <3>1
      <2>6. CASE Least(T \ {x})
            <3>1. PICK z \in T \ {x} : \A y \in T \ {x} : z <= y
                  BY <2>6
            <3>2. (IF z <= x THEN z ELSE x) \in T /\ \A y \in T : (IF z <= x THEN z ELSE x) <= y
                  BY ONLY <2>2, <2>3, <3>1
            <3> QED BY <2>1, <3>2
      <2> QED BY <2>4, <2>5, <2>6
<1>2. Least(S)
      BY <1>1
<1> QED BY <1>2 DEF Min

\* How many of S are newer than s.
Above(S, s) == {q \in S : q > s}

\* The newer a key, the fewer are newer than it.
LEMMA AboveIs ==
    ASSUME NEW S \in SUBSET Nat, IsFiniteSet(S)
    PROVE  /\ \A s \in Nat : IsFiniteSet(Above(S, s)) /\ Cardinality(Above(S, s)) \in Nat
           /\ \A s \in S : Cardinality(Above(S, s)) < Cardinality(S)
           /\ \A s \in S, t \in S :
                 s < t => Cardinality(Above(S, t)) < Cardinality(Above(S, s))
<1>1. ASSUME NEW s \in Nat PROVE IsFiniteSet(Above(S, s)) /\ Cardinality(Above(S, s)) \in Nat
      <2>1. Above(S, s) \in SUBSET S
            BY DEF Above
      <2> QED BY <2>1, FS_Subset, FS_CardinalityType
<1>2. Cardinality(S) \in Nat
      BY FS_CardinalityType
<1>3. ASSUME NEW T \in SUBSET S, NEW U \in SUBSET T, NEW t \in T, t \notin U
      PROVE  Cardinality(U) < Cardinality(T)
      <2>1. IsFiniteSet(T)
            BY FS_Subset
      <2>2. IsFiniteSet(U) /\ Cardinality(U) <= Cardinality(T) /\ Cardinality(U) # Cardinality(T)
            BY <2>1, <1>3, FS_Subset
      <2>3. Cardinality(T) \in Nat /\ Cardinality(U) \in Nat
            BY <2>1, <2>2, FS_CardinalityType
      <2> QED BY ONLY <2>2, <2>3
<1>4. ASSUME NEW s \in S PROVE Cardinality(Above(S, s)) < Cardinality(S)
      <2>1. Above(S, s) \in SUBSET S /\ s \notin Above(S, s) /\ S \in SUBSET S
            BY DEF Above
      <2> HIDE DEF Above
      <2> QED BY <2>1, <1>3
<1>5. ASSUME NEW s \in S, NEW t \in S, s < t
      PROVE  Cardinality(Above(S, t)) < Cardinality(Above(S, s))
      <2>0. s \in Nat /\ t \in Nat /\ \A q \in S : q \in Nat
            OBVIOUS
      <2>1. ASSUME NEW q \in S, q > t PROVE q > s
            BY ONLY <1>5, <2>0, <2>1
      <2>2. /\ Above(S, s) \in SUBSET S /\ Above(S, t) \in SUBSET Above(S, s)
            BY <2>1 DEF Above
      <2>3. t > s /\ ~(t > t)
            BY ONLY <1>5, <2>0
      <2>4. t \in Above(S, s) /\ t \notin Above(S, t)
            BY <2>3 DEF Above
      <2> QED BY <2>2, <2>4, <1>3
<1> QED BY <1>1, <1>4, <1>5

\* Every place is that of some key.
LEMMA PlacesTaken ==
    ASSUME NEW S \in SUBSET Nat, IsFiniteSet(S), NEW i \in 1 .. Cardinality(S)
    PROVE  \E s \in S : Cardinality(Above(S, s)) = i - 1
<1> DEFINE n == Cardinality(S)
           f == [s \in S |-> Cardinality(Above(S, s)) + 1]
<1>1. n \in Nat
      BY FS_CardinalityType
<1>2. \A s \in S : Cardinality(Above(S, s)) \in Nat /\ Cardinality(Above(S, s)) < n
      BY AboveIs
<1>3. \A s \in S, t \in S : s < t => Cardinality(Above(S, t)) < Cardinality(Above(S, s))
      BY AboveIs
<1> HIDE DEF n
<1>4. f \in [S -> 1 .. n]
      BY <1>1, <1>2
<1>5. \A s, t \in S : f[s] = f[t] => s = t
      <2> SUFFICES ASSUME NEW s \in S, NEW t \in S, s < t PROVE f[s] # f[t]
          OBVIOUS
      <2> QED BY <1>2, <1>3
<1>6. f \in Injection(S, 1 .. n)
      BY <1>4, <1>5 DEF Injection, IsInjective
<1>7. IsFiniteSet(1 .. n) /\ Cardinality(1 .. n) = n
      BY <1>1, FS_Interval
<1>8. f \in Surjection(S, 1 .. n)
      BY <1>6, <1>7, FS_Injection DEF n
<1>9. PICK s \in S : f[s] = i
      BY <1>8 DEF Surjection, n
<1> QED BY <1>2, <1>9

-----------------------------------------------------------------------------
\* The environment registry.
\* What a name's entry, what is found of a name, and the states of a chunk are.
EntryTypes == [first : Nat, last : Nat, hidden : BOOLEAN, recent : BOOLEAN]
StatTypes == [name : Names, first : Nat \ {0}, last : Nat \ {0}]

ChunkTypes ==
    [pc : {"idle", "scan", "checkpoint", "finalize", "stats", "swap"}, started : Nat,
     cursor : Nat, candidates : Seq(Names), current : [Names -> EntryTypes],
       stats : SUBSET StatTypes]

EnvTypes ==
    /\ traces \in [Slots -> Names \cup {0}] /\ unobserved \subseteq Slots \X Names
    /\ registry \in [Names -> EntryTypes]
    /\ overflow \in [flag : BOOLEAN, recent : BOOLEAN]
    /\ rebuild \in [started : Nat, cursor : Nat, candidates : Seq(Names), due : BOOLEAN]
    /\ locked \in Replicas \cup {Nobody}
    /\ chunk \in [Replicas -> ChunkTypes]
    /\ counts \in [rebuilds : Nat, writes : Nat, lapses : Nat]

\* Its writer is done with the trace of this key.
Settled(s) == traces[s] # 0 /\ <<s, traces[s]>> \notin unobserved

\* Somebody observed the name since the rebuild began, or a name there was no room for.
SeenSince(n) == registry[n].recent = TRUE \/ overflow.recent = TRUE

\* A scan down to the cursor has found the names of all that was settled there when
\* it began: what it has not found was observed since.
Scanned(from, candidates) ==
    \A s \in Slots : Settled(s) /\ s >= from =>
        \/ traces[s] \in Range(candidates)
        \/ Len(candidates) > Cap
        \/ SeenSince(traces[s])

\* The spans of the names, exact or wider.
OneOfEach(stats) == \A e, x \in stats : e.name = x.name => e = x
Spanned(s, n, stats) == \E e \in stats : e.name = n /\ e.first <= s /\ s <= e.last

\* The rebuilds have numbers: the one that begins next has a number of its own.
RebuildsNumbered ==
    /\ rebuild.started <= counts.rebuilds
    /\ \A r \in Replicas : chunk[r].started <= counts.rebuilds
    /\ rebuild.started = 0 /\ rebuild.due
         => \A r \in Replicas : chunk[r].started < counts.rebuilds
    /\ rebuild.started = 0 => rebuild.cursor = Beginning

\* Under the lock, the rebuild and the list are those that the swap began with.
Swapping(r) == chunk[r].pc \in {"stats", "swap"}
LockedList ==
    \A r \in Replicas : Swapping(r) => /\ locked = r /\ Claims(r)
                                       /\ chunk[r].current = registry

ScanOf(r) ==
    /\ chunk[r].pc \in {"scan", "checkpoint"} => Scanned(chunk[r].cursor, chunk[r].candidates)
    /\ chunk[r].pc \in {"finalize", "stats", "swap"} => Scanned(0, chunk[r].candidates)

StatsOf(r) ==
    chunk[r].pc = "swap" =>
        /\ OneOfEach(chunk[r].stats)
        /\ \A s \in Slots :
              /\ Settled(s)
              /\ traces[s] \in Range(Selected(chunk[r].candidates)) \cup RecentNames(r)
              => Spanned(s, traces[s], chunk[r].stats)

Scans ==
    /\ rebuild.started # 0 => Scanned(rebuild.cursor, rebuild.candidates)
    /\ \A r \in Replicas : Claims(r) => ScanOf(r) /\ StatsOf(r)

EnvInv == EnvTypes /\ RebuildsNumbered /\ LockedList /\ Scans /\ ListedWithItsSpan

\* Of two numbers, the lesser and the greater.
LEMMA OfTwo ==
    ASSUME NEW a \in Int, NEW b \in Int
    PROVE  /\ Min({a, b}) \in {a, b} /\ Min({a, b}) <= a /\ Min({a, b}) <= b
           /\ Max({a, b}) \in {a, b} /\ Max({a, b}) >= a /\ Max({a, b}) >= b
<1>1. \E x \in {a, b} : \A y \in {a, b} : x <= y
      OBVIOUS
<1>2. \E x \in {a, b} : \A y \in {a, b} : x >= y
      OBVIOUS
<1>3. Min({a, b}) \in {a, b} /\ \A y \in {a, b} : Min({a, b}) <= y
      BY <1>1 DEF Min
<1>4. Max({a, b}) \in {a, b} /\ \A y \in {a, b} : Max({a, b}) >= y
      BY <1>2 DEF Max
<1> QED BY <1>3, <1>4

\* Keys are numbers, of which there are finitely many.
LEMMA KeysFinite ==
    /\ Slots \subseteq Nat /\ IsFiniteSet(Slots) /\ \A s \in Slots : s >= 1 /\ s < Beginning
    /\ Beginning \in Nat
    /\ \A S \in SUBSET Slots : S \in SUBSET Nat /\ IsFiniteSet(S)
<1>1. Slots \in SUBSET Nat /\ IsFiniteSet(Slots) /\ Slots # {} /\ \A s \in Slots : s >= 1
      BY RegistryAssumption DEF RegistryAssumption
<1>2. Max(Slots) \in Slots /\ \A s \in Slots : Max(Slots) >= s
      BY <1>1, GreatestOf
<1>3. \A S \in SUBSET Slots : S \in SUBSET Nat /\ IsFiniteSet(S)
      BY <1>1, FS_Subset
<1>4. PICK m \in Nat : m = Max(Slots)
      BY <1>1, <1>2
<1>5. Beginning = m + 1
      BY <1>4 DEF Beginning
<1>6. \A s \in Slots : s \in Nat /\ s < m + 1
      BY <1>1, <1>2, <1>4
<1> QED BY <1>1, <1>3, <1>5, <1>6

\* What rows say of each name.
LEMMA MergedGives ==
    ASSUME NEW rows \in SUBSET (Slots \X Names)
    PROVE  /\ Merged(rows) \subseteq StatTypes
           /\ OneOfEach(Merged(rows))
           /\ \A s, n : <<s, n>> \in rows => Spanned(s, n, Merged(rows))
           /\ \A e \in Merged(rows) : \E s : <<s, e.name>> \in rows
<1> DEFINE keys(n) == {r[1] : r \in {q \in rows : q[2] = n}}
           entry(n) == [name |-> n, first |-> Min(keys(n)), last |-> Max(keys(n))]
<1>1. Merged(rows) = {entry(n) : n \in {r[2] : r \in rows}}
      BY DEF Merged
<1>2. ASSUME NEW s, NEW n, <<s, n>> \in rows
      PROVE  /\ n \in Names /\ keys(n) \in SUBSET Slots /\ s \in keys(n)
             /\ Min(keys(n)) \in Slots /\ Max(keys(n)) \in Slots
             /\ Min(keys(n)) <= s /\ s <= Max(keys(n))
      <2>1. n \in Names /\ keys(n) \in SUBSET Slots /\ s \in keys(n)
            BY <1>2
      <2> HIDE DEF keys
      <2>2. keys(n) \in SUBSET Nat /\ IsFiniteSet(keys(n)) /\ keys(n) # {}
            BY <2>1, KeysFinite
      <2>3. Min(keys(n)) \in keys(n) /\ \A y \in keys(n) : Min(keys(n)) <= y
            BY <2>2, LeastOf
      <2>4. Max(keys(n)) \in keys(n) /\ \A y \in keys(n) : Max(keys(n)) >= y
            BY <2>2, GreatestOf
      <2> QED BY <2>1, <2>2, <2>3, <2>4
<1>3. \A r \in rows : r = <<r[1], r[2]>>
      OBVIOUS
<1> HIDE DEF keys
<1>4. ASSUME NEW n \in {r[2] : r \in rows}
      PROVE  /\ \E s : <<s, n>> \in rows
             /\ entry(n) \in StatTypes /\ entry(n).name = n
      <2>1. PICK s : <<s, n>> \in rows
            BY <1>3
      <2>2. n \in Names /\ Min(keys(n)) \in Slots /\ Max(keys(n)) \in Slots
            BY <2>1, <1>2
      <2>3. Slots \subseteq Nat \ {0}
            BY RegistryAssumption DEF RegistryAssumption
      <2> QED BY <2>1, <2>2, <2>3 DEF StatTypes
<1>5. ASSUME NEW s, NEW n, <<s, n>> \in rows PROVE Spanned(s, n, Merged(rows))
      <2>1. n \in {r[2] : r \in rows}
            BY <1>5
      <2>2. entry(n) \in Merged(rows)
            BY <1>1, <2>1
      <2> QED BY <1>2, <1>5, <2>2 DEF Spanned
<1>6. OneOfEach(Merged(rows))
      BY <1>1, <1>4 DEF OneOfEach
<1> QED BY <1>1, <1>4, <1>5, <1>6

\* A page is a first part of what is left, newest first.
LeftBelow(from) == {s \in Slots : s < from /\ traces[s] # 0}
FirstPart(newest, below) ==
    /\ newest \subseteq below /\ IsFiniteSet(newest) /\ Cardinality(newest) \in Nat
    /\ Cardinality(newest) < ScanSize => newest = below
    /\ newest # {} => Min(newest) \in newest /\ \A s \in below : s >= Min(newest) => s \in newest

\* A page is a first part of what is left: all of it, if it is not full.
LEMMA PageIs ==
    ASSUME traces \in [Slots -> Names \cup {0}], NEW from \in Nat
    PROVE  FirstPart(Page(from), LeftBelow(from))
<1>a. PICK below, newest : below = LeftBelow(from) /\ newest = Page(from)
      OBVIOUS
<1>1. newest = {s \in below : Cardinality(Above(below, s)) < ScanSize}
      BY <1>a DEF Page, Above, LeftBelow
<1>2. below \in SUBSET Slots /\ below \in SUBSET Nat /\ IsFiniteSet(below)
      <2>1. below \in SUBSET Slots
            BY <1>a DEF LeftBelow
      <2> QED BY <2>1, KeysFinite
<1>3. ScanSize \in Nat \ {0}
      BY RegistryAssumption DEF RegistryAssumption
<1>4. /\ \A s \in below : IsFiniteSet(Above(below, s)) /\ Cardinality(Above(below, s)) \in Nat
      /\ \A s, t \in below : s < t => Cardinality(Above(below, t)) < Cardinality(Above(below, s))
      BY <1>2, AboveIs
<1>5. newest \subseteq below /\ newest \in SUBSET Nat /\ IsFiniteSet(newest)
        /\ Cardinality(newest) \in Nat
      <2>1. newest \in SUBSET below
            BY <1>1
      <2> QED BY <1>2, <2>1, FS_Subset, FS_CardinalityType
<1>6. ASSUME Cardinality(newest) < ScanSize, newest # below PROVE FALSE
      <2> DEFINE rest == below \ newest
      <2>1. rest \in SUBSET Nat /\ IsFiniteSet(rest) /\ rest # {}
            <3>1. rest \in SUBSET below
                  OBVIOUS
            <3> QED BY <1>2, <1>5, <1>6, <3>1, FS_Subset
      <2>2. Max(rest) \in rest /\ \A y \in rest : Max(rest) >= y
            <3> HIDE DEF rest
            <3> QED BY <2>1, GreatestOf
      <2>3. PICK g \in rest : \A y \in rest : g >= y
            BY <2>2
      <2>4. Above(below, g) \in SUBSET newest
            <3> SUFFICES ASSUME NEW q \in below, q > g, q \notin newest PROVE FALSE
                BY DEF Above
            <3>1. q \in rest /\ q \in Nat /\ g \in Nat
                  BY <1>2, <2>1
            <3> QED BY <2>3, <3>1
      <2>5. Cardinality(Above(below, g)) <= Cardinality(newest)
            BY <1>5, <2>4, FS_Subset
      <2>6. g \in below /\ ~(Cardinality(Above(below, g)) < ScanSize)
            BY <1>1, <2>3
      <2> QED BY <1>3, <1>4, <1>5, <1>6, <2>5, <2>6
<1>7. ASSUME newest # {}
      PROVE  Min(newest) \in newest /\ \A s \in below : s >= Min(newest) => s \in newest
      <2>1. Min(newest) \in newest
            BY <1>5, <1>7, LeastOf
      <2>2. PICK q \in newest : q = Min(newest)
            BY <2>1
      <2>3. ASSUME NEW s \in below, s >= q PROVE s \in newest
            <3>1. q \in below /\ q \in Nat /\ s \in Nat
                  BY <1>2, <1>5
            <3>2. CASE s = q
                  BY <3>2
            <3>3. CASE q < s
                  BY <1>1, <1>3, <1>4, <3>1, <3>3
            <3> QED BY <2>3, <3>1, <3>2, <3>3
      <2> QED BY <2>1, <2>2, <2>3
<1> QED BY <1>a, <1>5, <1>6, <1>7 DEF FirstPart

\* A page adds the names that the list has not, up to one more than the cap.
LEMMA ExtendedIs ==
    ASSUME traces \in [Slots -> Names \cup {0}], NEW cand \in Seq(Names),
           NEW newest \in SUBSET Slots, \A s \in newest : traces[s] # 0,
           NEW found, found = Extended(cand, newest)
    PROVE  /\ found \in Seq(Names) /\ Len(found) >= Len(cand)
           /\ \A n \in Range(cand) : n \in Range(found)
           /\ \A s \in newest : traces[s] \in Range(found) \/ Len(found) > Cap
<1> DEFINE first == {s \in newest : /\ traces[s] \notin Range(cand)
                                  /\ \A q \in newest : traces[q] = traces[s] => q <= s}
           nth(i) == CHOOSE s \in first : Cardinality({q \in first : q > s}) = i - 1
           added == Min({Cardinality(first), Cap + 1 - Len(cand)})
           more == [i \in 1 .. added |-> traces[nth(i)]]
<1>1. found = cand \o more
      BY DEF Extended
<1>2. first \in SUBSET newest /\ first \in SUBSET Nat /\ IsFiniteSet(first)
      <2>1. first \in SUBSET newest /\ first \in SUBSET Slots
            OBVIOUS
      <2> HIDE DEF first
      <2> QED BY <2>1, KeysFinite
<1>3. \A s \in newest : traces[s] \in Names
      OBVIOUS
<1>n. Cardinality(first) \in Nat
      <2> HIDE DEF first
      <2> QED BY <1>2, FS_CardinalityType
<1>m. PICK n \in Nat : n = Cardinality(first)
      BY <1>n
<1>4. /\ added \in Int /\ added <= n /\ added <= Cap + 1 - Len(cand)
      /\ added = n \/ added = Cap + 1 - Len(cand)
      <2>1. Cap + 1 - Len(cand) \in Int
            BY RegistryAssumption DEF RegistryAssumption
      <2>2. PICK room \in Int : room = Cap + 1 - Len(cand)
            BY <2>1
      <2>3. added = Min({n, room})
            BY <1>m, <2>2
      <2> HIDE DEF added
      <2>4. Min({n, room}) \in {n, room} /\ Min({n, room}) <= n /\ Min({n, room}) <= room
            BY ONLY n \in Nat, room \in Int, OfTwo
      <2>5. added \in Int /\ (added = n \/ added = room) /\ added <= n /\ added <= room
            BY ONLY <2>3, <2>4, n \in Nat, room \in Int
      <2> QED BY ONLY <2>2, <2>5
<1>5. ASSUME NEW i \in 1 .. n
      PROVE  /\ nth(i) \in first /\ Cardinality(Above(first, nth(i))) = i - 1
             /\ \A s \in first : Cardinality(Above(first, s)) = i - 1 => s = nth(i)
      <2> HIDE DEF first
      <2>1. \E s \in first : Cardinality(Above(first, s)) = i - 1
            BY <1>2, <1>m, PlacesTaken
      <2>2. nth(i) = CHOOSE s \in first : Cardinality(Above(first, s)) = i - 1
            BY DEF Above
      <2>3. nth(i) \in first /\ Cardinality(Above(first, nth(i))) = i - 1
            <3> HIDE DEF nth
            <3> QED BY <2>1, <2>2
      <2> HIDE DEF nth
      <2>4. ASSUME NEW s \in first, Cardinality(Above(first, s)) = i - 1 PROVE s = nth(i)
            <3>1. PICK t : t = nth(i)
                  OBVIOUS
            <3>2. t \in first /\ Cardinality(Above(first, t)) = i - 1
                  BY <2>3, <3>1
            <3>3. /\ s < t => Cardinality(Above(first, t)) < Cardinality(Above(first, s))
                  /\ t < s => Cardinality(Above(first, s)) < Cardinality(Above(first, t))
                  BY <1>2, <3>2, AboveIs
            <3>4. ~(s < t) /\ ~(t < s) /\ s \in Nat /\ t \in Nat
                  BY <1>2, <2>4, <3>2, <3>3
            <3> QED BY <3>1, <3>4
      <2> QED BY <2>3, <2>4
<1> HIDE DEF nth, added
<1>6. \A i \in 1 .. added : i \in 1 .. n
      BY <1>4
<1>7. \A i \in 1 .. added : traces[nth(i)] \in Names
      BY <1>2, <1>3, <1>5, <1>6
<1>8. PICK k \in Nat : /\ 1 .. added = 1 .. k /\ (added >= 0 => k = added)
      <2>1. CASE added >= 0
            BY <1>4, <2>1
      <2>2. CASE ~(added >= 0)
            <3>1. 1 .. added = 1 .. 0
                  BY <1>4, <2>2
            <3> QED BY <2>2, <3>1
      <2> QED BY <2>1, <2>2
<1>9. more \in Seq(Names) /\ Len(more) = k
      <2>1. more = [i \in 1 .. k |-> traces[nth(i)]]
            BY <1>8
      <2>2. \A i \in 1 .. k : traces[nth(i)] \in Names
            BY <1>7, <1>8
      <2> HIDE DEF more
      <2>3. more \in [1 .. k -> Names]
            BY <2>1, <2>2
      <2> QED BY <2>3
<1>10. \A i \in 1 .. k : more[i] = traces[nth(i)]
       BY <1>8
<1> HIDE DEF more
<1>11. /\ found \in Seq(Names) /\ Len(found) = Len(cand) + k
       /\ \A i \in 1 .. Len(cand) : found[i] = cand[i]
       /\ \A i \in 1 .. k : found[Len(cand) + i] = more[i]
       <2> HIDE DEF first
       <2>1. found = cand \o more /\ cand \in Seq(Names) /\ more \in Seq(Names) /\ Len(more) = k
             BY <1>1, <1>9
       <2>2. /\ found \in Seq(Names) /\ Len(found) = Len(cand) + Len(more)
             /\ \A i \in 1 .. Len(cand) + Len(more) :
                    found[i] = IF i <= Len(cand) THEN cand[i] ELSE more[i - Len(cand)]
             BY ONLY <2>1, ConcatProperties
       <2>3. Len(cand) \in Nat /\ k \in Nat
             BY <2>1
       <2> QED BY ONLY <2>1, <2>2, <2>3
<1>12. \A i \in 1 .. Len(found) : found[i] \in Range(found)
       BY <1>11 DEF Range
<1>13. ASSUME NEW name \in Range(cand) PROVE name \in Range(found)
       <2>1. PICK i \in 1 .. Len(cand) : name = cand[i]
             BY DEF Range
       <2>2. i \in 1 .. Len(found) /\ found[i] = name
             BY <1>11, <2>1
       <2> QED BY <1>12, <2>2
<1>14. ASSUME NEW s \in newest, traces[s] \notin Range(found), ~(Len(found) > Cap)
       PROVE  FALSE
       <2> DEFINE same == {q \in newest : traces[q] = traces[s]}
       <2>1. same \in SUBSET Nat /\ IsFiniteSet(same) /\ same # {}
             <3>1. same \in SUBSET Slots /\ s \in same
                   OBVIOUS
             <3> HIDE DEF same
             <3> QED BY <3>1, KeysFinite
       <2>2. Max(same) \in same /\ \A y \in same : Max(same) >= y
             <3> HIDE DEF same
             <3> QED BY <2>1, GreatestOf
       <2>3. PICK g \in same : \A y \in same : y <= g
             <3>1. \A y \in same : y \in Nat
                   BY <2>1
             <3> HIDE DEF same
             <3> QED BY <2>2, <3>1
       <2>4. g \in first
             BY <1>13, <1>14, <2>3
       <2>5. PICK i : i = Cardinality(Above(first, g)) + 1
             OBVIOUS
       <2>6. i \in 1 .. n /\ Cardinality(Above(first, g)) = i - 1
             <3>1. g \in Nat
                   BY <1>2, <2>4
             <3>2. Cardinality(Above(first, g)) \in Nat /\ Cardinality(Above(first, g)) < n
                   <4> HIDE DEF first
                   <4> QED BY <1>2, <1>m, <2>4, <3>1, AboveIs
             <3> QED BY <2>5, <3>2
       <2>7. g = nth(i)
             <3> HIDE DEF first
             <3> QED BY <1>5, <2>4, <2>6
       <2>8. CASE i \in 1 .. k
             <3>1. Len(cand) + i \in 1 .. Len(found) /\ found[Len(cand) + i] = traces[g]
                   BY <1>10, <1>11, <2>7, <2>8
             <3>2. traces[g] = traces[s]
                   BY <2>3
             <3> QED BY <1>12, <1>14, <3>1, <3>2
       <2>9. CASE ~(i \in 1 .. k)
             <3>1. Cap \in Nat /\ Len(cand) \in Nat
                   BY RegistryAssumption DEF RegistryAssumption
             <3>2. added # n
                   BY <1>8, <2>6, <2>9
             <3>3. added = Cap + 1 - Len(cand)
                   BY <1>4, <3>2
             <3>4. Len(found) > Cap
                   BY <1>8, <1>11, <3>1, <3>3
             <3> QED BY <1>14, <3>4
       <2> QED BY <2>8, <2>9
<1>15. Len(found) >= Len(cand)
       BY <1>11
<1> QED BY <1>11, <1>13, <1>14, <1>15

-----------------------------------------------------------------------------
\* The invariant.

\* The chunk of r becomes c.
Becomes(r, c) == /\ chunk' \in [Replicas -> ChunkTypes] /\ chunk'[r] = c
                 /\ \A x \in Replicas : x # r => chunk'[x] = chunk[x]

\* One chunk changes.
LEMMA ChunkBecomes ==
    ASSUME chunk \in [Replicas -> ChunkTypes], NEW r \in Replicas, NEW c \in ChunkTypes,
           chunk' = [chunk EXCEPT ![r] = c]
    PROVE  Becomes(r, c)
BY DEF Becomes

\* What was scanned stays so, if whatever is settled now was, or was seen since.
LEMMA ScannedStays ==
    ASSUME \A s \in Slots : Settled(s)' =>
              \/ Settled(s) /\ traces'[s] = traces[s]
                   /\ (SeenSince(traces[s]) => SeenSince(traces[s])')
              \/ SeenSince(traces[s])'
    PROVE  \A from, cand : Scanned(from, cand) => Scanned(from, cand)'
BY DEF Scanned

\* The same, and what the statistics say, when nothing of the traces and the list changes.
LEMMA AllStays ==
    ASSUME UNCHANGED <<traces, unobserved, registry, overflow>>
    PROVE  /\ \A from, cand : Scanned(from, cand)' <=> Scanned(from, cand)
           /\ ListedWithItsSpan' <=> ListedWithItsSpan
           /\ \A s : Settled(s)' <=> Settled(s)
BY DEF Scanned, Settled, SeenSince, ListedWithItsSpan, Listed

\* A chunk that stays as it was keeps its part of the invariant.
LEMMA ChunkKeeps ==
    ASSUME NEW r \in Replicas, chunk'[r] = chunk[r],
           \A from, cand : Scanned(from, cand) => Scanned(from, cand)',
           \A s \in Slots : Settled(s)' => (Settled(s) /\ traces'[s] = traces[s]) \/ ~Swapping(r)
    PROVE  /\ ScanOf(r) => ScanOf(r)'
           /\ StatsOf(r) => StatsOf(r)'
<1>1. ScanOf(r) => ScanOf(r)'
      BY DEF ScanOf
<1>2. ASSUME StatsOf(r) PROVE StatsOf(r)'
      <2> DEFINE Named(s) == \/ traces'[s] \in Range(Selected(chunk'[r].candidates))
                             \/ traces'[s] \in RecentNames(r)'
      <2>1. RecentNames(r)' = RecentNames(r)
            BY DEF RecentNames
      <2>2. ASSUME chunk'[r].pc = "swap"
            PROVE  /\ OneOfEach(chunk'[r].stats)
                   /\ \A s \in Slots : Settled(s)' /\ Named(s)
                        => Spanned(s, traces'[s], chunk'[r].stats)
            <3>1. Swapping(r)
                  BY <2>2 DEF Swapping
            <3> QED BY <1>2, <2>1, <2>2, <3>1 DEF StatsOf
      <2> QED BY <2>2 DEF StatsOf
<1> QED BY <1>1, <1>2

\* Nobody swaps while nobody has the lock.
LEMMA NobodySwaps ==
    ASSUME LockedList, locked = Nobody
    PROVE  \A r \in Replicas : ~Swapping(r)
BY RegistryAssumption DEF LockedList, RegistryAssumption

\* A row is written or removed: whatever is settled now was so before.
LEMMA WriteKeeps ==
    ASSUME EnvInv, NEW s \in Slots, NEW n \in Names \cup {0}, WriteTrace(s, n)
    PROVE  EnvInv'
<1>1. /\ UNCHANGED <<registry, overflow, rebuild, locked, chunk>>
      /\ traces' = [traces EXCEPT ![s] = n] /\ traces[s] # n
      /\ unobserved' = IF n = 0 THEN unobserved ELSE unobserved \cup {<<s, n>>}
      /\ counts' = [counts EXCEPT !.writes = counts.writes + 1]
      BY DEF WriteTrace, Count
<1>2. EnvTypes'
      <2>1. traces' \in [Slots -> Names \cup {0}] /\ unobserved' \subseteq Slots \X Names
            BY <1>1 DEF EnvInv, EnvTypes
      <2>2. counts' \in [rebuilds : Nat, writes : Nat, lapses : Nat]
              /\ counts'.rebuilds = counts.rebuilds
            BY <1>1 DEF EnvInv, EnvTypes
      <2> QED BY <1>1, <2>1, <2>2 DEF EnvInv, EnvTypes
<1>3. counts'.rebuilds = counts.rebuilds
      BY <1>1 DEF EnvInv, EnvTypes
<1>4. ASSUME NEW x \in Slots, Settled(x)' PROVE Settled(x) /\ traces'[x] = traces[x]
      <2>1. CASE x = s
            BY <1>1, <1>4, <2>1 DEF Settled, EnvInv, EnvTypes
      <2>2. CASE x # s
            BY <1>1, <1>4, <2>2 DEF Settled, EnvInv, EnvTypes
      <2> QED BY <2>1, <2>2
<1>5. \A x : SeenSince(x)' <=> SeenSince(x)
      BY <1>1 DEF SeenSince
<1>6. \A from, cand : Scanned(from, cand) => Scanned(from, cand)'
      <2>1. \A x \in Slots : Settled(x)' =>
              \/ Settled(x) /\ traces'[x] = traces[x]
                   /\ (SeenSince(traces[x]) => SeenSince(traces[x])')
              \/ SeenSince(traces[x])'
            BY <1>4, <1>5
      <2> QED BY ONLY <2>1, ScannedStays
<1>7. RebuildsNumbered' /\ LockedList'
      BY <1>1, <1>3 DEF EnvInv, RebuildsNumbered, LockedList, Swapping, Claims
<1>8. Scans'
      <2>1. \A r \in Replicas : (ScanOf(r) => ScanOf(r)') /\ (StatsOf(r) => StatsOf(r)')
            BY <1>1, <1>4, <1>6, ChunkKeeps
      <2>2. \A r \in Replicas : Claims(r)' <=> Claims(r)
            BY <1>1 DEF Claims
      <2> QED BY <1>1, <1>6, <2>1, <2>2 DEF EnvInv, Scans
<1>9. ListedWithItsSpan'
      <2> SUFFICES ASSUME NEW x \in Slots, traces'[x] # 0, <<x, traces'[x]>> \notin unobserved'
                   PROVE  \/ Listed(traces[x])' /\ registry'[traces'[x]].first <= x
                               /\ x <= registry'[traces'[x]].last
                          \/ overflow'.flag
          BY DEF ListedWithItsSpan
      <2>1. Settled(x) /\ traces'[x] = traces[x]
            BY <1>4 DEF Settled
      <2> QED BY <1>1, <2>1 DEF EnvInv, ListedWithItsSpan, Listed, Settled
<1> QED BY <1>2, <1>7, <1>8, <1>9 DEF EnvInv

\* The user hides or shows a name: nobody is swapping.
LEMMA HiddenKeeps ==
    ASSUME EnvInv, NEW n \in Names, NEW hidden \in BOOLEAN, SetHidden(n, hidden)
    PROVE  EnvInv'
<1>1. /\ UNCHANGED <<traces, unobserved, overflow, rebuild, locked, chunk, counts>>
      /\ registry' = [registry EXCEPT ![n].hidden = hidden] /\ locked = Nobody
      BY DEF SetHidden
<1>2. registry' \in [Names -> EntryTypes]
      BY <1>1 DEF EnvInv, EnvTypes, EntryTypes
<1>3. \A x \in Names : /\ registry'[x].first = registry[x].first
                       /\ registry'[x].last = registry[x].last
                       /\ registry'[x].recent = registry[x].recent
      BY <1>1 DEF EnvInv, EnvTypes, EntryTypes
<1>4. EnvTypes'
      BY <1>1, <1>2 DEF EnvInv, EnvTypes
<1>5. \A x \in Slots : Settled(x) => traces[x] \in Names
      BY DEF EnvInv, EnvTypes, Settled
<1>6. \A x : Settled(x)' <=> Settled(x)
      BY <1>1 DEF Settled
<1>7. \A from, cand : Scanned(from, cand) => Scanned(from, cand)'
      <2>1. \A x \in Slots : Settled(x)' =>
               Settled(x) /\ traces'[x] = traces[x]
                 /\ (SeenSince(traces[x]) => SeenSince(traces[x])')
            BY <1>1, <1>3, <1>5, <1>6 DEF SeenSince
      <2> QED BY <2>1, ScannedStays
<1>8. \A r \in Replicas : ~Swapping(r)
      BY <1>1, NobodySwaps DEF EnvInv
<1>9. RebuildsNumbered' /\ LockedList'
      BY <1>1, <1>8 DEF EnvInv, RebuildsNumbered, LockedList, Swapping
<1>10. Scans'
      <2>1. \A r \in Replicas : (ScanOf(r) => ScanOf(r)') /\ (StatsOf(r) => StatsOf(r)')
            BY <1>1, <1>7, <1>8, ChunkKeeps
      <2>2. \A r \in Replicas : Claims(r)' <=> Claims(r)
            BY <1>1 DEF Claims
      <2> QED BY <1>1, <1>7, <2>1, <2>2 DEF EnvInv, Scans
<1>11. ListedWithItsSpan'
      BY <1>1, <1>3, <1>5 DEF EnvInv, ListedWithItsSpan, Listed, Settled
<1> QED BY <1>4, <1>9, <1>10, <1>11 DEF EnvInv

\* The rebuild that comes due has a number that no chunk has.
LEMMA DueKeeps ==
    ASSUME EnvInv, RebuildComesDue
    PROVE  EnvInv'
<1>1. /\ UNCHANGED <<traces, unobserved, registry, overflow, locked, chunk>>
      /\ ~rebuild.due /\ rebuild' = [rebuild EXCEPT !.due = TRUE]
      BY DEF RebuildComesDue
<1>2. /\ rebuild.started = 0 => counts' = [counts EXCEPT !.rebuilds = counts.rebuilds + 1]
      /\ rebuild.started # 0
           => counts' = counts \/ counts' = [counts EXCEPT !.lapses = counts.lapses + 1]
      <2>1. CASE rebuild.started = 0
            BY <2>1 DEF RebuildComesDue, Count
      <2>2. CASE rebuild.started # 0
            <3>1. CASE \A r \in Replicas : chunk[r].pc = "idle"
                  BY <2>2, <3>1 DEF RebuildComesDue
            <3>2. CASE ~(\A r \in Replicas : chunk[r].pc = "idle")
                  BY <2>2, <3>2, Zenon DEF RebuildComesDue, Lapse, Count
            <3> QED BY <2>2, <3>1, <3>2
      <2> QED BY <2>1, <2>2
<1>t. /\ rebuild \in [started : Nat, cursor : Nat, candidates : Seq(Names), due : BOOLEAN]
      /\ counts \in [rebuilds : Nat, writes : Nat, lapses : Nat]
      BY DEF EnvInv, EnvTypes
<1>3. /\ rebuild' \in [started : Nat, cursor : Nat, candidates : Seq(Names), due : BOOLEAN]
      /\ rebuild'.started = rebuild.started /\ rebuild'.cursor = rebuild.cursor
      /\ rebuild'.candidates = rebuild.candidates
      BY <1>1, <1>t
<1>4. /\ counts' \in [rebuilds : Nat, writes : Nat, lapses : Nat]
      /\ rebuild.started = 0 => counts'.rebuilds = counts.rebuilds + 1
      /\ rebuild.started # 0 => counts'.rebuilds = counts.rebuilds
      BY <1>2, <1>t
<1>5. EnvTypes'
      BY <1>1, <1>3, <1>4 DEF EnvInv, EnvTypes
<1>6. RebuildsNumbered'
      <2>1. /\ counts.rebuilds \in Nat /\ rebuild.started \in Nat
            /\ \A r \in Replicas : chunk[r].started \in Nat
            BY DEF EnvInv, EnvTypes, ChunkTypes
      <2>2. /\ rebuild.started <= counts.rebuilds
            /\ \A r \in Replicas : chunk[r].started <= counts.rebuilds
            /\ rebuild.started = 0 => rebuild.cursor = Beginning
            BY DEF EnvInv, RebuildsNumbered
      <2>3. CASE rebuild.started = 0
            BY <1>1, <1>3, <1>4, <2>1, <2>2, <2>3 DEF RebuildsNumbered
      <2>4. CASE rebuild.started # 0
            BY <1>1, <1>3, <1>4, <2>1, <2>2, <2>4 DEF RebuildsNumbered
      <2> QED BY <2>3, <2>4
<1>7. \A r \in Replicas : Claims(r)' <=> Claims(r)
      BY <1>1, <1>3 DEF Claims
<1>8. LockedList'
      BY <1>1, <1>7 DEF EnvInv, LockedList, Swapping
<1>9. /\ \A from, cand : Scanned(from, cand)' <=> Scanned(from, cand)
      /\ ListedWithItsSpan' /\ \A s \in Slots : Settled(s)' <=> Settled(s)
      BY <1>1, AllStays DEF EnvInv
<1>10. Scans'
      <2>1. \A r \in Replicas : (ScanOf(r) => ScanOf(r)') /\ (StatsOf(r) => StatsOf(r)')
            BY <1>1, <1>9, ChunkKeeps
      <2> QED BY <1>3, <1>7, <1>9, <2>1 DEF EnvInv, Scans
<1> QED BY <1>5, <1>6, <1>8, <1>9, <1>10 DEF EnvInv

\* What other replicas' chunks keep, when the chunk of r becomes c and nothing of the
\* traces changes.
LEMMA OthersKeep ==
    ASSUME EnvInv, NEW r \in Replicas, NEW c, Becomes(r, c),
           UNCHANGED <<traces, unobserved>>,
           \A from, cand : Scanned(from, cand) => Scanned(from, cand)'
    PROVE  \A x \in Replicas : x # r /\ Claims(x) => ScanOf(x)' /\ StatsOf(x)'
<1> SUFFICES ASSUME NEW x \in Replicas, x # r, Claims(x) PROVE ScanOf(x)' /\ StatsOf(x)'
    OBVIOUS
<1>1. chunk'[x] = chunk[x]
      BY DEF Becomes
<1>2. \A s \in Slots : Settled(s)' => Settled(s) /\ traces'[s] = traces[s]
      BY DEF Settled
<1>3. ScanOf(x) /\ StatsOf(x)
      BY DEF EnvInv, Scans
<1> QED BY <1>1, <1>2, <1>3, ChunkKeeps

\* An idle chunk is one, of no rebuild.
LEMMA NoChunkIsChunk ==
    /\ NoChunk \in ChunkTypes /\ NoChunk.pc = "idle" /\ NoChunk.started = 0
    /\ NotListed \in EntryTypes
<1>1. NotListed \in EntryTypes
      BY DEF NotListed, EntryTypes
<1>2. <<>> \in Seq(Names) /\ Beginning \in Nat
      BY KeysFinite
<1>3. [n \in Names |-> NotListed] \in [Names -> EntryTypes]
      BY <1>1
<1> QED BY <1>1, <1>2, <1>3 DEF NoChunk, ChunkTypes

\* A replica claims the rebuild: a new one, or one that was begun.
LEMMA ClaimKeeps ==
    ASSUME EnvInv, NEW r \in Replicas, ClaimRebuild(r)
    PROVE  EnvInv'
<1> DEFINE started == IF rebuild.started = 0 THEN counts.rebuilds ELSE rebuild.started
<1>t. /\ rebuild \in [started : Nat, cursor : Nat, candidates : Seq(Names), due : BOOLEAN]
      /\ counts \in [rebuilds : Nat, writes : Nat, lapses : Nat]
      /\ registry \in [Names -> EntryTypes] /\ overflow \in [flag : BOOLEAN, recent : BOOLEAN]
      /\ chunk \in [Replicas -> ChunkTypes]
      BY DEF EnvInv, EnvTypes
<1>1. /\ UNCHANGED <<traces, unobserved, locked, counts>> /\ rebuild.due /\ chunk[r].pc = "idle"
      /\ rebuild' = [rebuild EXCEPT !.started = started, !.due = FALSE]
      /\ chunk' = [chunk EXCEPT ![r] = [NoChunk EXCEPT !.pc = "scan", !.started = started,
                        !.cursor = rebuild.cursor, !.candidates = rebuild.candidates]]
      /\ rebuild.started = 0 =>
            /\ registry' = [n \in Names |-> [registry[n] EXCEPT !.recent = FALSE]]
            /\ overflow' = [overflow EXCEPT !.recent = FALSE]
      /\ rebuild.started # 0 => registry' = registry /\ overflow' = overflow
      BY DEF ClaimRebuild
<1>s. started \in Nat
      BY <1>t
<1> HIDE DEF started
<1>2. PICK c : c = [NoChunk EXCEPT !.pc = "scan", !.started = started,
                        !.cursor = rebuild.cursor, !.candidates = rebuild.candidates]
      OBVIOUS
<1>3. /\ c \in ChunkTypes /\ c.pc = "scan" /\ c.started = started
      /\ c.cursor = rebuild.cursor /\ c.candidates = rebuild.candidates
      BY <1>2, <1>t, <1>s, NoChunkIsChunk DEF ChunkTypes
<1>4. Becomes(r, c)
      BY <1>1, <1>2, <1>3, <1>t, ChunkBecomes
<1>5. /\ rebuild' \in [started : Nat, cursor : Nat, candidates : Seq(Names), due : BOOLEAN]
      /\ rebuild'.started = started /\ rebuild'.cursor = rebuild.cursor
      /\ rebuild'.candidates = rebuild.candidates /\ rebuild'.due = FALSE
      BY <1>1, <1>t, <1>s
<1>6. ~Swapping(r) /\ ~Swapping(r)'
      BY <1>1, <1>3, <1>4 DEF Becomes, Swapping
<1>7. CASE rebuild.started = 0
      <2>1. started = counts.rebuilds
            BY <1>7 DEF started
      <2>2. /\ registry' \in [Names -> EntryTypes]
                 /\ overflow' \in [flag : BOOLEAN, recent : BOOLEAN]
            /\ overflow'.flag = overflow.flag
            /\ \A n \in Names : registry'[n].first = registry[n].first
                 /\ registry'[n].last = registry[n].last
            <3>1. /\ overflow' \in [flag : BOOLEAN, recent : BOOLEAN]
                       /\ overflow'.flag = overflow.flag
                  BY <1>1, <1>7, <1>t
            <3>2. ASSUME NEW n \in Names
                  PROVE  /\ [registry[n] EXCEPT !.recent = FALSE] \in EntryTypes
                         /\ [registry[n] EXCEPT !.recent = FALSE].first = registry[n].first
                         /\ [registry[n] EXCEPT !.recent = FALSE].last = registry[n].last
                  <4>1. registry[n] \in EntryTypes
                        BY <1>t
                  <4> QED BY <4>1 DEF EntryTypes
            <3>3. registry' = [n \in Names |-> [registry[n] EXCEPT !.recent = FALSE]]
                  BY <1>1, <1>7
            <3> QED BY <3>1, <3>2, <3>3
      <2>3. EnvTypes'
            BY <1>1, <1>4, <1>5, <2>2 DEF EnvInv, EnvTypes, Becomes
      <2>4. /\ \A x \in Replicas : chunk[x].started < counts.rebuilds /\ chunk[x].started \in Nat
            /\ rebuild.cursor = Beginning /\ counts.rebuilds \in Nat
            BY <1>1, <1>7, <1>t DEF EnvInv, RebuildsNumbered, ChunkTypes
      <2>5. counts.rebuilds # 0 /\ started # 0
            BY <2>1, <2>4
      <2>6. RebuildsNumbered'
            <3>1. \A x \in Replicas : chunk'[x].started <= counts.rebuilds
                  BY <1>3, <1>4, <2>1, <2>4 DEF Becomes
            <3> QED BY <1>1, <1>5, <2>1, <2>4, <2>5, <3>1 DEF RebuildsNumbered
      <2>7. \A x \in Replicas : ~Swapping(x)
            BY <1>7 DEF EnvInv, LockedList, Claims
      <2>8. \A x \in Replicas : ~Swapping(x)'
            BY <1>4, <1>6, <2>7 DEF Becomes, Swapping
      <2>9. \A x \in Replicas : x # r => ~Claims(x)'
            BY <1>4, <1>5, <2>1, <2>4 DEF Becomes, Claims
      <2>10. \A cand : Scanned(Beginning, cand)'
             <3>1. \A s \in Slots : ~(s >= Beginning)
                   BY KeysFinite
             <3> QED BY <3>1 DEF Scanned
      <2>11. ScanOf(r)' /\ StatsOf(r)'
             <3>1. chunk'[r].pc = "scan" /\ chunk'[r].cursor = Beginning
                   BY <1>3, <1>4, <2>4 DEF Becomes
             <3> QED BY <2>10, <3>1 DEF ScanOf, StatsOf
      <2>12. Scans'
             BY <1>5, <2>4, <2>9, <2>10, <2>11 DEF Scans
      <2>13. ListedWithItsSpan'
             <3>1. \A s \in Slots : traces[s] # 0 => traces[s] \in Names
                   BY DEF EnvInv, EnvTypes
             <3> QED BY <1>1, <2>2, <3>1 DEF EnvInv, ListedWithItsSpan, Listed
      <2>14. LockedList'
             BY <2>8 DEF LockedList
      <2> QED BY <2>3, <2>6, <2>12, <2>13, <2>14 DEF EnvInv
<1>8. CASE rebuild.started # 0
      <2>1. started = rebuild.started
            BY <1>8 DEF started
      <2>2. UNCHANGED <<registry, overflow>>
            BY <1>1, <1>8
      <2>3. EnvTypes'
            BY <1>1, <1>4, <1>5, <2>2 DEF EnvInv, EnvTypes, Becomes
      <2>4. RebuildsNumbered'
            <3>1. \A x \in Replicas : chunk'[x].started <= counts.rebuilds
                  BY <1>3, <1>4, <2>1 DEF Becomes, EnvInv, RebuildsNumbered
            <3> QED BY <1>1, <1>5, <1>8, <2>1, <3>1 DEF EnvInv, RebuildsNumbered
      <2>5. \A x \in Replicas : x # r => (Claims(x)' <=> Claims(x))
              /\ (Swapping(x)' <=> Swapping(x))
            BY <1>4, <1>5, <2>1 DEF Becomes, Claims, Swapping
      <2>6. LockedList'
            <3> SUFFICES ASSUME NEW x \in Replicas, Swapping(x)'
                         PROVE  locked' = x /\ Claims(x)' /\ chunk'[x].current = registry'
                BY DEF LockedList
            <3>1. x # r /\ Swapping(x) /\ Claims(x)' /\ Claims(x)
                  BY <1>6, <2>5 DEF EnvInv, LockedList
            <3> QED BY <1>1, <1>4, <2>2, <3>1 DEF EnvInv, LockedList, Becomes
      <2>7. /\ \A from, cand : Scanned(from, cand)' <=> Scanned(from, cand)
            /\ ListedWithItsSpan'
            BY <1>1, <2>2, AllStays DEF EnvInv
      <2>8. Scanned(rebuild.cursor, rebuild.candidates)
            BY <1>8 DEF EnvInv, Scans
      <2>9. \A x \in Replicas : x # r /\ Claims(x) => ScanOf(x)' /\ StatsOf(x)'
            BY <1>1, <1>4, <2>7, OthersKeep
      <2>10. ScanOf(r)' /\ StatsOf(r)'
             <3>1. /\ chunk'[r].pc = "scan" /\ chunk'[r].cursor = rebuild.cursor
                   /\ chunk'[r].candidates = rebuild.candidates
                   BY <1>3, <1>4 DEF Becomes
             <3> QED BY <2>7, <2>8, <3>1 DEF ScanOf, StatsOf
      <2>11. Scans'
             BY <1>5, <2>5, <2>7, <2>8, <2>9, <2>10 DEF Scans
      <2> QED BY <2>3, <2>4, <2>6, <2>7, <2>11 DEF EnvInv
<1> QED BY <1>7, <1>8

\* What a step of r's chunk has to show when neither the traces nor the list change.
Resumable(r, c) ==
    /\ rebuild' \in [started : Nat, cursor : Nat, candidates : Seq(Names), due : BOOLEAN]
    /\ rebuild'.started = rebuild.started
    /\ rebuild.started = 0 => rebuild' = rebuild
    /\ rebuild.started # 0 => Scanned(rebuild'.cursor, rebuild'.candidates)
    /\ c.started = chunk[r].started \/ c.started = 0

\* A step of a chunk that changes neither the traces nor the list keeps the invariant, if it
\* leaves the rebuild resumable and what it has found is right.
LEMMA ChunkStep ==
    ASSUME EnvInv, NEW r \in Replicas, NEW c \in ChunkTypes, Becomes(r, c),
           UNCHANGED <<traces, unobserved, registry, overflow>>,
           counts' \in [rebuilds : Nat, writes : Nat, lapses : Nat],
             counts'.rebuilds = counts.rebuilds,
           Resumable(r, c),
           locked' = locked \/ (locked \in {Nobody, r} /\ locked' \in {Nobody, r}),
           c.pc \in {"stats", "swap"} => locked' = r /\ Claims(r)' /\ c.current = registry,
           Claims(r)' => ScanOf(r)' /\ StatsOf(r)'
    PROVE  EnvInv'
<1>t. /\ counts \in [rebuilds : Nat, writes : Nat, lapses : Nat]
      /\ chunk \in [Replicas -> ChunkTypes]
      BY DEF EnvInv, EnvTypes
<1>r. /\ rebuild' \in [started : Nat, cursor : Nat, candidates : Seq(Names), due : BOOLEAN]
      /\ rebuild'.started = rebuild.started
      /\ rebuild.started = 0 => rebuild' = rebuild
      /\ rebuild.started # 0 => Scanned(rebuild'.cursor, rebuild'.candidates)
      /\ c.started = chunk[r].started \/ c.started = 0
      BY DEF Resumable
<1>1. EnvTypes'
      <2>1. locked' \in Replicas \cup {Nobody}
            BY DEF EnvInv, EnvTypes
      <2> QED BY <1>r, <2>1 DEF EnvInv, EnvTypes, Becomes
<1>2. RebuildsNumbered'
      <2>1. \A x \in Replicas : chunk[x].started \in Nat
            BY <1>t DEF ChunkTypes
      <2>2. \A x \in Replicas : chunk'[x].started = chunk[x].started \/ chunk'[x].started = 0
            BY <1>r DEF Becomes
      <2>3. counts.rebuilds \in Nat
            BY <1>t
      <2>4. \A x \in Replicas : chunk'[x].started <= chunk[x].started /\ chunk'[x].started \in Nat
            BY <2>1, <2>2
      <2>5. \A x \in Replicas : chunk'[x].started <= counts.rebuilds
            BY <2>1, <2>3, <2>4 DEF EnvInv, RebuildsNumbered
      <2>6. /\ rebuild.started <= counts.rebuilds
            /\ rebuild.started = 0 => rebuild.cursor = Beginning
            BY DEF EnvInv, RebuildsNumbered
      <2>7. ASSUME rebuild.started = 0, rebuild.due
            PROVE  \A x \in Replicas : chunk'[x].started < counts.rebuilds
            <3>1. \A x \in Replicas : chunk[x].started < counts.rebuilds
                  BY <2>7 DEF EnvInv, RebuildsNumbered
            <3> QED BY <2>1, <2>3, <2>4, <3>1
      <2> QED BY <1>r, <2>5, <2>6, <2>7 DEF RebuildsNumbered
<1>3. \A x \in Replicas : x # r => chunk'[x] = chunk[x] /\ (Claims(x)' <=> Claims(x))
      BY <1>r DEF Becomes, Claims
<1>4. LockedList'
      <2> SUFFICES ASSUME NEW x \in Replicas, Swapping(x)'
                   PROVE  locked' = x /\ Claims(x)' /\ chunk'[x].current = registry'
          BY DEF LockedList
      <2>1. CASE x = r
            BY <2>1 DEF Swapping, Becomes
      <2>2. CASE x # r
            <3>1. Swapping(x)
                  BY <1>3, <2>2 DEF Swapping
            <3>2. locked = x /\ Claims(x) /\ chunk[x].current = registry
                  BY <3>1 DEF EnvInv, LockedList
            <3>3. x # Nobody
                  BY RegistryAssumption DEF RegistryAssumption
            <3> QED BY <1>3, <2>2, <3>2, <3>3
      <2> QED BY <2>1, <2>2
<1>5. /\ \A from, cand : Scanned(from, cand)' <=> Scanned(from, cand)
      /\ ListedWithItsSpan'
      BY AllStays DEF EnvInv
<1>6. Scans'
      <2>1. \A from, cand : Scanned(from, cand) => Scanned(from, cand)'
            BY <1>5
      <2>2. \A x \in Replicas : x # r /\ Claims(x) => ScanOf(x)' /\ StatsOf(x)'
            BY <2>1, OthersKeep
      <2> QED BY <1>3, <1>5, <1>r, <2>2 DEF Scans
<1> QED BY <1>1, <1>2, <1>4, <1>5, <1>6 DEF EnvInv

\* The rebuild stays as it is.
LEMMA SameRebuild ==
    ASSUME EnvInv, NEW r, NEW c, rebuild' = rebuild, c.started = chunk[r].started \/ c.started = 0
    PROVE  Resumable(r, c)
BY DEF EnvInv, EnvTypes, Scans, Resumable

\* A page is scanned: what is settled there has its name found, or there are too many.
LEMMA ScanKeeps ==
    ASSUME EnvInv, NEW r \in Replicas, ScanPage(r)
    PROVE  EnvInv'
<1> DEFINE newest == Page(chunk[r].cursor)
           found == Extended(chunk[r].candidates, newest)
           complete == Len(found) > Cap \/ Cardinality(newest) < ScanSize
           below == LeftBelow(chunk[r].cursor)
<1>1. /\ chunk[r].pc = "scan"
      /\ chunk' = [chunk EXCEPT ![r].candidates = found,
                        ![r].pc = IF complete THEN "finalize" ELSE "checkpoint",
                        ![r].cursor = IF complete THEN @ ELSE Min(newest)]
      /\ UNCHANGED <<traces, unobserved, registry, overflow, rebuild, locked, counts>>
      BY DEF ScanPage
<1>t. /\ chunk \in [Replicas -> ChunkTypes] /\ traces \in [Slots -> Names \cup {0}]
      /\ chunk[r].cursor \in Nat /\ chunk[r].candidates \in Seq(Names)
      BY DEF EnvInv, EnvTypes, ChunkTypes
<1>2. /\ newest \subseteq below /\ IsFiniteSet(newest) /\ Cardinality(newest) \in Nat
      /\ Cardinality(newest) < ScanSize => newest = below
      /\ newest # {} => Min(newest) \in newest /\ \A s \in below : s >= Min(newest)
           => s \in newest
      BY <1>t, PageIs DEF FirstPart
<1>3. newest \in SUBSET Slots /\ \A s \in newest : traces[s] # 0
      BY <1>2 DEF LeftBelow
<1> HIDE DEF newest
<1>4. /\ found \in Seq(Names) /\ Len(found) >= Len(chunk[r].candidates)
      /\ \A n \in Range(chunk[r].candidates) : n \in Range(found)
      /\ \A s \in newest : traces[s] \in Range(found) \/ Len(found) > Cap
      BY <1>3, <1>t, ExtendedIs
<1> HIDE DEF found
<1>5. ASSUME ~complete PROVE Min(newest) \in newest /\ Min(newest) \in Nat
      <2>1. newest # {}
            <3> SUFFICES ASSUME newest = {} PROVE FALSE
                OBVIOUS
            <3>1. Cardinality(newest) = 0
                  BY FS_EmptySet
            <3> QED BY <1>5, <3>1, RegistryAssumption DEF RegistryAssumption
      <2> QED BY <1>2, <1>3, <2>1, KeysFinite
<1>6. PICK c : c = [chunk[r] EXCEPT !.candidates = found,
                        !.pc = IF complete THEN "finalize" ELSE "checkpoint",
                        !.cursor = IF complete THEN chunk[r].cursor ELSE Min(newest)]
      OBVIOUS
<1> HIDE DEF complete
<1>7. /\ c \in ChunkTypes /\ c.candidates = found /\ c.started = chunk[r].started
      /\ complete => c.pc = "finalize"
      /\ ~complete => c.pc = "checkpoint" /\ c.cursor = Min(newest)
      <2>1. chunk[r] \in ChunkTypes
            BY <1>t
      <2> QED BY <1>4, <1>5, <1>6, <2>1 DEF ChunkTypes
<1>8. Becomes(r, c)
      <2>1. chunk' = [chunk EXCEPT ![r] = c]
            BY <1>1, <1>6
      <2> QED BY <1>7, <1>t, <2>1, ChunkBecomes
<1>9. ASSUME Claims(r)
      PROVE  /\ complete => Scanned(0, found)
             /\ ~complete => Scanned(Min(newest), found)
      <2>1. Scanned(chunk[r].cursor, chunk[r].candidates)
            BY <1>1, <1>9 DEF EnvInv, Scans, ScanOf
      <2>2. Cap \in Nat /\ Len(chunk[r].candidates) \in Nat /\ Len(found) \in Nat
            BY <1>t, <1>4, RegistryAssumption DEF RegistryAssumption
      <2>3. ASSUME NEW s \in Slots, Settled(s), s >= chunk[r].cursor \/ s \in newest
            PROVE  traces[s] \in Range(found) \/ Len(found) > Cap \/ SeenSince(traces[s])
            BY <1>4, <2>1, <2>2, <2>3 DEF Scanned
      <2>4. \A s \in Slots : s \in Nat
            BY KeysFinite
      <2>5. ASSUME complete, NEW s \in Slots, Settled(s)
            PROVE  Len(found) > Cap \/ s >= chunk[r].cursor \/ s \in newest
            <3>1. Len(found) > Cap \/ newest = below
                  BY <1>2, <2>5 DEF complete
            <3> QED BY <1>t, <2>4, <2>5, <3>1 DEF Settled, LeftBelow
      <2>6. ASSUME ~complete, NEW s \in Slots, Settled(s), s >= Min(newest)
            PROVE  s >= chunk[r].cursor \/ s \in newest
            <3>1. s >= chunk[r].cursor \/ s \in below
                  BY <1>t, <2>4, <2>6 DEF Settled, LeftBelow
            <3> HIDE DEF below
            <3> QED BY <1>2, <1>5, <2>6, <3>1
      <2> QED BY <2>3, <2>5, <2>6 DEF Scanned
<1>10. Claims(r)' <=> Claims(r)
       BY <1>1, <1>7, <1>8 DEF Claims, Becomes
<1>11. \A from, cand : Scanned(from, cand)' <=> Scanned(from, cand)
       BY <1>1, AllStays
<1>12. Claims(r)' => ScanOf(r)' /\ StatsOf(r)'
       BY <1>7, <1>8, <1>9, <1>10, <1>11 DEF ScanOf, StatsOf, Becomes
<1>13. Resumable(r, c)
       BY <1>1, <1>7, SameRebuild
<1>14. counts' \in [rebuilds : Nat, writes : Nat, lapses : Nat]
         /\ counts'.rebuilds = counts.rebuilds
       BY <1>1 DEF EnvInv, EnvTypes
<1>15. c.pc \notin {"stats", "swap"}
       BY <1>7
<1> QED BY <1>1, <1>7, <1>8, <1>12, <1>13, <1>14, <1>15, ChunkStep

\* A chunk leaves a checkpoint, if the rebuild is still its own.
LEMMA CheckpointKeeps ==
    ASSUME EnvInv, NEW r \in Replicas, Checkpoint(r)
    PROVE  EnvInv'
<1>1. /\ chunk[r].pc = "checkpoint" /\ chunk' = [chunk EXCEPT ![r] = NoChunk]
      /\ Claims(r) => rebuild' = [rebuild EXCEPT !.cursor = chunk[r].cursor, !.due = TRUE,
                                                 !.candidates = chunk[r].candidates]
      /\ ~Claims(r) => rebuild' = rebuild
      /\ UNCHANGED <<traces, unobserved, registry, overflow, locked, counts>>
      BY DEF Checkpoint, EndChunk
<1>t. /\ chunk \in [Replicas -> ChunkTypes] /\ chunk[r].cursor \in Nat
           /\ chunk[r].candidates \in Seq(Names)
      /\ rebuild \in [started : Nat, cursor : Nat, candidates : Seq(Names), due : BOOLEAN]
      BY DEF EnvInv, EnvTypes, ChunkTypes
<1>2. Becomes(r, NoChunk)
      BY <1>1, <1>t, NoChunkIsChunk, ChunkBecomes
<1>3. Resumable(r, NoChunk)
      <2>1. CASE Claims(r)
            <3>1. /\ rebuild' \in [started : Nat, cursor : Nat, candidates : Seq(Names),
                                 due : BOOLEAN]
                  /\ rebuild'.started = rebuild.started /\ rebuild.started # 0
                  /\ rebuild'.cursor = chunk[r].cursor
                       /\ rebuild'.candidates = chunk[r].candidates
                  BY <1>1, <1>t, <2>1 DEF Claims
            <3>2. Scanned(chunk[r].cursor, chunk[r].candidates)
                  BY <1>1, <2>1 DEF EnvInv, Scans, ScanOf
            <3> QED BY <3>1, <3>2, NoChunkIsChunk DEF Resumable
      <2>2. CASE ~Claims(r)
            BY <1>1, <2>2, NoChunkIsChunk, SameRebuild
      <2> QED BY <2>1, <2>2
<1>4. ~Claims(r)'
      BY <1>2, NoChunkIsChunk DEF Becomes, Claims
<1>5. counts' \in [rebuilds : Nat, writes : Nat, lapses : Nat]
        /\ counts'.rebuilds = counts.rebuilds
      BY <1>1 DEF EnvInv, EnvTypes
<1> QED BY <1>1, <1>2, <1>3, <1>4, <1>5, NoChunkIsChunk, ChunkStep

\* A chunk ends with an error or with its replica.
LEMMA EndsKeeps ==
    ASSUME EnvInv, NEW r \in Replicas, NEW recorded \in BOOLEAN, ChunkEnds(r, recorded)
    PROVE  EnvInv'
<1>1. /\ chunk' = [chunk EXCEPT ![r] = NoChunk]
      /\ counts' = [counts EXCEPT !.lapses = counts.lapses + 1]
      /\ locked' = IF locked = r THEN Nobody ELSE locked
      /\ recorded /\ Claims(r) => rebuild' = [rebuild EXCEPT !.due = FALSE]
      /\ ~(recorded /\ Claims(r)) => rebuild' = rebuild
      /\ UNCHANGED <<traces, unobserved, registry, overflow>>
      BY DEF ChunkEnds, EndChunk, Lapse, Count
<1>t. /\ chunk \in [Replicas -> ChunkTypes]
      /\ rebuild \in [started : Nat, cursor : Nat, candidates : Seq(Names), due : BOOLEAN]
      /\ counts \in [rebuilds : Nat, writes : Nat, lapses : Nat]
      BY DEF EnvInv, EnvTypes
<1>2. Becomes(r, NoChunk)
      BY <1>1, <1>t, NoChunkIsChunk, ChunkBecomes
<1>3. Resumable(r, NoChunk)
      <2>1. CASE recorded /\ Claims(r)
            <3>1. /\ rebuild' \in [started : Nat, cursor : Nat, candidates : Seq(Names),
                                 due : BOOLEAN]
                  /\ rebuild'.started = rebuild.started /\ rebuild.started # 0
                  /\ rebuild'.cursor = rebuild.cursor /\ rebuild'.candidates = rebuild.candidates
                  BY <1>1, <1>t, <2>1 DEF Claims
            <3>2. Scanned(rebuild.cursor, rebuild.candidates)
                  BY <3>1 DEF EnvInv, Scans
            <3> QED BY <3>1, <3>2, NoChunkIsChunk DEF Resumable
      <2>2. CASE ~(recorded /\ Claims(r))
            BY <1>1, <2>2, NoChunkIsChunk, SameRebuild
      <2> QED BY <2>1, <2>2
<1>4. ~Claims(r)'
      BY <1>2, NoChunkIsChunk DEF Becomes, Claims
<1>5. counts' \in [rebuilds : Nat, writes : Nat, lapses : Nat]
        /\ counts'.rebuilds = counts.rebuilds
      BY <1>1, <1>t
<1>6. locked' = locked \/ (locked \in {Nobody, r} /\ locked' \in {Nobody, r})
      BY <1>1
<1> QED BY <1>1, <1>2, <1>3, <1>4, <1>5, <1>6, NoChunkIsChunk, ChunkStep

\* The swap begins: under the lock, with the list as it is.
LEMMA BeginSwapKeeps ==
    ASSUME EnvInv, NEW r \in Replicas, BeginSwap(r)
    PROVE  EnvInv'
<1>1. /\ chunk[r].pc = "finalize" /\ locked = Nobody
      /\ Claims(r) => locked' = r
           /\ chunk' = [chunk EXCEPT ![r].pc = "stats", ![r].current = registry]
      /\ ~Claims(r) => locked' = locked /\ chunk' = [chunk EXCEPT ![r] = NoChunk]
      /\ UNCHANGED <<traces, unobserved, registry, overflow, rebuild, counts>>
      BY DEF BeginSwap, EndChunk
<1>t. chunk \in [Replicas -> ChunkTypes] /\ registry \in [Names -> EntryTypes]
      BY DEF EnvInv, EnvTypes
<1>2. counts' \in [rebuilds : Nat, writes : Nat, lapses : Nat]
        /\ counts'.rebuilds = counts.rebuilds
      BY <1>1 DEF EnvInv, EnvTypes
<1>3. CASE Claims(r)
      <2>1. PICK c : c = [chunk[r] EXCEPT !.pc = "stats", !.current = registry]
            OBVIOUS
      <2>2. /\ c \in ChunkTypes /\ c.pc = "stats" /\ c.current = registry
            /\ c.started = chunk[r].started /\ c.candidates = chunk[r].candidates
            <3>1. chunk[r] \in ChunkTypes
                  BY <1>t
            <3> QED BY <1>t, <2>1, <3>1 DEF ChunkTypes
      <2>3. Becomes(r, c)
            <3>1. chunk' = [chunk EXCEPT ![r] = c]
                  BY <1>1, <1>3, <2>1
            <3> QED BY <1>t, <2>2, <3>1, ChunkBecomes
      <2>4. Claims(r)'
            BY <1>1, <1>3, <2>2, <2>3 DEF Becomes, Claims
      <2>5. Scanned(0, chunk[r].candidates)
            BY <1>1, <1>3 DEF EnvInv, Scans, ScanOf
      <2>6. \A from, cand : Scanned(from, cand)' <=> Scanned(from, cand)
            BY <1>1, AllStays
      <2>7. ScanOf(r)' /\ StatsOf(r)'
            BY <2>2, <2>3, <2>5, <2>6 DEF ScanOf, StatsOf, Becomes
      <2>8. Resumable(r, c)
            BY <1>1, <2>2, SameRebuild
      <2> QED BY <1>1, <1>2, <1>3, <2>2, <2>3, <2>4, <2>7, <2>8, ChunkStep
<1>4. CASE ~Claims(r)
      <2>1. Becomes(r, NoChunk)
            BY <1>1, <1>4, <1>t, NoChunkIsChunk, ChunkBecomes
      <2>2. ~Claims(r)'
            BY <2>1, NoChunkIsChunk DEF Becomes, Claims
      <2>3. Resumable(r, NoChunk)
            BY <1>1, NoChunkIsChunk, SameRebuild
      <2> QED BY <1>1, <1>2, <1>4, <2>1, <2>2, <2>3, NoChunkIsChunk, ChunkStep
<1> QED BY <1>3, <1>4

\* The candidates the swap looks at are candidates: all, unless there are too many.
LEMMA SelectedIs ==
    ASSUME NEW cand \in Seq(Names)
    PROVE  /\ Range(Selected(cand)) \subseteq Names
           /\ Len(cand) \in Nat /\ (~(Len(cand) > Cap) => Selected(cand) = cand)
<1> DEFINE n == IF Len(cand) < Cap THEN Len(cand) ELSE Cap
<1>1. Len(cand) \in Nat /\ Cap \in Nat
      BY RegistryAssumption DEF RegistryAssumption
<1>2. n \in Nat /\ n <= Len(cand) /\ (~(Len(cand) > Cap) => n = Len(cand))
      BY <1>1
<1>3. Selected(cand) = SubSeq(cand, 1, n)
      BY DEF Selected
<1> HIDE DEF n
<1>4. /\ SubSeq(cand, 1, n) \in Seq(Names) /\ Len(SubSeq(cand, 1, n)) = n
      /\ \A i \in 1 .. n : SubSeq(cand, 1, n)[i] = cand[i]
      BY <1>1, <1>2
<1>5. SubSeq(cand, 1, Len(cand)) = cand
      BY <1>1
<1>6. Range(Selected(cand)) \subseteq Names
      BY <1>3, <1>4 DEF Range
<1> QED BY <1>1, <1>2, <1>3, <1>5, <1>6

\* The statistics have the span of every settled trace whose name was asked for.
LEMMA LoadStatsKeeps ==
    ASSUME EnvInv, NEW r \in Replicas, LoadStats(r)
    PROVE  EnvInv'
<1> DEFINE names == Range(Selected(chunk[r].candidates)) \cup RecentNames(r)
           rows == {<<s, traces[s]>> : s \in {q \in Slots : traces[q] \in names}}
<1>1. /\ chunk[r].pc = "stats"
      /\ chunk' = [chunk EXCEPT ![r].pc = "swap", ![r].stats = Merged(rows)]
      /\ UNCHANGED <<traces, unobserved, registry, overflow, rebuild, locked, counts>>
      BY DEF LoadStats
<1>t. /\ chunk \in [Replicas -> ChunkTypes] /\ chunk[r] \in ChunkTypes
      /\ chunk[r].candidates \in Seq(Names)
      BY DEF EnvInv, EnvTypes, ChunkTypes
<1>2. names \subseteq Names
      BY <1>t, SelectedIs DEF RecentNames
<1> HIDE DEF names
<1>3. rows \in SUBSET (Slots \X Names)
      BY <1>2
<1>4. \A s \in Slots : traces[s] \in names => <<s, traces[s]>> \in rows
      OBVIOUS
<1> HIDE DEF rows
<1>5. PICK c : c = [chunk[r] EXCEPT !.pc = "swap", !.stats = Merged(rows)]
      OBVIOUS
<1>6. /\ Merged(rows) \in SUBSET StatTypes /\ OneOfEach(Merged(rows))
      /\ \A s, n : <<s, n>> \in rows => Spanned(s, n, Merged(rows))
      BY <1>3, MergedGives
<1>7. /\ c \in ChunkTypes /\ c.pc = "swap" /\ c.stats = Merged(rows)
           /\ c.started = chunk[r].started
      /\ c.candidates = chunk[r].candidates /\ c.current = chunk[r].current
      BY <1>t, <1>5, <1>6 DEF ChunkTypes
<1>8. Becomes(r, c)
      <2>1. chunk' = [chunk EXCEPT ![r] = c]
            BY <1>1, <1>5
      <2> QED BY <1>t, <1>7, <2>1, ChunkBecomes
<1>9. /\ locked = r /\ Claims(r) /\ chunk[r].current = registry
      BY <1>1 DEF EnvInv, LockedList, Swapping
<1>10. \A from, cand : Scanned(from, cand)' <=> Scanned(from, cand)
       BY <1>1, AllStays
<1>11. ScanOf(r)'
       <2>1. Scanned(0, chunk[r].candidates)
             BY <1>1, <1>9 DEF EnvInv, Scans, ScanOf
       <2> QED BY <1>7, <1>8, <1>10, <2>1 DEF ScanOf, Becomes
<1>12. StatsOf(r)'
       <2>1. RecentNames(r)' = RecentNames(r)
             BY <1>7, <1>8 DEF RecentNames, Becomes
       <2>2. chunk'[r].candidates = chunk[r].candidates /\ chunk'[r].stats = Merged(rows)
             BY <1>7, <1>8 DEF Becomes
       <2>3. ASSUME NEW s \in Slots,
                    traces'[s] \in Range(Selected(chunk'[r].candidates)) \cup RecentNames(r)'
             PROVE  Spanned(s, traces'[s], chunk'[r].stats)
             <3>1. traces[s] \in names /\ traces'[s] = traces[s]
                   BY <1>1, <2>1, <2>2, <2>3 DEF names
             <3> QED BY <1>4, <1>6, <2>2, <3>1
       <2>4. OneOfEach(chunk'[r].stats)
             BY <1>6, <2>2
       <2> QED BY <2>3, <2>4 DEF StatsOf
<1>13. Resumable(r, c)
       BY <1>1, <1>7, SameRebuild
<1>14. Claims(r)'
       BY <1>1, <1>7, <1>8, <1>9 DEF Becomes, Claims
<1>15. counts' \in [rebuilds : Nat, writes : Nat, lapses : Nat]
         /\ counts'.rebuilds = counts.rebuilds
       BY <1>1 DEF EnvInv, EnvTypes
<1> QED BY <1>1, <1>7, <1>8, <1>9, <1>11, <1>12, <1>13, <1>14, <1>15, ChunkStep

\* What is swapped in: of the names found, as many as there is room for.
Chosen(r) ==
    LET recent == {e \in chunk[r].stats : e.name \in RecentNames(r)}
    IN  Recent(recent, Cap)
        \cup Recent(chunk[r].stats \ recent, Cap - Cardinality(Recent(recent, Cap)))
TooMany(r) == Len(chunk[r].candidates) > Cap \/ Chosen(r) # chunk[r].stats \/ overflow.recent

\* Without an overflow everything found is listed, and what was not found was observed since
\* the rebuild began, so its statistics were read under the lock.
LEMMA SwapKeeps ==
    ASSUME EnvInv, NEW r \in Replicas, Swap(r)
    PROVE  EnvInv'
<1>1. /\ chunk[r].pc = "swap" /\ locked' = Nobody /\ chunk' = [chunk EXCEPT ![r] = NoChunk]
      /\ UNCHANGED <<traces, unobserved, counts>>
      BY DEF Swap, EndChunk
<1>t. /\ chunk \in [Replicas -> ChunkTypes] /\ chunk[r] \in ChunkTypes
      /\ traces \in [Slots -> Names \cup {0}]
      BY DEF EnvInv, EnvTypes
<1>2. locked = r /\ Claims(r) /\ chunk[r].current = registry /\ ScanOf(r) /\ StatsOf(r)
      BY <1>1 DEF EnvInv, LockedList, Swapping, Scans
<1>3. /\ registry' = [n \in Names |->
              IF \A e \in Chosen(r) : e.name # n THEN NotListed
              ELSE LET e == CHOOSE x \in Chosen(r) : x.name = n IN
                   [first |-> e.first, last |-> e.last, hidden |-> chunk[r].current[n].hidden,
                    recent |-> TRUE]]
      /\ overflow' = [flag |-> TooMany(r), recent |-> TooMany(r)]
      /\ rebuild' = NoRebuild
      BY <1>2 DEF Swap, SwapIn, Chosen, TooMany
<1>4. Becomes(r, NoChunk)
      BY <1>1, <1>t, NoChunkIsChunk, ChunkBecomes
<1>5. Chosen(r) \subseteq StatTypes
      <2>1. chunk[r].stats \subseteq StatTypes
            BY <1>t DEF ChunkTypes
      <2> QED BY <2>1 DEF Chosen, Recent
<1>6. registry' \in [Names -> EntryTypes]
      <2>1. ASSUME NEW n \in Names PROVE registry'[n] \in EntryTypes
            <3>1. CASE \A e \in Chosen(r) : e.name # n
                  BY <1>3, <3>1, NoChunkIsChunk
            <3>2. CASE ~ \A e \in Chosen(r) : e.name # n
                  <4>1. PICK e : e = CHOOSE x \in Chosen(r) : x.name = n
                        OBVIOUS
                  <4>2. e \in Chosen(r)
                        BY <3>2, <4>1
                  <4>3. e.first \in Nat /\ e.last \in Nat
                        BY <1>5, <4>2 DEF StatTypes
                  <4>4. chunk[r].current[n].hidden \in BOOLEAN
                        BY <1>t DEF ChunkTypes, EntryTypes
                  <4>5. registry'[n] = [first |-> e.first, last |-> e.last,
                                        hidden |-> chunk[r].current[n].hidden, recent |-> TRUE]
                        BY <1>3, <3>2, <4>1
                  <4> QED BY <4>3, <4>4, <4>5 DEF EntryTypes
            <3> QED BY <3>1, <3>2
      <2>2. registry' = [n \in Names |-> registry'[n]]
            BY <1>3
      <2> QED BY <2>1, <2>2
<1>7. EnvTypes'
      <2>1. overflow' \in [flag : BOOLEAN, recent : BOOLEAN]
            <3>1. TooMany(r) \in BOOLEAN
                  BY DEF TooMany, EnvInv, EnvTypes
            <3> QED BY <1>3, <3>1
      <2>2. rebuild' \in [started : Nat, cursor : Nat, candidates : Seq(Names), due : BOOLEAN]
            <3>1. <<>> \in Seq(Names) /\ Beginning \in Nat
                  BY KeysFinite
            <3> QED BY <1>3, <3>1 DEF NoRebuild
      <2> QED BY <1>1, <1>4, <1>6, <2>1, <2>2 DEF EnvInv, EnvTypes, Becomes
<1>8. rebuild'.started = 0 /\ rebuild'.due = FALSE /\ rebuild'.cursor = Beginning
      BY <1>3 DEF NoRebuild
<1>9. RebuildsNumbered'
      <2>1. counts' = counts /\ counts.rebuilds \in Nat
            BY <1>1 DEF EnvInv, EnvTypes
      <2>2. \A x \in Replicas : chunk'[x].started = chunk[x].started \/ chunk'[x].started = 0
            BY <1>4, NoChunkIsChunk DEF Becomes
      <2>3. \A x \in Replicas : chunk[x].started <= counts.rebuilds
            BY DEF EnvInv, RebuildsNumbered
      <2> QED BY <1>8, <2>1, <2>2, <2>3 DEF RebuildsNumbered
<1>10. \A x \in Replicas : ~Swapping(x)' /\ ~Claims(x)'
       <2>1. ASSUME NEW x \in Replicas, x # r PROVE ~Swapping(x)
             BY <1>2, <2>1 DEF EnvInv, LockedList
       <2> QED BY <1>4, <1>8, <2>1, NoChunkIsChunk DEF Becomes, Swapping, Claims
<1>11. LockedList' /\ Scans'
       BY <1>8, <1>10 DEF LockedList, Scans
<1>12. ASSUME NEW s \in Slots, Settled(s), ~TooMany(r)
       PROVE  /\ registry'[traces[s]].last # 0
              /\ registry'[traces[s]].first <= s /\ s <= registry'[traces[s]].last
       <2>1. traces[s] \in Names /\ s \in Nat
             BY <1>t, <1>12, KeysFinite DEF Settled
       <2>2. Scanned(0, chunk[r].candidates) /\ Len(chunk[r].candidates) \in Nat
             /\ ~(Len(chunk[r].candidates) > Cap)
                  /\ Selected(chunk[r].candidates) = chunk[r].candidates
             <3>1. chunk[r].candidates \in Seq(Names)
                   BY <1>t DEF ChunkTypes
             <3> QED BY <1>1, <1>2, <1>12, <3>1, SelectedIs DEF ScanOf, TooMany
       <2>3. traces[s] \in Range(Selected(chunk[r].candidates)) \/ SeenSince(traces[s])
             BY <1>12, <2>1, <2>2 DEF Scanned
       <2>4. traces[s] \in Range(Selected(chunk[r].candidates)) \cup RecentNames(r)
             BY <1>2, <1>12, <2>1, <2>3 DEF SeenSince, RecentNames, TooMany
       <2>5. Spanned(s, traces[s], chunk[r].stats) /\ OneOfEach(chunk[r].stats)
             BY <1>1, <1>2, <1>12, <2>4 DEF StatsOf
       <2>6. Chosen(r) = chunk[r].stats
             BY <1>12 DEF TooMany
       <2>7. PICK e \in Chosen(r) : e.name = traces[s] /\ e.first <= s /\ s <= e.last
             BY <2>5, <2>6 DEF Spanned
       <2>8. PICK x : x = CHOOSE y \in Chosen(r) : y.name = traces[s]
             OBVIOUS
       <2>9. x = e
             BY <2>5, <2>6, <2>7, <2>8 DEF OneOfEach
       <2>10. registry'[traces[s]].first = e.first /\ registry'[traces[s]].last = e.last
              BY <1>3, <2>1, <2>7, <2>8, <2>9
       <2>11. e.last \in Nat \ {0}
              BY <1>5, <2>7 DEF StatTypes
       <2> QED BY <2>7, <2>10, <2>11
<1>13. ListedWithItsSpan'
       <2> SUFFICES ASSUME NEW s \in Slots, traces'[s] # 0, <<s, traces'[s]>> \notin unobserved'
                    PROVE  \/ /\ registry'[traces'[s]].last # 0
                              /\ registry'[traces'[s]].first <= s
                                   /\ s <= registry'[traces'[s]].last
                           \/ overflow'.flag
           BY DEF ListedWithItsSpan, Listed
       <2>1. Settled(s) /\ traces'[s] = traces[s]
             BY <1>1 DEF Settled
       <2>2. CASE TooMany(r)
             BY <1>3, <2>2
       <2>3. CASE ~TooMany(r)
             BY <1>12, <2>1, <2>3
       <2> QED BY <2>2, <2>3
<1> QED BY <1>7, <1>9, <1>11, <1>13 DEF EnvInv

\* What is observed of new names, and those there is room for.
NovelOf(rows) == {e \in Merged(rows) : ~Listed(e.name)}
AdmittedOf(rows) == Recent(NovelOf(rows), Max({0, Cap - Cardinality(ListedNames)}))
ChangedOf(rows) == AdmittedOf(rows) \cup (Merged(rows) \ NovelOf(rows))

\* An observation only widens what the list says.
Wider(n, rows) ==
    /\ registry'[n] \in EntryTypes /\ registry'[n].hidden = registry[n].hidden
    /\ registry[n].recent => registry'[n].recent
    /\ Listed(n) => /\ registry'[n].last # 0 /\ registry'[n].first <= registry[n].first
                    /\ registry[n].last <= registry'[n].last
    /\ \A e \in ChangedOf(rows) : e.name = n =>
          /\ registry'[n].recent = TRUE /\ registry'[n].last # 0
          /\ registry'[n].first <= e.first /\ e.last <= registry'[n].last

\* An observation does so.
LEMMA AdmitWidens ==
    ASSUME EnvTypes, NEW rows \in SUBSET unobserved, Admit(rows)
    PROVE  \A n \in Names : Wider(n, rows)
<1>1. registry' = [n \in Names |->
              IF \A e \in ChangedOf(rows) : e.name # n THEN registry[n]
              ELSE LET e == CHOOSE x \in ChangedOf(rows) : x.name = n IN
                   [hidden |-> registry[n].hidden, recent |-> TRUE,
                    first |-> IF Listed(n) THEN Min({e.first, registry[n].first}) ELSE e.first,
                    last |-> Max({e.last, registry[n].last})]]
      BY DEF Admit, ChangedOf, AdmittedOf, NovelOf
<1>2. rows \in SUBSET (Slots \X Names)
      BY DEF EnvTypes
<1>3. Merged(rows) \subseteq StatTypes /\ OneOfEach(Merged(rows))
      BY <1>2, MergedGives
<1>4. ChangedOf(rows) \subseteq Merged(rows)
      BY DEF ChangedOf, AdmittedOf, NovelOf, Recent
<1>5. \A e, x \in ChangedOf(rows) : e.name = x.name => e = x
      BY <1>3, <1>4 DEF OneOfEach
<1>6. ASSUME NEW n \in Names PROVE Wider(n, rows)
      <2>1. /\ registry[n] \in EntryTypes /\ registry[n].hidden \in BOOLEAN
            /\ registry[n].first \in Nat /\ registry[n].last \in Nat
            BY DEF EnvTypes, EntryTypes
      <2>2. CASE \A e \in ChangedOf(rows) : e.name # n
            <3>1. registry'[n] = registry[n]
                  BY <1>1, <2>2
            <3> QED BY <2>1, <2>2, <3>1 DEF Wider, Listed
      <2>3. CASE ~ \A e \in ChangedOf(rows) : e.name # n
            <3>1. PICK e : e = CHOOSE x \in ChangedOf(rows) : x.name = n
                  OBVIOUS
            <3>2. e \in ChangedOf(rows) /\ e.name = n
                  BY <2>3, <3>1
            <3>3. e.first \in Nat \ {0} /\ e.last \in Nat \ {0}
                  BY <1>3, <1>4, <3>2 DEF StatTypes
            <3>4. registry'[n] = [hidden |-> registry[n].hidden, recent |-> TRUE,
                    first |-> IF Listed(n) THEN Min({e.first, registry[n].first}) ELSE e.first,
                    last |-> Max({e.last, registry[n].last})]
                  BY <1>1, <2>3, <3>1
            <3>5. PICK lo, hi : lo = Min({e.first, registry[n].first})
                         /\ hi = Max({e.last, registry[n].last})
                  OBVIOUS
            <3>6. /\ lo \in {e.first, registry[n].first} /\ lo <= e.first
                       /\ lo <= registry[n].first
                  /\ hi \in {e.last, registry[n].last} /\ hi >= e.last /\ hi >= registry[n].last
                  <4>1. e.first \in Int /\ registry[n].first \in Int /\ e.last \in Int
                          /\ registry[n].last \in Int
                        BY <2>1, <3>3
                  <4>2. /\ Min({e.first, registry[n].first}) \in {e.first, registry[n].first}
                        /\ Min({e.first, registry[n].first}) <= e.first
                        /\ Min({e.first, registry[n].first}) <= registry[n].first
                        BY <4>1, OfTwo
                  <4>3. /\ Max({e.last, registry[n].last}) \in {e.last, registry[n].last}
                        /\ Max({e.last, registry[n].last}) >= e.last
                        /\ Max({e.last, registry[n].last}) >= registry[n].last
                        BY <4>1, OfTwo
                  <4> QED BY ONLY <3>5, <4>2, <4>3
            <3>7. /\ registry'[n].hidden = registry[n].hidden /\ registry'[n].recent = TRUE
                  /\ registry'[n].first = IF Listed(n) THEN lo ELSE e.first
                  /\ registry'[n].last = hi
                  BY <3>4, <3>5
            <3>8. lo \in Nat /\ hi \in Nat /\ hi # 0
                  BY <2>1, <3>3, <3>6
            <3>9. registry'[n] \in EntryTypes
                  BY <2>1, <3>3, <3>4, <3>5, <3>8 DEF EntryTypes
            <3>10. \A x \in ChangedOf(rows) : x.name = n => x = e
                   BY <1>5, <3>2
            <3>11. /\ registry'[n].last # 0 /\ registry'[n].first <= e.first
                        /\ e.last <= registry'[n].last
                   /\ Listed(n) => registry'[n].first <= registry[n].first
                   /\ registry[n].last <= registry'[n].last
                   BY <2>1, <3>3, <3>6, <3>7, <3>8
            <3> QED BY <3>7, <3>9, <3>10, <3>11 DEF Wider
      <2> QED BY <2>2, <2>3
<1> QED BY <1>6

\* What was just observed is listed with its span, or there was no room for it.
LEMMA ObserveKeeps ==
    ASSUME EnvInv, NEW rows \in SUBSET unobserved, Observe(rows)
    PROVE  EnvInv'
<1>1. /\ locked = Nobody /\ Admit(rows) /\ unobserved' = unobserved \ rows
      /\ overflow' = IF AdmittedOf(rows) = NovelOf(rows) THEN overflow
                     ELSE [flag |-> TRUE, recent |-> TRUE]
      /\ UNCHANGED <<traces, rebuild, locked, chunk, counts>>
      BY DEF Observe, Admit, AdmittedOf, NovelOf
<1>t. traces \in [Slots -> Names \cup {0}] /\ rows \in SUBSET (Slots \X Names)
      BY DEF EnvInv, EnvTypes
<1>2. \A n \in Names : Wider(n, rows)
      BY <1>1, AdmitWidens DEF EnvInv
<1>3. EnvTypes'
      <2>1. registry' \in [Names -> EntryTypes]
            <3>1. registry' = [n \in Names |-> registry'[n]]
                  BY <1>1 DEF Admit
            <3>2. \A n \in Names : registry'[n] \in EntryTypes
                  BY <1>2 DEF Wider
            <3> QED BY <3>1, <3>2
      <2>2. overflow' \in [flag : BOOLEAN, recent : BOOLEAN]
            BY <1>1 DEF EnvInv, EnvTypes
      <2>3. unobserved' \subseteq Slots \X Names
            BY <1>1 DEF EnvInv, EnvTypes
      <2> QED BY <1>1, <2>1, <2>2, <2>3 DEF EnvInv, EnvTypes
<1>4. \A r \in Replicas : ~Swapping(r)
      BY <1>1, NobodySwaps DEF EnvInv
<1>5. RebuildsNumbered' /\ LockedList'
      BY <1>1, <1>4 DEF EnvInv, RebuildsNumbered, LockedList, Swapping
<1>6. (overflow.recent = TRUE => overflow'.recent = TRUE) /\ (overflow.flag => overflow'.flag)
      BY <1>1
<1>7. ASSUME NEW s \in Slots, Settled(s)', AdmittedOf(rows) = NovelOf(rows), ~Settled(s)
      PROVE  registry'[traces[s]].recent = TRUE /\ registry'[traces[s]].last # 0
             /\ registry'[traces[s]].first <= s /\ s <= registry'[traces[s]].last
      <2>1. <<s, traces[s]>> \in rows
            BY <1>1, <1>7 DEF Settled
      <2>2. ChangedOf(rows) = Merged(rows)
            BY <1>7 DEF ChangedOf, NovelOf
      <2>3. Merged(rows) \subseteq StatTypes /\ Spanned(s, traces[s], Merged(rows))
            BY <1>t, <2>1, MergedGives
      <2>4. PICK e \in ChangedOf(rows) : e.name = traces[s] /\ e.first <= s /\ s <= e.last
            BY <2>2, <2>3 DEF Spanned
      <2>5. traces[s] \in Names /\ s \in Nat /\ e.first \in Nat /\ e.last \in Nat
            BY <1>t, <2>1, <2>2, <2>3, KeysFinite DEF StatTypes
      <2>6. /\ registry'[traces[s]].recent = TRUE /\ registry'[traces[s]].last # 0
            /\ registry'[traces[s]].first <= e.first /\ e.last <= registry'[traces[s]].last
            BY <1>2, <2>4, <2>5 DEF Wider
      <2>7. registry'[traces[s]].first \in Nat /\ registry'[traces[s]].last \in Nat
            BY <1>2, <2>5 DEF Wider, EntryTypes
      <2> QED BY <2>4, <2>5, <2>6, <2>7
<1>8. ASSUME NEW s \in Slots, Settled(s)', AdmittedOf(rows) # NovelOf(rows)
      PROVE  overflow'.recent = TRUE /\ overflow'.flag = TRUE
      BY <1>1, <1>8
<1>9. \A from, cand : Scanned(from, cand) => Scanned(from, cand)'
      <2>1. ASSUME NEW s \in Slots, Settled(s)'
            PROVE  \/ Settled(s) /\ traces'[s] = traces[s]
                        /\ (SeenSince(traces[s]) => SeenSince(traces[s])')
                   \/ SeenSince(traces[s])'
            <3>1. traces[s] \in Names /\ traces'[s] = traces[s]
                  BY <1>1, <1>t, <2>1 DEF Settled
            <3>2. SeenSince(traces[s]) => SeenSince(traces[s])'
                  <4>1. registry[traces[s]].recent = TRUE => registry'[traces[s]].recent = TRUE
                        BY <1>2, <3>1 DEF Wider, EntryTypes
                  <4> QED BY <1>1, <1>6, <4>1 DEF SeenSince
            <3>3. ~Settled(s) => SeenSince(traces[s])'
                  BY <1>1, <1>7, <1>8, <2>1 DEF SeenSince
            <3> QED BY <3>1, <3>2, <3>3
      <2> QED BY <2>1, ScannedStays
<1>10. Scans'
       <2>1. \A r \in Replicas : (ScanOf(r) => ScanOf(r)') /\ (StatsOf(r) => StatsOf(r)')
             BY <1>1, <1>9, <1>4, ChunkKeeps
       <2>2. \A r \in Replicas : Claims(r)' <=> Claims(r)
             BY <1>1 DEF Claims
       <2> QED BY <1>1, <1>9, <2>1, <2>2 DEF EnvInv, Scans
<1>11. ListedWithItsSpan'
       <2> SUFFICES ASSUME NEW s \in Slots, traces'[s] # 0, <<s, traces'[s]>> \notin unobserved'
                    PROVE  \/ /\ registry'[traces'[s]].last # 0
                              /\ registry'[traces'[s]].first <= s
                                   /\ s <= registry'[traces'[s]].last
                           \/ overflow'.flag
           BY DEF ListedWithItsSpan, Listed
       <2>1. Settled(s)' /\ traces'[s] = traces[s] /\ traces[s] \in Names /\ s \in Nat
             BY <1>1, <1>t, KeysFinite DEF Settled
       <2>2. CASE ~Settled(s)
             BY <1>7, <1>8, <2>1, <2>2
       <2>3. CASE Settled(s)
             <3>1. \/ Listed(traces[s]) /\ registry[traces[s]].first <= s
                        /\ s <= registry[traces[s]].last
                   \/ overflow.flag
                   BY <2>3 DEF EnvInv, ListedWithItsSpan, Settled
             <3>2. /\ registry[traces[s]].first \in Nat /\ registry[traces[s]].last \in Nat
                   /\ registry'[traces[s]].first \in Nat /\ registry'[traces[s]].last \in Nat
                   BY <1>2, <2>1 DEF EnvInv, EnvTypes, EntryTypes, Wider
             <3>3. Listed(traces[s]) =>
                      /\ registry'[traces[s]].last # 0
                      /\ registry'[traces[s]].first <= registry[traces[s]].first
                      /\ registry[traces[s]].last <= registry'[traces[s]].last
                   BY <1>2, <2>1 DEF Wider
             <3> QED BY <1>6, <2>1, <3>1, <3>2, <3>3
       <2> QED BY <2>2, <2>3
<1> QED BY <1>3, <1>5, <1>10, <1>11 DEF EnvInv

\* The inductive invariant holds at first.
LEMMA EnvInitOK == EnvInit => EnvInv
<1> SUFFICES ASSUME EnvInit PROVE EnvInv
    OBVIOUS
<1>1. /\ traces = [s \in Slots |-> 0] /\ unobserved = {}
      /\ registry = [n \in Names |-> NotListed]
      /\ overflow = [flag |-> FALSE, recent |-> FALSE]
      /\ rebuild = NoRebuild /\ locked = Nobody
      /\ chunk = [r \in Replicas |-> NoChunk]
      /\ counts = [rebuilds |-> 0, writes |-> 0, lapses |-> 0]
      BY DEF EnvInit
<1>2. EnvTypes
      <2>1. rebuild \in [started : Nat, cursor : Nat, candidates : Seq(Names), due : BOOLEAN]
            <3>1. <<>> \in Seq(Names) /\ Beginning \in Nat
                  BY KeysFinite
            <3> QED BY <1>1, <3>1 DEF NoRebuild
      <2>2. registry \in [Names -> EntryTypes] /\ chunk \in [Replicas -> ChunkTypes]
            BY <1>1, NoChunkIsChunk
      <2>3. traces \in [Slots -> Names \cup {0}]
              /\ counts \in [rebuilds : Nat, writes : Nat, lapses : Nat]
            BY <1>1
      <2> QED BY <1>1, <2>1, <2>2, <2>3 DEF EnvTypes
<1>3. rebuild.started = 0 /\ rebuild.due = FALSE /\ rebuild.cursor = Beginning
      BY <1>1 DEF NoRebuild
<1>4. \A r \in Replicas : chunk[r].started = 0 /\ ~Swapping(r) /\ ~Claims(r)
      BY <1>1, <1>3, NoChunkIsChunk DEF Swapping, Claims
<1>5. RebuildsNumbered /\ LockedList /\ Scans
      BY <1>1, <1>3, <1>4 DEF RebuildsNumbered, LockedList, Scans
<1>6. ListedWithItsSpan
      BY <1>1 DEF ListedWithItsSpan
<1> QED BY <1>2, <1>5, <1>6 DEF EnvInv

\* Every step keeps it.
LEMMA EnvStep == EnvInv /\ [EnvNext]_envVars => EnvInv'
<1> SUFFICES ASSUME EnvInv, [EnvNext]_envVars PROVE EnvInv'
    OBVIOUS
<1>1. CASE \E s \in Slots, n \in Names \cup {0} : WriteTrace(s, n)
      BY <1>1, WriteKeeps
<1>2. CASE \E rows \in SUBSET unobserved : Observe(rows)
      BY <1>2, ObserveKeeps
<1>3. CASE \E n \in Names, hidden \in BOOLEAN : SetHidden(n, hidden)
      BY <1>3, HiddenKeeps
<1>4. CASE RebuildComesDue
      BY <1>4, DueKeeps
<1>5. CASE \E r \in Replicas : Rebuild(r)
      BY <1>5, ClaimKeeps, ScanKeeps, CheckpointKeeps, BeginSwapKeeps, LoadStatsKeeps, SwapKeeps
        DEF Rebuild
<1>6. CASE \E r \in Replicas, recorded \in BOOLEAN : ChunkEnds(r, recorded)
      BY <1>6, EndsKeeps
<1>7. CASE UNCHANGED envVars
      <2>1. UNCHANGED <<traces, unobserved, registry, overflow>>
              /\ UNCHANGED <<rebuild, locked, chunk, counts>>
            BY <1>7 DEF envVars
      <2>2. /\ \A from, cand : Scanned(from, cand)' <=> Scanned(from, cand)
            /\ ListedWithItsSpan'
            BY <2>1, AllStays DEF EnvInv
      <2>3. EnvTypes' /\ RebuildsNumbered' /\ LockedList'
            BY <2>1 DEF EnvInv, EnvTypes, RebuildsNumbered, LockedList, Swapping, Claims
      <2>4. Scans'
            <3>1. \A s \in Slots : Settled(s)' => Settled(s) /\ traces'[s] = traces[s]
                  BY <2>1 DEF Settled
            <3>2. \A from, cand : Scanned(from, cand) => Scanned(from, cand)'
                  BY <2>2
            <3>3. \A r \in Replicas : chunk'[r] = chunk[r]
                  BY <2>1
            <3>4. \A r \in Replicas : (ScanOf(r) => ScanOf(r)') /\ (StatsOf(r) => StatsOf(r)')
                  BY <3>1, <3>2, <3>3, ChunkKeeps
            <3>5. \A r \in Replicas : Claims(r)' <=> Claims(r)
                  BY <2>1 DEF Claims
            <3> QED BY <2>1, <2>2, <3>4, <3>5 DEF EnvInv, Scans
      <2> QED BY <2>2, <2>3, <2>4 DEF EnvInv
<1> QED BY <1>1, <1>2, <1>3, <1>4, <1>5, <1>6, <1>7 DEF EnvNext

\* environments.ts: whatever rebuilds overlap the writing and the observing, a trace
\* whose writer is done is listed with its time in the span, or the list overflowed.
THEOREM SettledAreListed == EnvSpec => []ListedWithItsSpan
<1>1. EnvInv => ListedWithItsSpan
      BY DEF EnvInv
<1> QED BY EnvInitOK, EnvStep, <1>1, PTL DEF EnvSpec

\* A step that changes what is hidden of a listed name is the user's.
LEMMA HiddenStep ==
    ASSUME EnvInv, [EnvNext]_envVars, NEW n \in Names, Listed(n), Listed(n)',
           registry'[n].hidden # registry[n].hidden
    PROVE  UNCHANGED <<chunk, unobserved>>
<1>0. registry[n] \in EntryTypes
      BY DEF EnvInv, EnvTypes
<1>1. ASSUME NEW rows \in SUBSET unobserved, Observe(rows) PROVE FALSE
      <2>1. Wider(n, rows)
            BY <1>1, AdmitWidens DEF EnvInv, Observe
      <2> QED BY <2>1 DEF Wider
<1>2. ASSUME NEW r \in Replicas, ClaimRebuild(r) PROVE FALSE
      <2>1. \/ registry' = registry
            \/ registry' = [x \in Names |-> [registry[x] EXCEPT !.recent = FALSE]]
            BY <1>2 DEF ClaimRebuild
      <2>2. [registry[n] EXCEPT !.recent = FALSE].hidden = registry[n].hidden
            BY <1>0 DEF EntryTypes
      <2> QED BY <2>1, <2>2
<1>3. ASSUME NEW r \in Replicas, Swap(r), Claims(r) PROVE FALSE
      <2>1. chunk[r].current = registry
            BY <1>3 DEF Swap, EnvInv, LockedList, Swapping
      <2>2. registry' = [x \in Names |->
              IF \A e \in Chosen(r) : e.name # x THEN NotListed
              ELSE LET e == CHOOSE y \in Chosen(r) : y.name = x IN
                   [first |-> e.first, last |-> e.last, hidden |-> chunk[r].current[x].hidden,
                    recent |-> TRUE]]
            BY <1>3 DEF Swap, SwapIn, Chosen
      <2>3. ~ \A e \in Chosen(r) : e.name # n
            BY <2>2 DEF Listed, NotListed
      <2>4. registry'[n].hidden = chunk[r].current[n].hidden
            BY <2>2, <2>3
      <2> QED BY <2>1, <2>4
<1>4. registry' # registry
      OBVIOUS
<1>5. ASSUME NEW r \in Replicas, Rebuild(r) PROVE FALSE
      BY <1>2, <1>3, <1>4, <1>5 DEF Rebuild, ScanPage, Checkpoint, BeginSwap, LoadStats, Swap
<1>6. CASE \E x \in Names, hidden \in BOOLEAN : SetHidden(x, hidden)
      BY <1>6 DEF SetHidden
<1>7. ASSUME \E s \in Slots, x \in Names \cup {0} : WriteTrace(s, x) PROVE FALSE
      BY <1>4, <1>7 DEF WriteTrace
<1>8. ASSUME RebuildComesDue PROVE FALSE
      BY <1>4, <1>8 DEF RebuildComesDue
<1>9. ASSUME NEW r \in Replicas, NEW recorded \in BOOLEAN, ChunkEnds(r, recorded) PROVE FALSE
      BY <1>4, <1>9 DEF ChunkEnds
<1>10. CASE UNCHANGED envVars
       BY <1>4, <1>10 DEF envVars
<1> QED BY <1>1, <1>5, <1>6, <1>7, <1>8, <1>9, <1>10 DEF EnvNext

\* environments.ts: only the user changes what is hidden of a listed name; an
\* observation keeps it, and so does a swap, whose list is still the current one.
THEOREM HiddenStaysHidden == EnvSpec => HiddenKept
<1>1. EnvInv /\ [EnvNext]_envVars =>
         [\A n \in Names :
             Listed(n) /\ Listed(n)' /\ registry'[n].hidden # registry[n].hidden
             => UNCHANGED <<chunk, unobserved>>]_envVars
      BY HiddenStep
<1> QED BY EnvInitOK, EnvStep, <1>1, PTL DEF EnvSpec, HiddenKept

=============================================================================
