------------------------- MODULE TIDGeneratorProofs -------------------------
(***************************************************************************)
(* TIDGenerator is right for any number of threads and slots: a slot has   *)
(* one user, and no scan leaves the array.                                 *)
(*                                                                         *)
(* The second needs a count. A thread looks past slot k only while another *)
(* one has that slot, so however slots change hands at most MaxLive - k    *)
(* threads are at slot k or further.                                       *)
(***************************************************************************)
EXTENDS TIDGenerator, FiniteSetTheorems, TLAPS

(* The threads that look at slot k or a later one, or have it.             *)
Reached(k) == {t \in Threads : Alive(t) /\ i[t] >= k}

Held ==
  /\ \A t \in Threads : pc[t] # "released"
  /\ \A t \in Threads : pc[t] = "take" => i[t] \in Slots
  /\ \A t \in Threads : pc[t] = "in" =>
       i[t] \in Slots /\ myslot[t] = i[t] /\ thread_ids[i[t]] = t
  /\ \A s \in Slots : thread_ids[s] # NULL =>
       pc[thread_ids[s]] = "in" /\ i[thread_ids[s]] = s

Thinning == \A k \in 0..MaxLive : Cardinality(Reached(k)) <= MaxLive - k

(* Nobody is at slot MaxLive or further, since at most 0 threads are.      *)
LEMMA NobodyBeyond ==
  ASSUME TypeOK, Thinning, NEW t \in Threads, Alive(t)
  PROVE  i[t] < MaxLive
<1>1. Cardinality(Reached(MaxLive)) <= 0
  BY SlotsAssumption DEF Thinning
<1>2. IsFiniteSet(Reached(MaxLive))
  BY FS_Subset, SlotsAssumption DEF Reached
<1>3. Reached(MaxLive) = {}
  BY <1>1, <1>2, FS_EmptySet, FS_CardinalityType
<1>4. ~ (i[t] >= MaxLive)
  BY <1>3 DEF Reached
<1> QED
  BY <1>4, SlotsAssumption DEF TypeOK

(* A step that takes nobody further keeps the count.                       *)
LEMMA FewerReached ==
  ASSUME Thinning, \A k \in 0..MaxLive : Reached(k)' \subseteq Reached(k)
  PROVE  Thinning'
<1> SUFFICES ASSUME NEW k \in 0..MaxLive
             PROVE  Cardinality(Reached(k)') <= MaxLive - k
  BY DEF Thinning
<1>1. IsFiniteSet(Reached(k))
  BY FS_Subset, SlotsAssumption DEF Reached
<1>2. /\ IsFiniteSet(Reached(k)')
      /\ Cardinality(Reached(k)') <= Cardinality(Reached(k))
  BY <1>1, FS_Subset
<1>3. Cardinality(Reached(k)) \in Nat /\ Cardinality(Reached(k)') \in Nat
  BY <1>1, <1>2, FS_CardinalityType
<1> QED
  BY <1>2, <1>3, SlotsAssumption DEF Thinning

LEMMA TypeStep == TypeOK /\ Held /\ Thinning /\ [Next]_vars => TypeOK'
<1> SUFFICES ASSUME TypeOK, Held, Thinning, [Next]_vars PROVE TypeOK'
  OBVIOUS
<1> USE SlotsAssumption DEF TypeOK, Slots, NULL
<1>1. ASSUME NEW t \in Threads, begin(t) PROVE TypeOK'
  BY <1>1 DEF begin
<1>2. ASSUME NEW t \in Threads, scan(t) PROVE TypeOK'
  <2>1. i[t] + 1 \in 0..KCAS_MAX_THREADS
    BY <1>2 DEF scan
  <2>2. i' \in [Threads -> 0..KCAS_MAX_THREADS]
    BY <1>2, <2>1 DEF scan
  <2>3. pc' \in [Threads -> {"out", "scan", "take", "in", "released"}]
    BY <1>2 DEF scan
  <2> QED
    BY <1>2, <2>2, <2>3 DEF scan
<1>3. ASSUME NEW t \in Threads, take(t) PROVE TypeOK'
  <2>1. thread_ids' \in [Slots -> Threads \cup {NULL}]
    <3> HIDE DEF NULL, Slots
    <3>1. thread_ids' = thread_ids \/ thread_ids' = [thread_ids EXCEPT ![i[t]] = t]
      BY <1>3 DEF take
    <3>2. t \in Threads \cup {NULL}
      OBVIOUS
    <3> QED
      BY <3>1, <3>2
  <2>2. i' \in [Threads -> 0..KCAS_MAX_THREADS]
    BY <1>3 DEF take
  <2>3. pc' \in [Threads -> {"out", "scan", "take", "in", "released"}]
    BY <1>3 DEF take
  <2>4. i[t] \in Slots
    BY <1>3 DEF take, Held
  <2>5. myslot' \in [Threads -> Slots \cup {-1}]
    BY <1>3, <2>4 DEF take
  <2> QED
    BY <2>1, <2>2, <2>3, <2>5
<1>4. ASSUME NEW t \in Threads, destroy(t) PROVE TypeOK'
  BY <1>4 DEF destroy, Held
<1>5. CASE UNCHANGED vars
  BY <1>5 DEF vars
<1> QED
  BY <1>1, <1>2, <1>3, <1>4, <1>5 DEF Next

LEMMA HeldStep == TypeOK /\ Held /\ [Next]_vars => Held'
<1> SUFFICES ASSUME TypeOK, Held, [Next]_vars PROVE Held'
  OBVIOUS
<1> USE SlotsAssumption DEF TypeOK, Held, Slots, NULL
<1>1. ASSUME NEW t \in Threads, begin(t) PROVE Held'
  BY <1>1 DEF begin
<1>2. ASSUME NEW t \in Threads, scan(t) PROVE Held'
  BY <1>2 DEF scan
<1>3. ASSUME NEW t \in Threads, take(t) PROVE Held'
  BY <1>3 DEF take
<1>4. ASSUME NEW t \in Threads, destroy(t) PROVE Held'
  BY <1>4 DEF destroy
<1>5. CASE UNCHANGED vars
  BY <1>5 DEF vars
<1> QED
  BY <1>1, <1>2, <1>3, <1>4, <1>5 DEF Next

(* A new thread is at slot 0, where only the number of threads counts.     *)
LEMMA BeginThins ==
  ASSUME TypeOK, Thinning, NEW t \in Threads, begin(t)
  PROVE  Thinning'
<1> SUFFICES ASSUME NEW k \in 0..MaxLive
             PROVE  Cardinality(Reached(k)') <= MaxLive - k
  BY DEF Thinning
<1>1. CASE k = 0
  <2> DEFINE A == {u \in Threads : Alive(u)}
  <2>1. Reached(k)' = A \cup {t}
    BY <1>1 DEF begin, Reached, Alive, TypeOK
  <2>2. IsFiniteSet(A)
    BY FS_Subset, SlotsAssumption
  <2>3. Cardinality(A) < MaxLive
    BY DEF begin
  <2>4. Cardinality(A) \in Nat
    BY <2>2, FS_CardinalityType
  <2> HIDE DEF A
  <2>5. Cardinality(A \cup {t}) <= Cardinality(A) + 1
    BY <2>2, <2>4, FS_AddElement
  <2>6. Cardinality(A \cup {t}) \in Nat
    BY <2>2, FS_AddElement, FS_CardinalityType
  <2> QED
    <3>1. MaxLive \in Int
      BY SlotsAssumption
    <3>2. Cardinality(A \cup {t}) <= MaxLive - k
      BY <1>1, <2>3, <2>4, <2>5, <2>6, <3>1
    <3> QED
      BY <2>1, <3>2
<1>2. CASE k > 0
  <2>1. Reached(k)' \subseteq Reached(k)
    BY <1>2 DEF begin, Reached, Alive, TypeOK
  <2>2. IsFiniteSet(Reached(k))
    BY FS_Subset, SlotsAssumption DEF Reached
  <2>3. /\ IsFiniteSet(Reached(k)')
        /\ Cardinality(Reached(k)') <= Cardinality(Reached(k))
    BY <2>1, <2>2, FS_Subset
  <2>4. Cardinality(Reached(k)) \in Nat /\ Cardinality(Reached(k)') \in Nat
    BY <2>2, <2>3, FS_CardinalityType
  <2> QED
    BY <2>3, <2>4, SlotsAssumption DEF Thinning
<1> QED
  BY <1>1, <1>2

(* A thread that moves past a slot leaves the slot's holder behind.        *)
LEMMA ScanThins ==
  ASSUME TypeOK, Held, Thinning, NEW t \in Threads, scan(t)
  PROVE  Thinning'
<1>1. CASE thread_ids[i[t]] = NULL
  <2>1. \A k \in 0..MaxLive : Reached(k)' \subseteq Reached(k)
    BY <1>1 DEF scan, Reached, Alive, TypeOK
  <2> QED
    BY <2>1, FewerReached
<1>2. CASE thread_ids[i[t]] # NULL
  <2> SUFFICES ASSUME NEW k \in 0..MaxLive
               PROVE  Cardinality(Reached(k)') <= MaxLive - k
    BY DEF Thinning
  <2>1. IsFiniteSet(Reached(k)) /\ Cardinality(Reached(k)) \in Nat
    BY FS_Subset, FS_CardinalityType, SlotsAssumption DEF Reached
  <2>2. i' = [i EXCEPT ![t] = @ + 1] /\ UNCHANGED pc /\ i[t] \in Nat /\ pc[t] = "scan"
    BY <1>2 DEF scan, TypeOK
  <2>3. CASE k # i[t] + 1
    <3>1. Reached(k)' = Reached(k)
      BY <2>2, <2>3 DEF Reached, Alive, TypeOK
    <3> QED
      BY <3>1 DEF Thinning
  <2>4. CASE k = i[t] + 1
    <3> DEFINE h == thread_ids[i[t]]
               S == Reached(k - 1)
    <3>1. h \in Threads /\ pc[h] = "in" /\ i[h] = k - 1
      BY <1>2, <2>4, SlotsAssumption DEF scan, Held, TypeOK, Slots, NULL
    <3>2. k - 1 \in 0..MaxLive
      BY <2>2, <2>4, SlotsAssumption
    <3>3. IsFiniteSet(S) /\ Cardinality(S) \in Nat /\ Cardinality(S) <= MaxLive - (k - 1)
      BY <3>2, FS_Subset, FS_CardinalityType, SlotsAssumption DEF Reached, Thinning
    <3>4. h \in S
      BY <3>1 DEF Reached, Alive
    <3>5. Reached(k)' \subseteq S \ {h}
      BY <2>2, <2>4, <3>1 DEF Reached, Alive, TypeOK
    <3> HIDE DEF S, h
    <3>6. IsFiniteSet(S \ {h}) /\ Cardinality(S \ {h}) = Cardinality(S) - 1
      BY <3>3, <3>4, FS_RemoveElement
    <3>7. /\ IsFiniteSet(Reached(k)')
          /\ Cardinality(Reached(k)') <= Cardinality(S \ {h})
      BY <3>5, <3>6, FS_Subset
    <3>8. Cardinality(Reached(k)') \in Nat
      BY <3>7, FS_CardinalityType
    <3> QED
      BY <3>3, <3>6, <3>7, <3>8, SlotsAssumption
  <2> QED
    BY <2>3, <2>4
<1> QED
  BY <1>1, <1>2

LEMMA ThinningStep == TypeOK /\ Held /\ Thinning /\ [Next]_vars => Thinning'
<1> SUFFICES ASSUME TypeOK, Held, Thinning, [Next]_vars PROVE Thinning'
  OBVIOUS
<1>1. ASSUME NEW t \in Threads, take(t) PROVE Thinning'
  <2>1. \A k \in 0..MaxLive : Reached(k)' \subseteq Reached(k)
    BY <1>1 DEF take, Reached, Alive, TypeOK
  <2> QED
    BY <2>1, FewerReached
<1>2. ASSUME NEW t \in Threads, destroy(t) PROVE Thinning'
  <2>1. \A k \in 0..MaxLive : Reached(k)' \subseteq Reached(k)
    BY <1>2 DEF destroy, Reached, Alive, TypeOK
  <2> QED
    BY <2>1, FewerReached
<1>3. CASE UNCHANGED vars
  <2>1. \A k \in 0..MaxLive : Reached(k)' = Reached(k)
    BY <1>3 DEF vars, Reached, Alive
  <2> QED
    BY <2>1, FewerReached
<1> QED
  BY <1>1, <1>2, <1>3, BeginThins, ScanThins DEF Next

LEMMA SlotsInit == Init => TypeOK /\ Held /\ Thinning
<1> SUFFICES ASSUME Init PROVE TypeOK /\ Held /\ Thinning
  OBVIOUS
<1>1. TypeOK /\ Held
  BY SlotsAssumption DEF Init, TypeOK, Held, Slots, NULL
<1>2. \A k \in 0..MaxLive : Reached(k) = {}
  BY DEF Init, Reached, Alive
<1>3. Thinning
  BY <1>2, FS_EmptySet, SlotsAssumption DEF Thinning
<1> QED
  BY <1>1, <1>3

THEOREM SlotsInvariant == Spec => [](TypeOK /\ Held /\ Thinning)
  BY SlotsInit, TypeStep, HeldStep, ThinningStep, PTL DEF Spec

(* Every scan index stays in 0..KCAS_MAX_THREADS and every slot a thread   *)
(* holds is one of the array, whatever threads come and go.                *)
THEOREM TypeCorrect == Spec => []TypeOK
BY SlotsInvariant, PTL

(* The slot of a thread is its own until it exits, for any number of       *)
(* threads: TIDGenerator's constructor and destructor hand out and take    *)
(* back the slots without conflict.                                        *)
THEOREM SlotIsExclusive == Spec => []SlotExclusive
<1>1. TypeOK /\ Held => SlotExclusive
  BY DEF TypeOK, Held, SlotExclusive, Owns
<1> QED
  BY <1>1, SlotsInvariant, PTL

(* The loop "while (thread_ids[i]) ++i" finds a slot before the end of the *)
(* array, for any number of slots and as many threads.                     *)
THEOREM ScanStaysInside == Spec => []NoOverrun
<1>1. TypeOK /\ Thinning => NoOverrun
  BY NobodyBeyond, SlotsAssumption DEF TypeOK, NoOverrun, Alive
<1> QED
  BY <1>1, SlotsInvariant, PTL
=============================================================================
