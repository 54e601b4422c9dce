----------------------------- MODULE KCASProofs -----------------------------
(***************************************************************************)
(* Theorems about KCAS: for any threads, words, values and requests, with  *)
(* or without versions, and, for requests that honour the discipline of    *)
(* the callers, that no tag is lost and that kcas is atomic.               *)
(***************************************************************************)
EXTENDS KCASThreadProofs, KCASLockProofs, KCASHistoryProofs, FiniteSetTheorems

LEMMA StepKnown == Inv1 /\ [Next]_vars => Inv1' /\ TypeOK' /\ Evolves
<1> SUFFICES ASSUME Inv1, [Next]_vars PROVE Inv1' /\ TypeOK' /\ Evolves
  OBVIOUS
<1>1. TypeOK'
  BY TypeStep
<1>2. Evolves
  BY <1>1, EvolvesStep
<1> QED
  BY <1>1, <1>2, Inv1Step

(* Inv1 is an invariant: every thread is where its program counter says,   *)
(* and works on tags that were issued and on copies that are right.        *)
THEOREM Inv1Always == Spec => []Inv1
BY Inv1Init, StepKnown, PTL DEF Spec

(* Whatever the threads do, words, descriptors and locals keep their types *)
(* ...                                                                     *)
THEOREM TypeCorrect == Spec => []TypeOK
<1>1. Inv1 => TypeOK
  BY DEF Inv1
<1> QED
  BY <1>1, Inv1Always, PTL

(* ... and a copy of a descriptor that passed the check of DESC_SNAPSHOT   *)
(* is that of the request its tag names, for as long as that request       *)
(* lives, however often the owner has reused the descriptor.               *)
THEOREM SnapshotsAreSound == Spec => []SnapshotSound
BY Inv1Always, SnapshotKnown, PTL

Inv == Inv1 /\ Inv2 /\ Inv3

(* Whatever the threads do, the descriptors, their copies on the stacks of *)
(* help() and the tags in the words fit together: the inductive invariant  *)
(* behind the theorems below.                                              *)
THEOREM InvAlways == Spec => []Inv
<1>1. Init => Inv
  BY Inv1Init, LocksInit DEF Inv
<1>2. Inv /\ [Next]_vars => Inv'
  BY StepKnown, Inv2Step, Inv3Step DEF Inv
<1> QED
  BY <1>1, <1>2, PTL DEF Spec

(* An RDCSS descriptor is reused only when no word refers to it: whoever   *)
(* comes across its tag in rdcss() or rdcssRead(), its owner is still in   *)
(* rdcssHelp() for the same word.                                          *)
THEOREM RdcssTagsAreLive == Spec => []RdcssTagsLive
<1>1. Inv => RdcssTagsLive
  BY DEF Inv, Inv2
<1> QED
  BY <1>1, InvAlways, PTL

(* In phase 1 of help() every word that the loop of the owner or of any    *)
(* helper has passed holds the tag of the request, as long as the request  *)
(* is undecided.                                                           *)
THEOREM PrefixIsLocked == Spec => []LockedPrefix
<1>1. Inv => LockedPrefix
  BY PrefixKnown DEF Inv
<1> QED
  BY <1>1, InvAlways, PTL

(* The state field of a request becomes SUCCEEDED only in a state where    *)
(* all its words hold its tag: the SEQBITS_CAS_FIELD of help() is the      *)
(* point at which the k words change, all at once.                         *)
THEOREM SuccessAllAtOnce == Spec => SuccessIsAtomic
<1>1. Inv /\ [Next]_vars =>
        [\A t \in Threads :
           kdesc[t].state = "UNDECIDED" /\ kdesc'[t].state = "SUCCEEDED" =>
             \A i \in DOMAIN kdesc[t].entries :
               mem[kdesc[t].entries[i].addr] = KcasTag(t, kdesc[t].seq)]_vars
  BY StepKnown, SuccessLocked DEF Inv
<1> QED
  BY <1>1, InvAlways, PTL DEF Spec, SuccessIsAtomic

(* No step of any thread, however late it comes, changes the decision on a *)
(* request during the life of the descriptor.                              *)
THEOREM DecisionsAreStable == Spec => DecisionStable
<1>1. Inv1 /\ [Next]_vars =>
        [\A t \in Threads :
           kdesc[t].state # "UNDECIDED" /\ kdesc'[t].seq = kdesc[t].seq =>
             kdesc'[t].state = kdesc[t].state]_vars
  BY StepKnown, DecisionKept
<1> QED
  BY <1>1, Inv1Always, PTL DEF Spec, DecisionStable

-----------------------------------------------------------------------------
(* kcasdesc_sort loses no entry.                                           *)
LEMMA SortedAll ==
  ASSUME NEW us \in Seq(Entry), NEW es \in SortedEntries(us), NEW j \in DOMAIN us
  PROVE  \E i \in DOMAIN es : es[i] = us[j]
<1> DEFINE T == {us[i] : i \in DOMAIN us}
<1>0. PICK n \in Nat : n = Len(us)
  OBVIOUS
<1>1. DOMAIN us = 1..n /\ us \in [1..n -> T]
  BY <1>0
<1>2. es \in [1..n -> T] /\ IsSorted(es) /\ es \in Seq(Entry) /\ DOMAIN es = 1..n
  BY Zenon, <1>0, <1>1, SortedType DEF SortedEntries
<1>3. IsFiniteSet(1..n) /\ Cardinality(1..n) = n
  <2>1. 1 \in Int /\ n \in Int
    OBVIOUS
  <2>2. IsFiniteSet(1..n) /\ Cardinality(1..n) = IF 1 > n THEN 0 ELSE n - 1 + 1
    BY Zenon, <2>1, FS_Interval
  <2> QED
    BY <2>2
<1>4. us \in Surjection(1..n, T)
  BY <1>1 DEF Surjection
<1>5. IsFiniteSet(T) /\ Cardinality(T) <= n /\ Cardinality(T) \in Nat
  BY <1>3, <1>4, FS_Surjection, FS_CardinalityType
<1>6. es \in Injection(1..n, T)
  <2>1. ASSUME NEW i \in 1..n, NEW k \in 1..n, es[i] = es[k] PROVE i = k
    <3>1. es[i].addr \in Nat /\ es[i].addr = es[k].addr
      BY <1>2, <2>1, EntryAt
    <3>2. es[i].addr <= es[k].addr /\ es[k].addr <= es[i].addr
      BY <3>1
    <3>3. i <= k /\ k <= i
      BY <1>2, <3>2, SortedDistinct
    <3> QED
      BY <3>3
  <2> QED
    BY <1>2, <2>1 DEF Injection, IsInjective
<1>7. es \in Surjection(1..n, T)
  BY <1>3, <1>5, <1>6, FS_Injection
<1> QED
  BY Zenon, <1>1, <1>2, <1>7 DEF Surjection

(* The sorted request follows the discipline as the one that was built.    *)
LEMMA DisciplineSorted ==
  ASSUME NEW us \in Seq(Entry), NEW es \in SortedEntries(us), FollowsDiscipline(us)
  PROVE  FollowsDiscipline(es)
<1>1. ASSUME NEW i \in DOMAIN es
      PROVE  LET e == es[i]
                 g == Guard[e.addr]
             IN  IF g = e.addr
                 THEN e.old <= Logical(g) /\ e.old <= e.new
                 ELSE \E j \in DOMAIN es : /\ es[j].addr = g
                                           /\ e.new # e.old => es[j].new > es[j].old
  <2>1. PICK n \in DOMAIN us : us[n] = es[i]
    BY DEF SortedEntries
  <2>2. CASE Guard[es[i].addr] = es[i].addr
    BY <2>1, <2>2 DEF FollowsDiscipline
  <2>3. CASE Guard[es[i].addr] # es[i].addr
    <3>1. PICK m \in DOMAIN us : /\ us[m].addr = Guard[es[i].addr]
                                 /\ es[i].new # es[i].old => us[m].new > us[m].old
      BY <2>1, <2>3 DEF FollowsDiscipline
    <3>2. PICK j \in DOMAIN es : es[j] = us[m]
      BY SortedAll
    <3> QED
      BY <2>3, <3>1, <3>2
  <2> QED
    BY <2>2, <2>3
<1> QED
  BY <1>1 DEF FollowsDiscipline

(* The part of the invariant that rests on the callers' discipline.        *)
THEOREM Inv4Always ==
  ASSUME Disciplined
  PROVE  Spec => [](Inv /\ Inv4)
<1>1. Init => Inv4
  BY Inv4Init
<1>2. SortingIsFair
  BY DisciplineSorted DEF SortingIsFair
<1>3. Inv /\ Inv4 /\ [Next]_vars => Inv4'
  BY <1>2, StepKnown, Inv4Step DEF Inv
<1> QED
  BY <1>1, <1>3, InvAlways, PTL DEF Spec

(* Callers that change a word only along with its version get their        *)
(* descriptors back clean: when execute() returns, no word holds the tag   *)
(* of the request any more, whoever helped it and however late, so         *)
(* start() may reuse the descriptor.                                       *)
THEOREM TagsAreLive ==
  ASSUME Disciplined
  PROVE  Spec => []TagsLive
<1>1. Inv4 => TagsLive
  BY DEF Inv4
<1> QED
  BY <1>1, Inv4Always, PTL

-----------------------------------------------------------------------------
(* What the request of a thread is to the abstract specification.          *)
LEMMA RequestIs ==
  ASSUME NEW es \in Seq(Entry), IsSorted(es), es # <<>>, Len(es) <= MaxK
  PROVE  {es[i] : i \in DOMAIN es} \in Strong!Requests
<1> DEFINE T == {es[i] : i \in DOMAIN es}
<1>0. PICK n \in Nat : n = Len(es)
  OBVIOUS
<1>1. DOMAIN es = 1..n /\ es \in [1..n -> T]
  BY <1>0
<1>2. IsFiniteSet(1..n) /\ Cardinality(1..n) = n
  <2>1. 1 \in Int /\ n \in Int
    OBVIOUS
  <2>2. IsFiniteSet(1..n) /\ Cardinality(1..n) = IF 1 > n THEN 0 ELSE n - 1 + 1
    BY Zenon, <2>1, FS_Interval
  <2> QED
    BY <2>2
<1>3. es \in Surjection(1..n, T)
  BY <1>1 DEF Surjection
<1>4. IsFiniteSet(T) /\ Cardinality(T) <= n /\ Cardinality(T) \in Nat
  BY <1>2, <1>3, FS_Surjection, FS_CardinalityType
<1>5. T # {}
  <2>1. 1 \in DOMAIN es
    OBVIOUS
  <2> QED
    BY <2>1
<1>6. Cardinality(T) # 0
  BY Zenon, <1>4, <1>5, FS_EmptySet
<1>7. Cardinality(T) \in 1..MaxK
  BY <1>0, <1>4, <1>6, ConstantsAssumption
<1>8. ASSUME NEW e \in T, NEW f \in T, e.addr = f.addr PROVE e = f
  <2>1. PICK i \in DOMAIN es, j \in DOMAIN es : e = es[i] /\ f = es[j]
    OBVIOUS
  <2>2. es[i].addr <= es[j].addr /\ es[j].addr <= es[i].addr
    BY <1>8, <2>1, EntryAt
  <2>3. i <= j /\ j <= i
    BY <2>2, SortedDistinct
  <2> QED
    BY <2>1, <2>3
<1>9. T \in SUBSET Entry
  OBVIOUS
<1> HIDE DEF T
<1>10. T \in Strong!Requests
  BY <1>7, <1>8, <1>9 DEF Strong!Requests, Strong!Entry, Entry, Strong!Cardinality, Cardinality
<1> QED
  BY <1>10 DEF T

(* The request that execute() publishes is one the abstract specification  *)
(* allows.                                                                 *)
LEMMA RequestMade ==
  ASSUME Inv1, NEW t \in Threads, execute(t), DraftOK(t)
  PROVE  Request(t)' \in Strong!Requests
<1>1. PICK es \in SortedEntries(kdesc[t].entries) :
        kdesc'[t].entries = es /\ es \in Seq(Entry) /\ kdesc[t].entries \in Seq(Entry)
  BY Executes
<1>2. IsSorted(es) /\ Len(es) = Len(kdesc[t].entries)
  BY <1>1, SortedType DEF SortedEntries
<1>3. es # <<>> /\ Len(es) <= MaxK
  <2>1. kdesc[t].entries # <<>>
    BY DEF execute
  <2>2. Len(kdesc[t].entries) # 0
    BY <1>1, <2>1
  <2> QED
    BY <1>1, <1>2, <2>2 DEF DraftOK
<1> QED
  BY <1>1, <1>2, <1>3, RequestIs DEF Request

(* KCASLockFree is linearizable for callers that change a word only along  *)
(* with its version: execute() swaps all its words at the step that        *)
(* decides it, returns false only if one of them differed meanwhile, and   *)
(* readPtr()/readVal() return a value the word had during the read.        *)
THEOREM KcasIsAtomic ==
  ASSUME Disciplined
  PROVE  HSpec => Atomicity
<1>1. HInit => Init /\ HInv /\ Strong!Init
  BY HInvInit DEF HInit
<1>2. [HNext]_hvars => [Next]_vars
  BY DEF HNext, hvars, vars
<1>3. HSpec => Spec
  BY <1>1, <1>2, PTL DEF HSpec, Spec
<1>4. HSpec => [](Inv /\ Inv4)
  BY <1>3, Inv4Always, PTL
<1>5. Inv /\ Inv4 /\ Inv4' /\ HInv /\ [HNext]_hvars => HInv' /\ [Strong!Next]_(Strong!vars)
  <2> SUFFICES ASSUME Inv, Inv4, Inv4', HInv, [HNext]_hvars
               PROVE  HInv' /\ [Strong!Next]_(Strong!vars)
    OBVIOUS
  <2>1. Inv1 /\ Inv2 /\ Inv3 /\ TypeOK' /\ Evolves
    BY <1>2, StepKnown DEF Inv
  <2>2. \A t \in Threads : execute(t) => Request(t)' \in Strong!Requests
    BY <2>1, RequestMade DEF HInv
  <2> QED
    BY <2>1, <2>2, HInvStep, HStep
<1> QED
  BY <1>1, <1>4, <1>5, PTL DEF HSpec, Atomicity, Strong!Spec
=============================================================================
