--------------------------- MODULE KCASInvariants ---------------------------
(***************************************************************************)
(* The inductive invariant of KCAS, and what a step of a thread leaves of  *)
(* it: of the descriptors, of the words that requests have locked, and of  *)
(* what the other threads know.                                            *)
(***************************************************************************)
EXTENDS KCAS, TLAPS

(* The tag was given to a published request, which may be over: a request  *)
(* under construction has a number that no tag has yet.                    *)
KIssued(k) ==
  /\ k \in KcasTags
  /\ 1 < k.seq
  /\ k.seq <= kdesc[k.tid].seq
  /\ k.tid \in building => k.seq < kdesc[k.tid].seq

RIssued(r) ==
  /\ r \in RdcssTags
  /\ 2 < r.seq
  /\ r.seq <= rdesc[r.tid].seq

(* The RDCSS that a thread needs for the entry it is at.                   *)
RdcssFor(t) == [ktag |-> Top(t).tag, addr |-> CurrentEntry(t).addr,
                old |-> CurrentEntry(t).old]

HelpPcs == {"check_kcas", "help", "entry", "fill", "rdcss", "decide",
            "phase2", "unlock"}
RdcssPcs == {"copy_rdcss", "check_rdcss", "rdcss_state", "rdcss_finish"}
EntryPcs == {"entry", "fill", "rdcss", "copy_kcas", "unlock"} \cup RdcssPcs

-----------------------------------------------------------------------------
(* What a thread's program counter says of its stack, ...                  *)
StackOK(t) ==
  /\ pc[t] \in {"idle", "read"} => depth[t] = 0
  /\ pc[t] \in HelpPcs => depth[t] > 0
  /\ pc[t] = "idle" => reg[t].addr = NULL
  /\ pc[t] # "idle" /\ depth[t] = 0 => reg[t].addr \in Addrs

(* ... of its locals in rdcssRead and rdcssHelp, ...                       *)
RegOK(t) ==
  /\ pc[t] = "copy_kcas" => KIssued(reg[t].tag)
  /\ pc[t] \in RdcssPcs => RIssued(reg[t].tag)
  /\ pc[t] \in {"copy_rdcss", "check_rdcss"} => reg[t].helping
  /\ pc[t] \in {"rdcss_state", "rdcss_finish"} =>
       reg[t].copy \in Rdcss /\ KIssued(reg[t].copy.ktag)
  /\ pc[t] \in {"check_rdcss", "rdcss_state", "rdcss_finish"} /\
       reg[t].tag.seq = rdesc[reg[t].tag.tid].seq =>
       reg[t].copy = rdesc[reg[t].tag.tid].body
  /\ Finishing(t) => depth[t] > 0 /\ reg[t].tag = RdcssTag(t, rdesc[t].seq)
                       /\ reg[t].copy = rdesc[t].body

(* ... and of its descriptors.                                             *)
DescOK(t) ==
  /\ kdesc[t].seq > 0 /\ rdesc[t].seq > 0
  /\ t \in building => kdesc[t].seq <= Len(EntriesOf[t])
  /\ t \notin building /\ kdesc[t].seq > 1 => kdesc[t].entries # <<>>
  /\ pc[t] = "fill" => rdesc[t].seq > 1
  /\ rdesc[t].seq = 2 => pc[t] = "fill"
  /\ rdesc[t].seq > 2 => rdesc[t].body \in Rdcss /\ KIssued(rdesc[t].body.ktag)
  /\ pc[t] = "rdcss" \/ (pc[t] \in RdcssPcs /\ depth[t] > 0) =>
       rdesc[t].seq > 2 /\ rdesc[t].body = RdcssFor(t)

(* A stack frame of help: its copy is that of the request, or of a later   *)
(* one if the request is over; once checked it was the request's; and it   *)
(* is at one of the entries while the loops are in their bodies.           *)
CopyOK(f) ==
  /\ KIssued(f.tag)
  /\ f.tag.seq <= f.seq /\ f.seq <= kdesc[f.tag.tid].seq
  /\ Alive(f.tag) => f.entries = kdesc[f.tag.tid].entries

Checked(f) == f.seq = f.tag.seq /\ f.entries # <<>>

AtEntry(f) == f.i <= Len(f.entries)

FrameOK(t, d) ==
  LET f == frame[t][d] IN
  /\ CopyOK(f)
  /\ f.i >= 1
  /\ d < depth[t] \/ pc[t] # "check_kcas" => Checked(f)
  /\ d < depth[t] \/ pc[t] \in EntryPcs => AtEntry(f)
  /\ d > 1 => f.helping
  /\ d = 1 => (f.helping <=> reg[t].addr # NULL)

ThreadOK(t) ==
  /\ StackOK(t)
  /\ RegOK(t)
  /\ DescOK(t)
  /\ \A d \in 1..depth[t] : FrameOK(t, d)

(* The tags in the words were issued.                                      *)
WordsOK ==
  \A a \in Addrs : /\ isKcas(mem[a]) => KIssued(mem[a])
                   /\ isRdcss(mem[a]) => RIssued(mem[a])

Inv1 == TypeOK /\ WordsOK /\ \A t \in Threads : ThreadOK(t)

Undecided(k) == InState(k, "UNDECIDED")

FirstAddr(k) == kdesc[k.tid].entries[1].addr

(* A tag that anyone found in a word locks the first word of its request.  *)
FirstLocked(k) == Undecided(k) => mem[FirstAddr(k)] = k

WordsLocked == \A a \in Addrs : isKcas(mem[a]) => FirstLocked(mem[a])

(* Where the d-th help of a thread stands.                                 *)
Stage(t, d) ==
  IF d < depth[t] THEN "loop"
  ELSE CASE pc[t] \in {"check_kcas", "help"} -> "start"
         [] pc[t] = "decide"                 -> "decide"
         [] pc[t] \in {"phase2", "unlock"}   -> "release"
         [] OTHER                            -> "loop"

(* What its frame f then says of the words: a helper knows the first one   *)
(* to be locked, the loop has locked those it passed, it ends in a verdict *)
(* that is justified, and only a decided request is released.              *)
LockOK(f, s) ==
  /\ f.helping => FirstLocked(f.tag)
  /\ s = "start" => f.i = IF f.helping THEN 2 ELSE 1
  /\ s = "loop" => f.state = "SUCCEEDED"
  /\ s = "decide" => \/ f.state = "FAILED" /\ f.i <= Len(f.entries)
                     \/ f.state = "SUCCEEDED" /\ f.i = Len(f.entries) + 1
  /\ s = "release" => ~ Undecided(f.tag)
  /\ s \in {"loop", "decide"} /\ Undecided(f.tag) =>
       \A j \in 1..(f.i - 1) : mem[f.entries[j].addr] = f.tag

(* A thread in rdcssHelp: one that read another state than UNDECIDED was   *)
(* right for good, and the RDCSS of its own that it finishes is in place   *)
(* or has already been completed by someone.                               *)
FinishOK(t) ==
  /\ pc[t] = "rdcss_finish" /\ ~ reg[t].ok => ~ Undecided(reg[t].copy.ktag)
  /\ Finishing(t) /\ Undecided(reg[t].copy.ktag) =>
       mem[reg[t].copy.addr] \in {reg[t].tag, reg[t].copy.ktag}

LocksOK(t) ==
  /\ FinishOK(t)
  /\ pc[t] = "copy_kcas" => FirstLocked(reg[t].tag)
  /\ \A d \in 1..depth[t] : LockOK(frame[t][d], Stage(t, d))

(* Helping is over outside rdcssHelp.                                      *)
NotHelping == \A t \in Threads : pc[t] \notin RdcssPcs => ~ reg[t].helping

Inv2 == NotHelping /\ RdcssTagsLive

Inv3 == WordsLocked /\ \A t \in Threads : LocksOK(t)

-----------------------------------------------------------------------------
(* What TypeOK says of one thread.                                         *)

LEMMA KdescType ==
  ASSUME TypeOK, NEW t \in Threads
  PROVE  /\ kdesc[t] \in KcasDesc
         /\ kdesc[t].seq \in Nat /\ kdesc[t].state \in States
         /\ kdesc[t].entries \in Seq(Entry)
<1>1. kdesc[t] \in KcasDesc
  BY DEF TypeOK
<1> QED
  BY <1>1 DEF KcasDesc

LEMMA RdescType ==
  ASSUME TypeOK, NEW t \in Threads
  PROVE  /\ rdesc[t] \in RdcssDesc
         /\ rdesc[t].seq \in Nat /\ rdesc[t].body \in Rdcss \cup {NoRdcss}
<1>1. rdesc[t] \in RdcssDesc
  BY DEF TypeOK
<1> QED
  BY <1>1 DEF RdcssDesc

LEMMA DepthType ==
  ASSUME TypeOK, NEW t \in Threads
  PROVE  depth[t] \in Nat /\ MaxDepth \in Nat /\ depth[t] <= MaxDepth
<1>1. depth[t] \in 0..MaxDepth
  BY DEF TypeOK
<1> QED
  BY <1>1, ConstantsAssumption

LEMMA FrameType ==
  ASSUME TypeOK, NEW t \in Threads, NEW d \in 1..MaxDepth
  PROVE  frame[t][d] \in Frame
<1>1. frame \in [Threads -> [1..MaxDepth -> Frame]]
  BY DEF TypeOK
<1> QED
  BY Zenon, <1>1

LEMMA TopFrame ==
  ASSUME TypeOK, NEW t \in Threads, depth[t] > 0
  PROVE  /\ depth[t] \in 1..MaxDepth
         /\ Top(t) = frame[t][depth[t]]
         /\ Top(t) \in Frame
<1>1. depth[t] \in 1..MaxDepth
  BY DepthType
<1>2. frame[t][depth[t]] \in Frame
  BY <1>1, FrameType
<1> QED
  BY <1>1, <1>2 DEF Top

LEMMA CurrentEntryType ==
  ASSUME TypeOK, NEW t \in Threads, depth[t] > 0,
         Top(t).i >= 1, Top(t).i <= Len(Top(t).entries)
  PROVE  CurrentEntry(t) \in Entry
<1>1. Top(t).entries \in Seq(Entry) /\ Top(t).i \in Nat
  BY TopFrame DEF Frame
<1>2. Top(t).i \in 1..Len(Top(t).entries)
  BY <1>1
<1> QED
  BY <1>1, <1>2 DEF CurrentEntry

LEMMA SortedType ==
  ASSUME NEW us \in Seq(Entry), NEW es \in SortedEntries(us)
  PROVE  es \in Seq(Entry) /\ Len(es) = Len(us)
<1>1. DOMAIN us = 1..Len(us) /\ Len(us) \in Nat
  OBVIOUS
<1>2. \A n \in DOMAIN us : us[n] \in Entry
  OBVIOUS
<1>3. es \in [1..Len(us) -> Entry]
  BY <1>1, <1>2 DEF SortedEntries
<1> QED
  BY <1>1, <1>3

-----------------------------------------------------------------------------
(* What no step does, whoever takes it: sequence numbers never go back,    *)
(* and within a life a published descriptor keeps its entries and is       *)
(* decided at most once.                                                   *)
Evolves ==
  \A v \in Threads :
    /\ kdesc'[v].seq >= kdesc[v].seq
    /\ kdesc'[v].seq = kdesc[v].seq => (v \in building' <=> v \in building)
    /\ kdesc'[v].seq = kdesc[v].seq /\ v \notin building =>
         /\ kdesc'[v].entries = kdesc[v].entries
         /\ kdesc[v].state # "UNDECIDED" => kdesc'[v].state = kdesc[v].state
    /\ rdesc'[v].seq >= rdesc[v].seq
    /\ rdesc'[v].seq = rdesc[v].seq => rdesc'[v].body = rdesc[v].body

LEMMA KIssuedStays ==
  ASSUME TypeOK, TypeOK', Evolves, NEW k, KIssued(k)
  PROVE  KIssued(k)'
<1>1. k.tid \in Threads /\ k.seq \in Nat
  BY DEF KIssued, KcasTags
<1>2. kdesc[k.tid].seq \in Nat /\ kdesc'[k.tid].seq \in Nat
  BY <1>1, KdescType DEF TypeOK, KcasDesc
<1> QED
  BY <1>1, <1>2 DEF KIssued, Evolves

LEMMA RIssuedStays ==
  ASSUME TypeOK, TypeOK', Evolves, NEW k, RIssued(k)
  PROVE  RIssued(k)'
<1>1. k.tid \in Threads /\ k.seq \in Nat
  BY DEF RIssued, RdcssTags
<1>2. rdesc[k.tid].seq \in Nat /\ rdesc'[k.tid].seq \in Nat
  BY <1>1 DEF TypeOK, RdcssDesc
<1> QED
  BY <1>1, <1>2 DEF RIssued, Evolves

LEMMA AliveBefore ==
  ASSUME TypeOK, TypeOK', Evolves, NEW k, KIssued(k), Alive(k)'
  PROVE  /\ Alive(k)
         /\ kdesc'[k.tid].entries = kdesc[k.tid].entries
         /\ kdesc[k.tid].state # "UNDECIDED" => kdesc'[k.tid].state = kdesc[k.tid].state
<1>1. k.tid \in Threads /\ k.seq \in Nat
  BY DEF KIssued, KcasTags
<1>2. kdesc[k.tid].seq \in Nat /\ kdesc'[k.tid].seq \in Nat
  BY <1>1 DEF TypeOK, KcasDesc
<1>3. kdesc'[k.tid].seq = k.seq
  BY DEF Alive
<1>4. kdesc[k.tid].seq = k.seq
  BY <1>1, <1>2, <1>3 DEF KIssued, Evolves
<1>5. k.tid \notin building
  BY <1>1, <1>2, <1>4 DEF KIssued
<1> QED
  BY <1>1, <1>3, <1>4, <1>5 DEF Evolves, Alive

LEMMA CopyOKStays ==
  ASSUME TypeOK, TypeOK', Evolves, NEW f \in Frame, CopyOK(f)
  PROVE  CopyOK(f)'
<1>1. KIssued(f.tag)
  BY DEF CopyOK
<1>2. KIssued(f.tag)'
  BY <1>1, KIssuedStays
<1>3. f.tag.tid \in Threads
  BY <1>1 DEF KIssued, KcasTags
<1>4. f.seq \in Nat /\ kdesc[f.tag.tid].seq \in Nat /\ kdesc'[f.tag.tid].seq \in Nat
  BY <1>3 DEF TypeOK, Frame, KcasDesc
<1>5. f.seq <= kdesc'[f.tag.tid].seq
  BY <1>3, <1>4 DEF Evolves, CopyOK
<1>6. Alive(f.tag)' => f.entries = kdesc'[f.tag.tid].entries
  BY <1>1, AliveBefore DEF CopyOK
<1> QED
  BY <1>2, <1>5, <1>6 DEF CopyOK

-----------------------------------------------------------------------------
(* The entry that a loop of help is at.                                    *)
LEMMA AtCurrentEntry ==
  ASSUME Inv1, NEW t \in Threads, depth[t] > 0, pc[t] \in EntryPcs
  PROVE  CurrentEntry(t) \in Entry /\ CurrentEntry(t).addr \in Addrs
<1>1. TypeOK /\ ThreadOK(t)
  BY DEF Inv1
<1>2. depth[t] \in 1..depth[t]
  BY <1>1, DepthType
<1>3. FrameOK(t, depth[t])
  BY <1>1, <1>2 DEF ThreadOK
<1>4. Top(t).i >= 1 /\ Top(t).i <= Len(Top(t).entries)
  BY <1>3 DEF FrameOK, AtEntry, Top
<1>5. CurrentEntry(t) \in Entry
  BY <1>1, <1>4, CurrentEntryType
<1> QED
  BY <1>5 DEF Entry

-----------------------------------------------------------------------------
(* A step of one thread leaves the locals of the others alone, and what    *)
(* identifies their requests.                                              *)
LEMMA OthersKept ==
  ASSUME TypeOK, NEW t \in Threads, NEW u \in Threads, u # t,
         \/ start(t) \/ add(t) \/ execute(t) \/ Step(t)
         \/ \E a \in ReadsOf[t] : readPtr(t, a)
  PROVE  /\ pc'[u] = pc[u] /\ depth'[u] = depth[u] /\ frame'[u] = frame[u]
         /\ reg'[u] = reg[u] /\ rdesc'[u] = rdesc[u]
         /\ kdesc'[u].seq = kdesc[u].seq /\ kdesc'[u].entries = kdesc[u].entries
         /\ u \in building' <=> u \in building
<1> USE DEF TypeOK, Goto
<1>1. CASE start(t)
  BY Zenon, <1>1 DEF start
<1>2. CASE add(t)
  BY <1>2 DEF add
<1>3. CASE execute(t)
  BY Zenon, <1>3 DEF execute, Push
<1>4. CASE \E a \in ReadsOf[t] : readPtr(t, a)
  BY <1>4 DEF readPtr
<1>5. CASE rdcssRead(t)
  BY <1>5 DEF rdcssRead
<1>6. CASE rdcssCopy(t)
  BY <1>6 DEF rdcssCopy
<1>7. CASE rdcssCheck(t)
  BY <1>7 DEF rdcssCheck, Retry, ForgetRdcss
<1>8. CASE rdcssReadState(t)
  BY <1>8 DEF rdcssReadState
<1>9. CASE rdcssHelp(t)
  BY <1>9 DEF rdcssHelp, Retry, ForgetRdcss, NextEntry
<1>10. CASE kcasCopy(t)
  BY <1>10 DEF kcasCopy, Push
<1>11. CASE kcasCheck(t)
  BY Zenon, <1>11 DEF kcasCheck, Return
<1>12. CASE helpReadState(t)
  BY Zenon, <1>12 DEF helpReadState, Return
<1>13. CASE rdcssNew(t)
  BY <1>13 DEF rdcssNew
<1>14. CASE rdcssInitialized(t)
  BY Zenon, <1>14 DEF rdcssInitialized
<1>15. CASE rdcss(t)
  BY <1>15 DEF rdcss, NextEntry
<1>16. CASE decide(t)
  <2>1. kdesc'[u].seq = kdesc[u].seq /\ kdesc'[u].entries = kdesc[u].entries
    <3>1. CASE kdesc' = kdesc
      BY Zenon, <3>1
    <3>2. CASE kdesc' = [kdesc EXCEPT ![Top(t).tag.tid].state = Top(t).state]
      <4>1. kdesc[u] \in [seq : Nat, state : States, entries : Seq(Entry)]
        BY Zenon DEF KcasDesc
      <4> HIDE DEF TypeOK
      <4>2. PICK o, st : kdesc' = [kdesc EXCEPT ![o].state = st]
        BY Zenon, <3>2
      <4>3. DOMAIN kdesc = Threads
        BY DEF TypeOK
      <4> QED
        BY <4>1, <4>2, <4>3
    <3> QED
      BY Zenon, <1>16, <3>1, <3>2 DEF decide
  <2>2. pc'[u] = pc[u] /\ UNCHANGED <<building, depth, frame, reg, rdesc>>
    BY <1>16 DEF decide
  <2> QED
    BY Zenon, <2>1, <2>2
<1>17. CASE phase2(t)
  BY Zenon, <1>17 DEF phase2, Return
<1>18. CASE unlock(t)
  BY <1>18 DEF unlock, Return
<1> HIDE DEF TypeOK, Goto
<1> QED
  BY Zenon, <1>1, <1>2, <1>3, <1>4, <1>5, <1>6, <1>7, <1>8, <1>9, <1>10, <1>11, <1>12, <1>13,
     <1>14, <1>15, <1>16, <1>17, <1>18 DEF Step

-----------------------------------------------------------------------------
(* A thread takes a step.                                                  *)
Acts(t) == \/ start(t) \/ add(t) \/ execute(t) \/ Step(t)
           \/ \E a \in ReadsOf[t] : readPtr(t, a)

LEMMA ActsOrNot == [Next]_vars <=> UNCHANGED vars \/ \E t \in Threads : Acts(t)
BY DEF Next, Acts

LEMMA UndecidedBefore ==
  ASSUME TypeOK, TypeOK', Evolves, NEW k, KIssued(k), Undecided(k)'
  PROVE  Undecided(k) /\ FirstAddr(k)' = FirstAddr(k)
<1>1. Alive(k)' /\ kdesc'[k.tid].state = "UNDECIDED"
  BY DEF Undecided, InState
<1>2. k.tid \in Threads
  BY DEF KIssued, KcasTags
<1> QED
  BY <1>1, <1>2, AliveBefore DEF Undecided, InState, FirstAddr

(* How a word changes: an RDCSS tag replaces the old value, the k-CAS tag  *)
(* or the old value replaces that, and a value replaces the k-CAS tag.     *)
RdcssInstalls(t, a) ==
  /\ rdcss(t)
  /\ a = CurrentEntry(t).addr
  /\ mem[a] = Val(CurrentEntry(t).old)
  /\ mem'[a] = RdcssTag(t, rdesc[t].seq)
  /\ reg'[t].tag = RdcssTag(t, rdesc[t].seq)
  /\ reg'[t].copy = rdesc[t].body
  /\ reg'[t].helping = reg[t].helping
  /\ pc'[t] = "rdcss_state"

RdcssCompletes(t, a) ==
  /\ rdcssHelp(t)
  /\ a = reg[t].copy.addr
  /\ mem[a] = reg[t].tag
  /\ mem'[a] = IF reg[t].ok THEN reg[t].copy.ktag ELSE Val(reg[t].copy.old)

Unlocks(t, a) ==
  /\ unlock(t)
  /\ a = CurrentEntry(t).addr
  /\ mem[a] = Top(t).tag
  /\ \E v : mem'[a] = Val(v)

LEMMA WordChange ==
  ASSUME TypeOK, NEW t \in Threads, Acts(t), NEW a \in Addrs, mem'[a] # mem[a]
  PROVE  RdcssInstalls(t, a) \/ RdcssCompletes(t, a) \/ Unlocks(t, a)
<1>1. rdcss(t) \/ rdcssHelp(t) \/ unlock(t)
  BY Zenon DEF Acts, Step, start, add, execute, readPtr, rdcssRead, rdcssCopy, rdcssCheck,
         rdcssReadState, kcasCopy, kcasCheck, helpReadState, rdcssNew, rdcssInitialized,
         decide, phase2
<1>2. CASE rdcss(t)
  <2>1. /\ mem[CurrentEntry(t).addr] = Val(CurrentEntry(t).old)
        /\ mem' = [mem EXCEPT ![CurrentEntry(t).addr] = RdcssTag(t, rdesc[t].seq)]
        /\ reg' = [reg EXCEPT ![t].tag = RdcssTag(t, rdesc[t].seq),
                              ![t].copy = rdesc[t].body]
        /\ pc' = [pc EXCEPT ![t] = "rdcss_state"]
    BY <1>2 DEF rdcss, Goto
  <2>2. a = CurrentEntry(t).addr /\ mem'[a] = RdcssTag(t, rdesc[t].seq)
    BY <2>1 DEF TypeOK
  <2>3. /\ reg'[t].tag = RdcssTag(t, rdesc[t].seq) /\ reg'[t].copy = rdesc[t].body
        /\ reg'[t].helping = reg[t].helping /\ pc'[t] = "rdcss_state"
    BY <2>1 DEF TypeOK, Reg
  <2> QED
    BY <1>2, <2>1, <2>2, <2>3 DEF RdcssInstalls
<1>3. CASE rdcssHelp(t)
  BY <1>3 DEF rdcssHelp, BoolCas, TypeOK, RdcssCompletes
<1>4. CASE unlock(t)
  <2>1. PICK v : v = IF Top(t).state = "SUCCEEDED" THEN CurrentEntry(t).new
                     ELSE CurrentEntry(t).old
    OBVIOUS
  <2>2. /\ mem[CurrentEntry(t).addr] = Top(t).tag
        /\ mem' = [mem EXCEPT ![CurrentEntry(t).addr] = Val(v)]
    BY <1>4, <2>1 DEF unlock, BoolCas
  <2>3. a = CurrentEntry(t).addr /\ mem'[a] = Val(v)
    BY <2>2 DEF TypeOK
  <2> QED
    BY <1>4, <2>2, <2>3 DEF Unlocks
<1> QED
  BY <1>1, <1>2, <1>3, <1>4

-----------------------------------------------------------------------------
(* Locks.                                                                  *)

(* A word that is locked stays locked until the request is decided.        *)
LEMMA LockStays ==
  ASSUME Inv1, TypeOK', Evolves, Inv3, NEW t \in Threads, Acts(t), NEW a \in Addrs,
         NEW k, KIssued(k), mem[a] = k, Undecided(k)'
  PROVE  mem'[a] = k
<1> SUFFICES ASSUME mem'[a] # k PROVE FALSE
  OBVIOUS
<1>1. TypeOK /\ ThreadOK(t) /\ LocksOK(t) /\ k.kind = "kcas"
  BY DEF Inv1, Inv3, KIssued, KcasTags
<1>2. Undecided(k)
  BY <1>1, UndecidedBefore
<1>3. CASE RdcssInstalls(t, a)
  <2>1. mem[a].kind = "val"
    BY <1>3 DEF RdcssInstalls, Val
  <2> QED
    BY <1>1, <2>1
<1>4. CASE RdcssCompletes(t, a)
  <2>1. mem[a].kind = "rdcss"
    BY <1>1, <1>4 DEF RdcssCompletes, rdcssHelp, ThreadOK, RegOK, RdcssPcs, RIssued, RdcssTags
  <2> QED
    BY SMTT(30), <1>1, <2>1
<1>5. CASE Unlocks(t, a)
  <2>1. pc[t] = "unlock" /\ Top(t).tag = k
    BY <1>5 DEF Unlocks, unlock
  <2>2. depth[t] > 0 /\ depth[t] \in Nat
    BY <1>1, <2>1, DepthType DEF ThreadOK, StackOK, HelpPcs
  <2>3. depth[t] \in 1..depth[t] /\ ~ (depth[t] < depth[t])
    BY <2>2
  <2>4. Stage(t, depth[t]) = "release"
    BY <2>1, <2>3 DEF Stage
  <2>5. LockOK(Top(t), "release")
    BY <1>1, <2>3, <2>4 DEF LocksOK, Top
  <2> QED
    BY <1>2, <2>1, <2>5 DEF LockOK
<1> QED
  BY <1>1, <1>3, <1>4, <1>5, WordChange

LEMMA FirstAddrType ==
  ASSUME Inv1, NEW k, KIssued(k), Alive(k)
  PROVE  FirstAddr(k) \in Addrs
<1>1. TypeOK /\ k.tid \in Threads /\ k.seq \in Nat
  BY DEF Inv1, KIssued, KcasTags
<1>2. kdesc[k.tid].seq > 1 /\ k.tid \notin building
  BY <1>1 DEF KIssued, Alive
<1>3. kdesc[k.tid].entries # <<>> /\ kdesc[k.tid].entries \in Seq(Entry)
  BY <1>1, <1>2, KdescType DEF Inv1, ThreadOK, DescOK
<1>4. kdesc[k.tid].entries[1] \in Entry
  BY <1>3
<1> QED
  BY <1>4 DEF FirstAddr, Entry

LEMMA FirstLockedStays ==
  ASSUME Inv1, TypeOK', Evolves, Inv3, NEW t \in Threads, Acts(t), NEW k, KIssued(k),
         FirstLocked(k)
  PROVE  FirstLocked(k)'
<1> SUFFICES ASSUME Undecided(k)' PROVE mem'[FirstAddr(k)'] = k
  BY DEF FirstLocked
<1>1. TypeOK
  BY DEF Inv1
<1>2. Undecided(k) /\ FirstAddr(k)' = FirstAddr(k)
  BY <1>1, UndecidedBefore
<1>3. PICK a \in Addrs : a = FirstAddr(k)
  BY <1>2, FirstAddrType DEF Undecided, InState
<1>4. mem[a] = k
  BY <1>2, <1>3 DEF FirstLocked
<1>5. mem'[a] = k
  BY <1>3, <1>4, LockStays
<1> QED
  BY <1>2, <1>3, <1>5

(* The words before the n-th.                                              *)
LEMMA PrefixStays ==
  ASSUME Inv1, TypeOK', Evolves, Inv3, NEW t \in Threads, Acts(t),
         NEW f \in Frame, KIssued(f.tag), NEW n \in Int, n <= Len(f.entries),
         \A j \in 1..n : mem[f.entries[j].addr] = f.tag, Undecided(f.tag)'
  PROVE  \A j \in 1..n : mem'[f.entries[j].addr] = f.tag
<1> SUFFICES ASSUME NEW j \in 1..n PROVE mem'[f.entries[j].addr] = f.tag
  OBVIOUS
<1>1. f.entries \in Seq(Entry) /\ Len(f.entries) \in Nat
  BY DEF Frame
<1>2. j \in 1..Len(f.entries)
  BY <1>1
<1>3. f.entries[j] \in Entry
  BY <1>1, <1>2
<1>4. PICK a \in Addrs : a = f.entries[j].addr
  BY <1>3 DEF Entry
<1>5. mem[a] = f.tag
  BY <1>4
<1> QED
  BY <1>4, <1>5, LockStays

LEMMA LockOKStays ==
  ASSUME Inv1, TypeOK', Evolves, Inv3, NEW t \in Threads, Acts(t),
         NEW f \in Frame, NEW s, KIssued(f.tag), LockOK(f, s),
         s = "loop" => f.i <= Len(f.entries)
  PROVE  LockOK(f, s)'
<1>1. TypeOK
  BY DEF Inv1
<1>2. f.helping => FirstLocked(f.tag)'
  BY FirstLockedStays DEF LockOK
<1>3. s = "release" => ~ Undecided(f.tag)'
  BY <1>1, UndecidedBefore DEF LockOK
<1>4. ASSUME s \in {"loop", "decide"}, Undecided(f.tag)'
      PROVE  \A j \in 1..(f.i - 1) : mem'[f.entries[j].addr] = f.tag
  <2>1. Undecided(f.tag)
    BY <1>1, <1>4, UndecidedBefore
  <2>2. \A j \in 1..(f.i - 1) : mem[f.entries[j].addr] = f.tag
    BY <1>4, <2>1 DEF LockOK
  <2>3. f.i - 1 \in Int /\ f.i - 1 <= Len(f.entries)
    <3>1. f.i \in Nat /\ Len(f.entries) \in Nat
      BY DEF Frame
    <3> QED
      BY <1>4, <3>1 DEF LockOK
  <2>4. PICK n \in Int : n = f.i - 1
    BY ONLY <2>3
  <2> QED
    BY <1>4, <2>2, <2>3, <2>4, PrefixStays
<1> QED
  BY <1>2, <1>3, <1>4 DEF LockOK

(* A frame that a step leaves alone, of any thread.                        *)
LEMMA FrameLocksKept ==
  ASSUME Inv1, TypeOK', Evolves, Inv3, NEW t \in Threads, Acts(t), NEW u \in Threads,
         NEW d \in 1..depth[u], frame'[u][d] = frame[u][d], Stage(u, d)' = Stage(u, d)
  PROVE  LockOK(frame[u][d], Stage(u, d))'
<1>1. TypeOK /\ ThreadOK(u) /\ LocksOK(u)
  BY DEF Inv1, Inv3
<1>2. d \in 1..MaxDepth /\ depth[u] \in Nat /\ depth[u] > 0
  BY <1>1, DepthType
<1>3. PICK f \in Frame : f = frame[u][d]
  BY <1>1, <1>2, FrameType
<1>4. PICK s : s = Stage(u, d)
  OBVIOUS
<1>5. FrameOK(u, d) /\ LockOK(f, s)
  BY SMTT(30), <1>1, <1>3, <1>4 DEF ThreadOK, LocksOK
<1>6. KIssued(f.tag)
  BY <1>3, <1>5 DEF FrameOK, CopyOK
<1>7. s = "loop" => f.i <= Len(f.entries)
  <2> SUFFICES ASSUME s = "loop" PROVE f.i <= Len(f.entries)
    OBVIOUS
  <2>1. CASE d < depth[u]
    BY <1>3, <1>5, <2>1 DEF FrameOK, AtEntry
  <2>2. CASE ~ (d < depth[u])
    <3>1. pc[u] \notin {"check_kcas", "help", "decide", "phase2", "unlock"}
      BY <1>4, <2>2 DEF Stage
    <3>2. pc[u] \notin {"idle", "read"} /\ pc[u] \in Pcs
      BY <1>1, <1>2 DEF ThreadOK, StackOK, TypeOK
    <3>3. pc[u] \in EntryPcs
      BY SMTT(30), <3>1, <3>2 DEF Pcs, EntryPcs, RdcssPcs
    <3> QED
      BY <1>3, <1>5, <3>3 DEF FrameOK, AtEntry
  <2> QED
    BY <2>1, <2>2
<1>8. LockOK(f, s)'
  BY <1>5, <1>6, <1>7, LockOKStays
<1>9. frame'[u][d] = f /\ Stage(u, d)' = s
  BY <1>3, <1>4
<1> QED
  BY <1>8, <1>9 DEF LockOK, FirstLocked, Undecided, FirstAddr, InState, Alive

(* An RDCSS that its owner finishes is in place, or completed, whoever     *)
(* helps it meanwhile.                                                     *)
LEMMA FinishKept ==
  ASSUME Inv1, TypeOK', Evolves, Inv3, NEW t \in Threads, Acts(t),
         NEW u \in Threads, u # t, pc'[u] = pc[u], reg'[u] = reg[u]
  PROVE  FinishOK(u)'
<1>1. TypeOK /\ ThreadOK(t) /\ ThreadOK(u) /\ LocksOK(t) /\ LocksOK(u)
  BY DEF Inv1, Inv3
<1>0. RegOK(t) /\ RegOK(u) /\ StackOK(t)
  BY ONLY <1>1 DEF ThreadOK
<1> SUFFICES ASSUME pc[u] \in {"rdcss_state", "rdcss_finish"} PROVE FinishOK(u)'
  BY SMTT(30) DEF FinishOK, Finishing
<1>2. PICK c \in Rdcss : c = reg[u].copy /\ KIssued(c.ktag)
  BY SMTT(30), <1>0 DEF RegOK
<1>3. pc[u] = "rdcss_finish" /\ ~ reg[u].ok => ~ Undecided(c.ktag)'
  BY <1>1, <1>2, UndecidedBefore DEF LocksOK, FinishOK
<1>4. ASSUME Finishing(u), Undecided(c.ktag)'
      PROVE  mem'[c.addr] \in {reg[u].tag, c.ktag}
  <2>1. Undecided(c.ktag) /\ c.addr \in Addrs
    BY SMTT(30), <1>1, <1>2, <1>4, UndecidedBefore DEF Rdcss
  <2>2. mem[c.addr] \in {reg[u].tag, c.ktag}
    BY <1>1, <1>2, <1>4, <2>1 DEF LocksOK, FinishOK
  <2>3. CASE mem[c.addr] = c.ktag
    BY <1>2, <1>4, <2>1, <2>3, LockStays
  <2>4. CASE mem[c.addr] = reg[u].tag /\ mem'[c.addr] # mem[c.addr]
    <3>1. /\ reg[u].tag = RdcssTag(u, rdesc[u].seq) /\ c = rdesc[u].body
          /\ reg[u].tag.kind = "rdcss"
      <4>1. reg[u].tag = RdcssTag(u, rdesc[u].seq) /\ c = rdesc[u].body
        BY ONLY <1>0, <1>2, <1>4 DEF RegOK
      <4> QED
        BY ONLY <4>1 DEF RdcssTag
    <3>2. ~ RdcssInstalls(t, c.addr)
      BY <2>4, <3>1 DEF RdcssInstalls, Val
    <3>3. ~ Unlocks(t, c.addr)
      <4> SUFFICES ASSUME Unlocks(t, c.addr) PROVE FALSE
        OBVIOUS
      <4>1. pc[t] = "unlock" /\ Top(t).tag = reg[u].tag
        BY SMTT(30), <2>4 DEF Unlocks, unlock
      <4>2. depth[t] \in 1..depth[t]
        BY <1>0, <1>1, <4>1, DepthType DEF StackOK, HelpPcs
      <4>3. Top(t).tag.kind = "kcas"
        BY Zenon, <1>1, <4>2 DEF ThreadOK, FrameOK, CopyOK, KIssued, KcasTags, Top
      <4> QED
        BY <3>1, <4>1, <4>3
    <3>4. RdcssCompletes(t, c.addr)
      BY ZenonT(30), <1>1, <2>1, <2>4, <3>2, <3>3, WordChange
    <3>5. reg[t].tag = RdcssTag(u, rdesc[u].seq) /\ pc[t] = "rdcss_finish"
      BY SMTT(30), <2>4, <3>1, <3>4 DEF RdcssCompletes, rdcssHelp
    <3>6. reg[t].copy = c
      <4>1. reg[t].tag.tid = u /\ reg[t].tag.seq = rdesc[u].seq
        BY <3>5 DEF RdcssTag
      <4> QED
        BY ONLY <1>0, <3>1, <3>5, <4>1 DEF RegOK, RdcssPcs
    <3>7. reg[t].ok
      BY ZenonT(30), <1>1, <2>1, <3>5, <3>6 DEF LocksOK, FinishOK
    <3> QED
      BY <3>4, <3>6, <3>7 DEF RdcssCompletes
  <2> QED
    BY <2>2, <2>3, <2>4
<1>5. reg'[u].copy = c /\ reg'[u].tag = reg[u].tag /\ Finishing(u)' = Finishing(u)
  BY SMTT(30), <1>2 DEF Finishing
<1>6. Undecided(reg[u].copy.ktag)' = Undecided(c.ktag)'
  BY <1>5 DEF Undecided, InState, Alive
<1> QED
  BY <1>3, <1>4, <1>5, <1>6 DEF FinishOK

(* Threads other than the one that takes the step.                         *)
LEMMA OtherLocks ==
  ASSUME Inv1, TypeOK', Evolves, Inv3, NEW t \in Threads, Acts(t),
         NEW u \in Threads, u # t
  PROVE  LocksOK(u)'
<1>1. TypeOK /\ ThreadOK(u) /\ LocksOK(u)
  BY DEF Inv1, Inv3
<1>2. pc'[u] = pc[u] /\ depth'[u] = depth[u] /\ frame'[u] = frame[u] /\ reg'[u] = reg[u]
  BY <1>1, OthersKept DEF Acts
<1>3. FinishOK(u)'
  BY <1>2, FinishKept
<1>4. pc'[u] = "copy_kcas" => FirstLocked(reg[u].tag)'
  <2> SUFFICES ASSUME pc[u] = "copy_kcas" PROVE FirstLocked(reg[u].tag)'
    BY SMTT(30), <1>2
  <2>1. PICK k : k = reg[u].tag /\ KIssued(k)
    BY SMTT(30), <1>1 DEF ThreadOK, RegOK
  <2>2. FirstLocked(k)'
    BY <1>1, <2>1, FirstLockedStays DEF LocksOK
  <2> QED
    BY Zenon, <1>2, <2>1, <2>2 DEF FirstLocked, Undecided, FirstAddr, InState, Alive
<1>5. ASSUME NEW d \in 1..depth'[u] PROVE LockOK(frame[u][d], Stage(u, d))'
  <2>1. d \in 1..depth[u] /\ frame'[u][d] = frame[u][d] /\ Stage(u, d)' = Stage(u, d)
    BY <1>2 DEF Stage
  <2> QED
    BY <2>1, FrameLocksKept
<1> QED
  BY <1>2, <1>3, <1>4, <1>5 DEF LocksOK

(* The owner of an RDCSS that is in a word is in its loop, at that word.   *)
LEMMA OwnerInLoop ==
  ASSUME Inv1, Inv2, Inv3, NEW a \in Addrs, isRdcss(mem[a]), NEW o \in Threads,
         o = mem[a].tid
  PROVE  /\ rdesc[o].seq = mem[a].seq /\ rdesc[o].body.ktag = Top(o).tag
         /\ depth[o] \in 1..depth[o] /\ FrameOK(o, depth[o])
         /\ a = CurrentEntry(o).addr /\ LockOK(Top(o), "loop") /\ Top(o) \in Frame
         /\ Top(o).i >= 1 /\ Top(o).i <= Len(Top(o).entries)
<1>1. TypeOK /\ ThreadOK(o) /\ LocksOK(o)
  BY DEF Inv1, Inv3
<1>2. rdesc[o].seq = mem[a].seq /\ rdesc[o].body.addr = a /\ Finishing(o)
  BY DEF Inv2, RdcssTagsLive
<1>3. pc[o] \in {"rdcss_state", "rdcss_finish"} /\ depth[o] > 0 /\ depth[o] \in Nat
  BY Zenon, <1>1, <1>2, DepthType DEF ThreadOK, RegOK, Finishing
<1>4. depth[o] \in 1..depth[o] /\ ~ (depth[o] < depth[o])
  BY SMTT(30), <1>3
<1>5. rdesc[o].body = RdcssFor(o)
  BY <1>1, <1>3 DEF ThreadOK, DescOK, RdcssPcs
<1>6. Stage(o, depth[o]) = "loop"
  BY SMTT(30), <1>3, <1>4 DEF Stage
<1>7. LockOK(Top(o), "loop") /\ FrameOK(o, depth[o])
  BY <1>1, <1>4, <1>6 DEF LocksOK, ThreadOK, Top
<1>8. Top(o) \in Frame
  BY <1>1, <1>3, TopFrame
<1>9. Top(o).i >= 1 /\ Top(o).i <= Len(Top(o).entries)
  BY Zenon, <1>3, <1>7 DEF FrameOK, AtEntry, EntryPcs, RdcssPcs, Top
<1>10. rdesc[o].body.ktag = Top(o).tag /\ rdesc[o].body.addr = CurrentEntry(o).addr
  BY <1>5 DEF RdcssFor
<1> QED
  BY Zenon, <1>2, <1>4, <1>7, <1>8, <1>9, <1>10

LEMMA WordsLockedStep ==
  ASSUME Inv1, TypeOK', Evolves, Inv2, Inv3, NEW t \in Threads, Acts(t)
  PROVE  WordsLocked'
<1>1. TypeOK /\ ThreadOK(t) /\ LocksOK(t) /\ WordsOK
  BY DEF Inv1, Inv3
<1> SUFFICES ASSUME NEW a \in Addrs, isKcas(mem'[a]) PROVE FirstLocked(mem[a])'
  BY DEF WordsLocked, isKcas
<1>2. PICK k : k = mem'[a] /\ isKcas(k)
  BY SMTT(30) DEF isKcas
<1> SUFFICES FirstLocked(k)'
  BY <1>2 DEF FirstLocked, Undecided, FirstAddr, InState, Alive
<1>3. CASE mem[a] = k
  BY <1>1, <1>2, <1>3, FirstLockedStays DEF WordsOK, Inv3, WordsLocked
<1>4. CASE mem[a] # k
  <2>1. ~ RdcssInstalls(t, a)
    BY <1>2 DEF RdcssInstalls, RdcssTag, isKcas
  <2>2. ~ Unlocks(t, a)
    <3>1. \A v : Val(v).kind = "val"
      BY DEF Val
    <3> QED
      BY <1>2, <3>1 DEF Unlocks, isKcas
  <2>3. RdcssCompletes(t, a)
    BY <1>1, <1>2, <1>4, <2>1, <2>2, WordChange
  <2>4. PICK c \in Rdcss : c = reg[t].copy /\ KIssued(c.ktag)
    BY ZenonT(30), <1>1, <2>3 DEF RdcssCompletes, rdcssHelp, ThreadOK, RegOK
  <2>5. k = c.ktag
    BY <1>2, <2>3, <2>4 DEF RdcssCompletes, Val, isKcas
  <2>6. PICK o \in Threads : o = reg[t].tag.tid
    BY Zenon, <1>1, <2>3 DEF RdcssCompletes, rdcssHelp, ThreadOK, RegOK, RdcssPcs, RIssued, RdcssTags
  <2>7. mem[a] = reg[t].tag /\ isRdcss(mem[a]) /\ o = mem[a].tid
    BY Zenon, <1>1, <2>3, <2>6 DEF RdcssCompletes, rdcssHelp, ThreadOK, RegOK, RdcssPcs, RIssued,
                       RdcssTags, isRdcss
  <2>8. PICK f \in Frame : f = Top(o) /\ f = frame[o][depth[o]]
    BY Zenon, <2>7, OwnerInLoop DEF Top
  <2>9. c = rdesc[o].body /\ k = f.tag
    <3>1. rdesc[o].seq = reg[t].tag.seq
      BY <2>7, OwnerInLoop
    <3>2. c = rdesc[o].body
      BY Zenon, <1>1, <2>3, <2>4, <2>6, <3>1 DEF RdcssCompletes, rdcssHelp, ThreadOK, RegOK
    <3> QED
      BY ZenonT(30), <2>5, <2>7, <2>8, <3>2, OwnerInLoop
  <2>10. /\ CopyOK(f) /\ LockOK(f, "loop") /\ a = f.entries[f.i].addr
         /\ f.i >= 1 /\ f.i <= Len(f.entries)
    <3>1. FrameOK(o, depth[o]) /\ LockOK(Top(o), "loop") /\ a = CurrentEntry(o).addr
      BY SMTT(30), <2>7, OwnerInLoop
    <3>2. Top(o).i >= 1 /\ Top(o).i <= Len(Top(o).entries)
      BY SMTT(30), <2>7, OwnerInLoop
    <3>3. CopyOK(f)
      BY <2>8, <3>1 DEF FrameOK
    <3> QED
      BY ZenonT(30), <2>8, <3>1, <3>2, <3>3 DEF CurrentEntry
  <2>11. ASSUME Undecided(k)' PROVE mem'[FirstAddr(k)'] = k
    <3>1. Undecided(k) /\ FirstAddr(k)' = FirstAddr(k)
      BY SMTT(30), <1>1, <2>4, <2>5, <2>11, UndecidedBefore
    <3>2. FirstAddr(k) = f.entries[1].addr
      BY <2>9, <2>10, <3>1 DEF CopyOK, FirstAddr, Undecided, InState
    <3>3. CASE f.i = 1
      BY <1>2, <2>10, <3>1, <3>2, <3>3
    <3>4. CASE f.i # 1
      <4>1. 1 \in 1..(f.i - 1)
        BY SMTT(30), <2>10, <3>4 DEF Frame
      <4>2. mem[FirstAddr(k)] = k
        BY <2>9, <2>10, <3>1, <3>2, <4>1 DEF LockOK
      <4>3. FirstLocked(k)
        BY <4>2 DEF FirstLocked
      <4>4. FirstLocked(k)'
        BY <2>4, <2>5, <4>3, FirstLockedStays
      <4> QED
        BY SMTT(30), <2>11, <4>4 DEF FirstLocked
    <3> QED
      BY <3>3, <3>4
  <2> QED
    BY <2>11 DEF FirstLocked
<1> QED
  BY <1>3, <1>4

(* What is known of the frame at the top.                                  *)
LEMMA TopKnown ==
  ASSUME Inv1, Inv3, NEW t \in Threads, depth[t] > 0
  PROVE  /\ depth[t] \in Nat /\ depth[t] \in 1..depth[t] /\ depth[t] \in 1..MaxDepth
         /\ Top(t) \in Frame /\ FrameOK(t, depth[t]) /\ CopyOK(Top(t)) /\ KIssued(Top(t).tag)
         /\ LockOK(Top(t), Stage(t, depth[t]))
<1>1. TypeOK /\ ThreadOK(t) /\ LocksOK(t)
  BY DEF Inv1, Inv3
<1>2. depth[t] \in Nat /\ depth[t] \in 1..MaxDepth /\ Top(t) \in Frame
  BY <1>1, DepthType, TopFrame
<1>3. depth[t] \in 1..depth[t]
  BY <1>2
<1>4. FrameOK(t, depth[t]) /\ LockOK(Top(t), Stage(t, depth[t]))
  BY <1>1, <1>3 DEF ThreadOK, LocksOK, Top
<1>5. CopyOK(Top(t))
  BY <1>4 DEF FrameOK, Top
<1> QED
  BY <1>2, <1>3, <1>4, <1>5 DEF CopyOK

LEMMA TopAtEntry ==
  ASSUME Inv1, Inv3, NEW t \in Threads, depth[t] > 0, pc[t] \in {"rdcss", "rdcss_finish"}
  PROVE  \E f \in Frame : /\ f = Top(t) /\ f = frame[t][depth[t]]
                          /\ KIssued(f.tag) /\ LockOK(f, "loop")
                          /\ f.i >= 1 /\ f.i <= Len(f.entries)
<1>1. PICK f \in Frame : f = Top(t) /\ f = frame[t][depth[t]]
  BY TopKnown DEF Top
<1>2. Stage(t, depth[t]) = "loop"
  BY TopKnown DEF Stage
<1>3. FrameOK(t, depth[t])
  BY TopKnown
<1>4. AtEntry(f) /\ f.i >= 1
  BY <1>1, <1>3 DEF FrameOK, EntryPcs, RdcssPcs
<1> QED
  BY Zenon, <1>1, <1>2, <1>4, TopKnown DEF AtEntry

(* What a step that changes the state of a request is.                     *)
LEMMA StateStep ==
  ASSUME Inv1, TypeOK', Evolves, NEW u \in Threads, Acts(u), NEW t \in Threads,
         kdesc'[t].state # kdesc[t].state,
         kdesc'[t].state # "UNDECIDED" \/ kdesc'[t].seq = kdesc[t].seq
  PROVE  /\ pc[u] = "decide" /\ t = Top(u).tag.tid
         /\ kdesc[t].seq = Top(u).seq /\ kdesc[t].state = "UNDECIDED"
         /\ kdesc'[t].state = Top(u).state /\ kdesc'[t].seq = kdesc[t].seq
<1>1. TypeOK
  BY DEF Inv1
<1>2. start(u) \/ add(u) \/ execute(u) \/ decide(u)
  BY ZenonT(30) DEF Acts, Step, readPtr, rdcssRead, rdcssCopy, rdcssCheck, rdcssReadState, rdcssHelp,
         kcasCopy, kcasCheck, helpReadState, rdcssNew, rdcssInitialized, rdcss, phase2, unlock
<1>3. t \in DOMAIN kdesc /\ u \in DOMAIN kdesc /\ kdesc[t].seq \in Nat
       /\ \A v \in Threads : "state" \in DOMAIN kdesc[v]
  <2>1. \A v \in Threads : kdesc[v] \in KcasDesc
    BY <1>1, KdescType
  <2> QED
    BY <1>1, <2>1 DEF TypeOK, KcasDesc
<1>4. ~ start(u)
  <2> SUFFICES ASSUME start(u) PROVE FALSE
    OBVIOUS
  <2>1. kdesc' = [kdesc EXCEPT ![u] = [seq |-> kdesc[u].seq + 1, state |-> "UNDECIDED",
                                       entries |-> <<>>]]
    BY DEF start
  <2>2. CASE t = u
    <3>1. kdesc'[t].seq = kdesc[t].seq + 1 /\ kdesc'[t].state = "UNDECIDED"
      BY <1>3, <2>1, <2>2
    <3> QED
      BY <1>3, <3>1
  <2>3. CASE t # u
    BY <1>3, <2>1, <2>3
  <2> QED
    BY <2>2, <2>3
<1>5. ~ add(u)
  <2> SUFFICES ASSUME add(u) PROVE FALSE
    OBVIOUS
  <2>1. PICK es : kdesc' = [kdesc EXCEPT ![u].entries = es]
    BY DEF add
  <2> QED
    BY <1>3, <2>1
<1>6. ~ execute(u)
  <2> SUFFICES ASSUME execute(u) PROVE FALSE
    OBVIOUS
  <2>1. PICK s, es : kdesc' = [kdesc EXCEPT ![u].seq = s, ![u].entries = es]
    BY Zenon DEF execute
  <2> QED
    BY <1>3, <2>1
<1>7. decide(u)
  BY <1>2, <1>4, <1>5, <1>6
<1>8. /\ kdesc' = [kdesc EXCEPT ![Top(u).tag.tid].state = Top(u).state]
      /\ kdesc[Top(u).tag.tid].seq = Top(u).seq
      /\ kdesc[Top(u).tag.tid].state = "UNDECIDED"
  BY <1>7 DEF decide
<1>9. t = Top(u).tag.tid
  BY <1>1, <1>8 DEF TypeOK
<1>10. kdesc'[t].state = Top(u).state /\ kdesc'[t].seq = kdesc[t].seq
  BY <1>1, <1>8, <1>9 DEF TypeOK
<1> QED
  BY <1>7, <1>8, <1>9, <1>10 DEF decide
=============================================================================
