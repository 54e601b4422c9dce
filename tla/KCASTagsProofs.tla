--------------------------- MODULE KCASTagsProofs ---------------------------
(***************************************************************************)
(* When the callers keep to the versions, a word never keeps the tag of a  *)
(* request that is over. What a reader takes a word to hold then changes   *)
(* only when a request is decided to have succeeded.                       *)
(***************************************************************************)
EXTENDS KCASInvariants

(* The descriptor of t holds a request that was published.                 *)
Published(t) == t \notin building /\ kdesc[t].seq > 1

(* It is sorted, and what its caller saw to (FollowsDiscipline) is still   *)
(* so: versions only grow.                                                 *)
RequestOK(t) ==
  Published(t) => IsSorted(kdesc[t].entries) /\ FollowsDiscipline(kdesc[t].entries)

(* A request is decided before its owner's execute returns.                *)
OwnerOK(t) ==
  /\ Executing(t) => /\ t \notin building /\ depth[t] > 0
                     /\ frame[t][1].tag = KcasTag(t, kdesc[t].seq)
  /\ Published(t) /\ kdesc[t].state = "UNDECIDED" => Executing(t)

(* Phase 2 knows the decision, and no word it has passed gets the tag back *)
(* while the request lives.                                                *)
ReleaseOK(t) ==
  pc[t] = "unlock" /\ Alive(Top(t).tag) =>
    /\ Top(t).state = kdesc[Top(t).tag.tid].state
    /\ \A j \in 1..(Top(t).i - 1) : mem[Top(t).entries[j].addr] # Top(t).tag

(* Who saw a request undecided in rdcssHelp and can still install its tag  *)
(* finds it undecided now.                                                 *)
CompletionOK(t) ==
  pc[t] = "rdcss_finish" /\ reg[t].ok /\ mem[reg[t].copy.addr] = reg[t].tag =>
    Undecided(reg[t].copy.ktag)

(* Nobody helps an RDCSS that its owner has yet to install.                *)
ToInstall(t) == pc[t] = "rdcss" \/ (pc[t] \in RdcssPcs /\ reg[t].helping /\ depth[t] > 0)
FreshOK(t) ==
  ToInstall(t) =>
    \A u \in Threads : pc[u] \in RdcssPcs => reg[u].tag # RdcssTag(t, rdesc[t].seq)

(* A word that made a help give up does not get its old value back before  *)
(* the request is decided.                                                 *)
MismatchOK(t) ==
  pc[t] = "decide" /\ Top(t).state = "FAILED" /\ Undecided(Top(t).tag) =>
    Logical(CurrentEntry(t).addr) # CurrentEntry(t).old

CallOK(t) ==
  /\ RequestOK(t) /\ OwnerOK(t) /\ ReleaseOK(t)
  /\ CompletionOK(t) /\ FreshOK(t) /\ MismatchOK(t)

Inv4 == TagsLive /\ \A t \in Threads : CallOK(t)

-----------------------------------------------------------------------------
(* Entries.                                                                *)

LEMMA EntryAt ==
  ASSUME NEW es \in Seq(Entry), NEW i \in DOMAIN es
  PROVE  /\ es[i] \in Entry /\ es[i].addr \in Addrs /\ es[i].old \in Values
         /\ es[i].new \in Values /\ es[i].addr \in Nat
<1>1. es[i] \in Entry
  OBVIOUS
<1> QED
  BY Zenon, <1>1, ConstantsAssumption DEF Entry

(* Sorting leaves no two entries with an address.                          *)
LEMMA SortedDistinct ==
  ASSUME NEW es \in Seq(Entry), IsSorted(es), NEW i \in DOMAIN es, NEW j \in DOMAIN es,
         es[i].addr <= es[j].addr
  PROVE  i <= j
<1>1. es[i].addr \in Nat /\ es[j].addr \in Nat
  BY EntryAt
<1>2. i \in Nat /\ j \in Nat
  OBVIOUS
<1>3. j < i => es[j].addr < es[i].addr
  BY DEF IsSorted
<1> QED
  BY <1>1, <1>2, <1>3

LEMMA EntryForIs ==
  ASSUME NEW es \in Seq(Entry), IsSorted(es), NEW i \in DOMAIN es
  PROVE  EntryFor(es, es[i].addr) = es[i]
<1>1. ASSUME NEW j \in DOMAIN es, es[j].addr = es[i].addr PROVE j = i
  <2>1. i <= j /\ j <= i
    <3>1. es[i].addr \in Nat
      BY EntryAt
    <3>2. es[i].addr <= es[j].addr /\ es[j].addr <= es[i].addr
      BY <1>1, <3>1
    <3> QED
      BY <3>2, SortedDistinct
  <2> QED
    BY <2>1
<1>2. (CHOOSE j \in DOMAIN es : es[j].addr = es[i].addr) = i
  BY <1>1
<1> QED
  BY Zenon, <1>2 DEF EntryFor

-----------------------------------------------------------------------------
(* Tags of live requests.                                                  *)

LEMMA LiveTag ==
  ASSUME Inv1, NEW k, KIssued(k), Alive(k)
  PROVE  /\ k.tid \in Threads /\ Published(k.tid) /\ k = KcasTag(k.tid, kdesc[k.tid].seq)
         /\ kdesc[k.tid].entries \in Seq(Entry)
<1>1. TypeOK /\ k.tid \in Threads /\ k.seq \in Nat /\ k \in KcasTags
  BY DEF Inv1, KIssued, KcasTags
<1>2. kdesc[k.tid].seq = k.seq /\ kdesc[k.tid].entries \in Seq(Entry)
  BY <1>1, KdescType DEF Alive
<1>3. Published(k.tid)
  BY <1>1, <1>2 DEF KIssued, Published
<1> QED
  BY <1>1, <1>2, <1>3 DEF KcasTag, KcasTags

LEMMA SameTag ==
  ASSUME NEW k, KIssued(k), NEW l, KIssued(l), k.tid = l.tid, k.seq = l.seq
  PROVE  k = l
BY DEF KIssued, KcasTags

LEMMA PublishedLive ==
  ASSUME Inv1, NEW t \in Threads, Published(t)
  PROVE  /\ KIssued(KcasTag(t, kdesc[t].seq)) /\ Alive(KcasTag(t, kdesc[t].seq))
         /\ kdesc[t].entries \in Seq(Entry) /\ kdesc[t].entries # <<>>
<1>1. kdesc[t].seq \in Nat /\ kdesc[t].entries \in Seq(Entry)
  BY KdescType DEF Inv1
<1>2. kdesc[t].entries # <<>>
  BY DEF Inv1, ThreadOK, DescOK, Published
<1> QED
  BY <1>1, <1>2 DEF KIssued, Alive, KcasTag, KcasTags, Published

(* An RDCSS that is in a word: its owner is at the entry for that word.    *)
LEMMA InstalledRdcss ==
  ASSUME Inv1, Inv2, Inv3, NEW a \in Addrs, isRdcss(mem[a])
  PROVE  \E o \in Threads, f \in Frame :
           /\ o = mem[a].tid /\ f = Top(o) /\ CopyOK(f) /\ LockOK(f, "loop")
           /\ f.i \in DOMAIN f.entries /\ f.entries[f.i].addr = a
           /\ rdesc[o].seq = mem[a].seq /\ Finishing(o) /\ rdesc[o].body \in Rdcss
           /\ rdesc[o].body.ktag = f.tag /\ rdesc[o].body.addr = a
           /\ rdesc[o].body.old = f.entries[f.i].old
<1>1. TypeOK
  BY DEF Inv1
<1>2. PICK o \in Threads : o = mem[a].tid
  BY Zenon, <1>1 DEF TypeOK, Word, Plain, KcasTags, RdcssTags, isRdcss
<1>3. rdesc[o].seq = mem[a].seq /\ rdesc[o].body.addr = a /\ Finishing(o)
  BY <1>2 DEF Inv2, RdcssTagsLive
<1>4. PICK f \in Frame : f = Top(o)
  BY <1>2, OwnerInLoop
<1>5. /\ rdesc[o].body.ktag = f.tag /\ FrameOK(o, depth[o]) /\ a = f.entries[f.i].addr
      /\ LockOK(f, "loop") /\ f.i >= 1 /\ f.i <= Len(f.entries)
  BY ZenonT(30), <1>2, <1>4, OwnerInLoop DEF CurrentEntry
<1>6. CopyOK(f)
  BY Zenon, <1>4, <1>5 DEF FrameOK, Top
<1>7. f.i \in DOMAIN f.entries
  BY <1>5 DEF Frame
<1>8. rdesc[o].seq > 2 /\ rdesc[o].body = RdcssFor(o) /\ rdesc[o].body \in Rdcss
  BY Zenon, <1>3 DEF Inv1, ThreadOK, RegOK, DescOK, Finishing, RdcssPcs
<1>9. rdesc[o].body.old = f.entries[f.i].old
  BY <1>4, <1>8 DEF RdcssFor, CurrentEntry
<1> QED
  BY Zenon, <1>2, <1>3, <1>4, <1>5, <1>6, <1>7, <1>8, <1>9

(* A thread that is to complete an RDCSS which is still in its word.       *)
LEMMA CompletedCopy ==
  ASSUME Inv1, Inv2, NEW t \in Threads, pc[t] = "rdcss_finish",
         mem[reg[t].copy.addr] = reg[t].tag
  PROVE  /\ reg[t].copy \in Rdcss /\ KIssued(reg[t].copy.ktag) /\ reg[t].copy.addr \in Addrs
         /\ isRdcss(reg[t].tag) /\ reg[t].copy = rdesc[reg[t].tag.tid].body
<1>1. ThreadOK(t)
  BY DEF Inv1
<1>2. reg[t].copy \in Rdcss /\ KIssued(reg[t].copy.ktag)
  BY <1>1 DEF ThreadOK, RegOK
<1>3. reg[t].copy.addr \in Addrs
  BY <1>2 DEF Rdcss
<1>4. isRdcss(reg[t].tag)
  BY Zenon, <1>1 DEF ThreadOK, RegOK, RdcssPcs, RIssued, RdcssTags, isRdcss
<1>5. rdesc[reg[t].tag.tid].seq = reg[t].tag.seq
  BY Zenon, <1>3, <1>4 DEF Inv2, RdcssTagsLive
<1> QED
  BY <1>1, <1>2, <1>3, <1>4, <1>5 DEF ThreadOK, RegOK

-----------------------------------------------------------------------------
(* The value of a word.                                                    *)

LEMMA LogicalVal ==
  ASSUME NEW a, NEW v, mem[a] = Val(v)
  PROVE  Logical(a) = v
BY DEF Logical, Val

LEMMA LogicalValNext ==
  ASSUME NEW a, NEW v, mem'[a] = Val(v)
  PROVE  Logical(a)' = v
BY DEF Logical, Val

LEMMA LogicalRdcss ==
  ASSUME NEW a, isRdcss(mem[a])
  PROVE  Logical(a) = rdesc[mem[a].tid].body.old
BY DEF Logical, isRdcss

LEMMA LogicalKcas ==
  ASSUME NEW a, isKcas(mem[a])
  PROVE  Logical(a) = KcasValue(a, mem[a])
BY DEF Logical, isKcas

(* A word that a live request has locked.                                  *)
LEMMA LockedValue ==
  ASSUME Inv1, NEW k, KIssued(k), Alive(k), RequestOK(k.tid), NEW es,
         es = kdesc[k.tid].entries, NEW i \in DOMAIN es, mem[es[i].addr] = k
  PROVE  Logical(es[i].addr) = IF kdesc[k.tid].state = "SUCCEEDED" THEN es[i].new
                               ELSE es[i].old
<1>1. isKcas(k) /\ Published(k.tid) /\ es \in Seq(Entry)
  BY LiveTag DEF KIssued, KcasTags, isKcas
<1>2. EntryFor(es, es[i].addr) = es[i]
  BY <1>1, EntryForIs DEF RequestOK
<1>3. Logical(es[i].addr) = KcasValue(es[i].addr, k)
  BY <1>1, LogicalKcas
<1> QED
  BY <1>2, <1>3 DEF KcasValue

(* A request stays what it is while its owner is in any operation.         *)
LEMMA BusyKept ==
  ASSUME Inv1, NEW u \in Threads, Acts(u), NEW t \in Threads, pc[t] # "idle"
  PROVE  /\ kdesc'[t].seq = kdesc[t].seq /\ kdesc'[t].entries = kdesc[t].entries
         /\ t \in building' <=> t \in building
<1>1. TypeOK
  BY DEF Inv1
<1>2. CASE t # u
  BY <1>1, <1>2, OthersKept DEF Acts
<1>3. CASE t = u
  <2>1. Step(t)
    BY <1>3 DEF Acts, start, add, execute, readPtr
  <2>2. CASE decide(t)
    <3>1. building' = building
      BY <2>2 DEF decide
    <3>2. kdesc' = kdesc \/ \E o, st : kdesc' = [kdesc EXCEPT ![o].state = st]
      BY Zenon, <2>2 DEF decide
    <3>3. kdesc[t] \in [seq : Nat, state : States, entries : Seq(Entry)] /\ DOMAIN kdesc = Threads
      BY <1>1 DEF TypeOK, KcasDesc
    <3> QED
      BY <3>1, <3>2, <3>3
  <2>3. CASE ~ decide(t)
    <3>1. UNCHANGED <<kdesc, building>>
      BY Zenon, <2>1, <2>3 DEF Step, rdcssRead, rdcssCopy, rdcssCheck, rdcssReadState, rdcssHelp,
         kcasCopy, kcasCheck, helpReadState, rdcssNew, rdcssInitialized, rdcss, phase2, unlock
    <3> QED
      BY <3>1
  <2> QED
    BY <2>2, <2>3
<1> QED
  BY <1>2, <1>3

LEMMA InstallValue ==
  ASSUME Inv1, NEW t \in Threads, NEW a \in Addrs, RdcssInstalls(t, a)
  PROVE  Logical(a)' = Logical(a)
<1>1. Logical(a) = CurrentEntry(t).old
  BY LogicalVal DEF RdcssInstalls
<1>2. rdesc[t].body = RdcssFor(t) /\ rdesc' = rdesc
  BY DEF Inv1, ThreadOK, DescOK, RdcssInstalls, rdcss
<1>3. Logical(a)' = rdesc'[t].body.old
  BY DEF Logical, RdcssInstalls, RdcssTag
<1> QED
  BY <1>1, <1>2, <1>3 DEF RdcssFor

LEMMA CompleteValue ==
  ASSUME Inv1, Inv2, Inv3, Inv4, NEW t \in Threads, NEW a \in Addrs, RdcssCompletes(t, a)
  PROVE  Logical(a)' = Logical(a)
<1>1. pc[t] = "rdcss_finish" /\ a = reg[t].copy.addr /\ mem[a] = reg[t].tag /\ kdesc' = kdesc
  BY DEF RdcssCompletes, rdcssHelp
<1>2. PICK c \in Rdcss : /\ c = reg[t].copy /\ KIssued(c.ktag) /\ isRdcss(mem[a])
                         /\ c = rdesc[mem[a].tid].body
  BY <1>1, CompletedCopy
<1>3. Logical(a) = c.old
  BY <1>2, LogicalRdcss
<1>4. CASE ~ reg[t].ok
  <2>1. mem'[a] = Val(c.old)
    BY Zenon, <1>2, <1>4 DEF RdcssCompletes
  <2> QED
    BY <1>3, <2>1, LogicalValNext
<1>5. CASE reg[t].ok
  <2>1. mem'[a] = c.ktag /\ isKcas(c.ktag)
    BY Zenon, <1>2, <1>5 DEF RdcssCompletes, KIssued, KcasTags, isKcas
  <2>2. CompletionOK(t)
    BY DEF Inv4, CallOK
  <2>3. Alive(c.ktag) /\ kdesc[c.ktag.tid].state = "UNDECIDED"
    BY Zenon, <1>1, <1>2, <1>5, <2>2 DEF CompletionOK, Undecided, InState
  <2>4. PICK o \in Threads, f \in Frame :
          /\ o = mem[a].tid /\ CopyOK(f)
          /\ f.i \in DOMAIN f.entries /\ f.entries[f.i].addr = a
          /\ rdesc[o].body.ktag = f.tag /\ rdesc[o].body.old = f.entries[f.i].old
    BY SMTT(30), <1>2, InstalledRdcss
  <2>0. c.ktag = f.tag /\ c.old = f.entries[f.i].old
    BY <1>2, <2>4
  <2>5. PICK es \in Seq(Entry) : es = kdesc[c.ktag.tid].entries /\ es = f.entries
    BY Zenon, <1>2, <2>0, <2>3, <2>4, LiveTag DEF CopyOK
  <2>6. IsSorted(es)
    BY Zenon, <1>2, <2>3, <2>5, LiveTag DEF Inv4, CallOK, RequestOK
  <2>7. EntryFor(es, a) = es[f.i]
    BY <2>4, <2>5, <2>6, EntryForIs
  <2>8. Logical(a)' = EntryFor(es, a).old
    BY <1>1, <2>1, <2>3, <2>5 DEF Logical, isKcas, KcasValue
  <2> QED
    BY <1>3, <2>0, <2>5, <2>7, <2>8
<1> QED
  BY <1>4, <1>5

LEMMA UnlockValue ==
  ASSUME Inv1, Inv2, Inv3, Inv4, NEW t \in Threads, NEW a \in Addrs, Unlocks(t, a)
  PROVE  Logical(a)' = Logical(a)
<1>1. pc[t] = "unlock" /\ a = CurrentEntry(t).addr /\ mem[a] = Top(t).tag
  BY DEF Unlocks, unlock
<1>2. TypeOK /\ depth[t] > 0
  BY <1>1 DEF Inv1, ThreadOK, StackOK, HelpPcs
<1>3. PICK f \in Frame : f = Top(t) /\ CopyOK(f) /\ KIssued(f.tag) /\ FrameOK(t, depth[t])
                         /\ f = frame[t][depth[t]]
  BY Zenon, <1>2, TopKnown DEF Top
<1>4. f.i \in DOMAIN f.entries
  <2>1. f.i >= 1 /\ f.i <= Len(f.entries)
    BY Zenon, <1>1, <1>3 DEF FrameOK, AtEntry, EntryPcs
  <2> QED
    BY <2>1 DEF Frame
<1>5. Alive(f.tag)
  <2>1. isKcas(mem[a])
    BY Zenon, <1>1, <1>3 DEF KIssued, KcasTags, isKcas
  <2>2. Alive(mem[a])
    BY <2>1 DEF Inv4, TagsLive
  <2> QED
    BY <1>1, <1>3, <2>2
<1>6. f.entries = kdesc[f.tag.tid].entries /\ f.state = kdesc[f.tag.tid].state
  BY Zenon, <1>1, <1>3, <1>5 DEF CopyOK, Inv4, CallOK, ReleaseOK
<1>7. PICK e : e = f.entries[f.i] /\ e = CurrentEntry(t) /\ a = e.addr
  BY Zenon, <1>1, <1>3 DEF CurrentEntry
<1>8. RequestOK(f.tag.tid)
  BY <1>3, <1>5, LiveTag DEF Inv4, CallOK
<1>9. Logical(a) = IF f.state = "SUCCEEDED" THEN e.new ELSE e.old
  <2>1. PICK k, es, i : k = f.tag /\ es = f.entries /\ i = f.i
    OBVIOUS
  <2>2. /\ KIssued(k) /\ Alive(k) /\ RequestOK(k.tid) /\ es = kdesc[k.tid].entries
        /\ i \in DOMAIN es /\ mem[es[i].addr] = k /\ es[i] = e
        /\ f.state = kdesc[k.tid].state
    BY Zenon, <1>1, <1>3, <1>4, <1>5, <1>6, <1>7, <1>8, <2>1
  <2>3. Logical(es[i].addr) = IF kdesc[k.tid].state = "SUCCEEDED" THEN es[i].new ELSE es[i].old
    BY Zenon, <2>2, LockedValue
  <2> QED
    BY <1>7, <2>2, <2>3
<1>10. mem'[a] = Val(IF f.state = "SUCCEEDED" THEN e.new ELSE e.old)
  BY <1>1, <1>2, <1>3, <1>7 DEF Unlocks, unlock, BoolCas, TypeOK
<1> QED
  BY <1>9, <1>10, LogicalValNext

(* The frame of a thread that is about to decide a request.                *)
LEMMA DecidingFrame ==
  ASSUME Inv1, Inv3, NEW t \in Threads, pc[t] = "decide"
  PROVE  \E f \in Frame : /\ f = Top(t) /\ CopyOK(f) /\ KIssued(f.tag) /\ LockOK(f, "decide")
                          /\ f.seq = f.tag.seq /\ f.i >= 1
<1>1. depth[t] > 0
  BY DEF Inv1, ThreadOK, StackOK, HelpPcs
<1>2. PICK f \in Frame : f = Top(t) /\ f = frame[t][depth[t]]
  BY <1>1, TopKnown DEF Top
<1>3. CopyOK(f) /\ KIssued(f.tag) /\ FrameOK(t, depth[t])
  BY Zenon, <1>1, <1>2, TopKnown
<1>4. LockOK(f, "decide")
  <2>1. Stage(t, depth[t]) = "decide"
    <3>1. ~ (depth[t] < depth[t])
      BY <1>1, TopKnown
    <3> QED
      BY <3>1 DEF Stage
  <2> QED
    BY ZenonT(30), <1>1, <1>2, <2>1, TopKnown
<1>5. f.seq = f.tag.seq /\ f.i >= 1
  BY Zenon, <1>2, <1>3 DEF FrameOK, Checked
<1> QED
  BY <1>2, <1>3, <1>4, <1>5

(* All the words of a request that is about to succeed hold its tag.       *)
LEMMA SuccessHolds ==
  ASSUME Inv1, Inv3, NEW t \in Threads, pc[t] = "decide", Top(t).state = "SUCCEEDED",
         NEW k, k = Top(t).tag, Undecided(k), NEW i \in DOMAIN kdesc[k.tid].entries
  PROVE  mem[kdesc[k.tid].entries[i].addr] = k
<1>1. PICK f \in Frame : f = Top(t) /\ CopyOK(f) /\ LockOK(f, "decide")
  BY DecidingFrame
<1>2. f.entries = kdesc[k.tid].entries
  BY <1>1 DEF CopyOK, Undecided, InState
<1>3. f.i = Len(f.entries) + 1 /\ f.entries \in Seq(Entry)
  BY <1>1 DEF LockOK, Frame
<1>4. i \in 1..(f.i - 1)
  BY <1>2, <1>3
<1> QED
  BY Zenon, <1>1, <1>2, <1>4 DEF LockOK

(* Thread t decides that the request which has locked word a succeeded.    *)
Effect(t, a) ==
  /\ pc[t] = "decide" /\ Top(t).state = "SUCCEEDED"
  /\ Undecided(Top(t).tag) /\ mem[a] = Top(t).tag
  /\ \E i \in DOMAIN kdesc[mem[a].tid].entries :
       LET e == kdesc[mem[a].tid].entries[i] IN
       e.addr = a /\ Logical(a) = e.old /\ Logical(a)' = e.new

(* A word that holds the tag of a request, before and after a step.        *)
LEMMA TaggedValue ==
  ASSUME Inv1, TypeOK', Evolves, Inv2, Inv3, Inv4, NEW t \in Threads, Acts(t),
         NEW a \in Addrs, isKcas(mem[a]), mem'[a] = mem[a]
  PROVE  Logical(a)' = Logical(a) \/ Effect(t, a)
<1>1. PICK k : k = mem[a] /\ KIssued(k) /\ Alive(k) /\ Executing(k.tid)
  BY DEF Inv1, WordsOK, Inv4, TagsLive
<1>2. PICK o \in Threads, es \in Seq(Entry) :
        o = k.tid /\ es = kdesc[o].entries /\ RequestOK(o) /\ IsSorted(es)
  BY <1>1, LiveTag DEF Inv4, CallOK, RequestOK
<1>3. kdesc'[o].seq = kdesc[o].seq /\ kdesc'[o].entries = es
  BY <1>1, <1>2, BusyKept DEF Executing
<1>4. PICK i \in DOMAIN es : es[i].addr = a
  BY Zenon, <1>1, <1>2 DEF Inv4, TagsLive
<1>5. EntryFor(es, a) = es[i]
  BY <1>2, <1>4, EntryForIs
<1>6. Logical(a) = IF kdesc[o].state = "SUCCEEDED" THEN es[i].new ELSE es[i].old
  BY <1>1, <1>2, <1>5 DEF Logical, isKcas, KcasValue
<1>7. Logical(a)' = IF kdesc'[o].state = "SUCCEEDED" THEN es[i].new ELSE es[i].old
  BY Zenon, <1>1, <1>2, <1>3, <1>5 DEF Logical, isKcas, KcasValue
<1>8. CASE kdesc'[o].state = kdesc[o].state
  BY <1>6, <1>7, <1>8
<1>9. CASE kdesc'[o].state # kdesc[o].state
  <2>1. /\ pc[t] = "decide" /\ o = Top(t).tag.tid /\ kdesc[o].seq = Top(t).seq
        /\ kdesc[o].state = "UNDECIDED" /\ kdesc'[o].state = Top(t).state
    BY SMTT(30), <1>3, <1>9, StateStep
  <2>2. PICK f \in Frame : f = Top(t) /\ KIssued(f.tag) /\ f.seq = f.tag.seq
    BY <2>1, DecidingFrame
  <2>3. f.tag = k
    <3>1. f.tag.tid = k.tid /\ f.tag.seq = k.seq
      BY Zenon, <1>1, <1>2, <2>1, <2>2 DEF Alive
    <3> QED
      BY <1>1, <2>2, <3>1, SameTag
  <2>4. Undecided(k)
    BY <1>1, <1>2, <2>1 DEF Undecided, InState
  <2>5. CASE Top(t).state = "SUCCEEDED"
    <3>1. Logical(a) = es[i].old /\ Logical(a)' = es[i].new
      BY <1>6, <1>7, <2>1, <2>5
    <3> QED
      BY Zenon, <1>1, <1>2, <1>4, <2>1, <2>2, <2>3, <2>4, <2>5, <3>1 DEF Effect
  <2>6. CASE Top(t).state # "SUCCEEDED"
    BY <1>6, <1>7, <2>1, <2>6
  <2> QED
    BY <2>5, <2>6
<1> QED
  BY <1>8, <1>9

(* What a reader takes a word to hold changes only when a request that has *)
(* locked the word is decided to have succeeded.                           *)
LEMMA LogicalStep ==
  ASSUME Inv1, TypeOK', Evolves, Inv2, Inv3, Inv4, NEW t \in Threads, Acts(t), NEW a \in Addrs
  PROVE  Logical(a)' = Logical(a) \/ Effect(t, a)
<1>1. TypeOK
  BY DEF Inv1
<1>2. CASE mem'[a] # mem[a]
  BY <1>1, <1>2, WordChange, InstallValue, CompleteValue, UnlockValue
<1>3. CASE mem'[a] = mem[a] /\ mem[a].kind = "val"
  BY <1>3 DEF Logical
<1>4. CASE mem'[a] = mem[a] /\ isRdcss(mem[a])
  <2>1. PICK o \in Threads : o = mem[a].tid /\ Finishing(o)
    BY <1>4, InstalledRdcss
  <2>2. rdesc'[o] = rdesc[o]
    <3>1. CASE o # t
      BY <1>1, <3>1, OthersKept DEF Acts
    <3>2. CASE o = t
      <4>1. rdcssReadState(t) \/ rdcssHelp(t)
        BY Zenon, <2>1, <3>2 DEF Acts, Step, Finishing, start, add, execute, readPtr,
           rdcssRead, rdcssCopy, rdcssCheck, kcasCopy, kcasCheck, helpReadState, rdcssNew,
           rdcssInitialized, rdcss, decide, phase2, unlock
      <4> QED
        BY <4>1 DEF rdcssReadState, rdcssHelp
    <3> QED
      BY <3>1, <3>2
  <2> QED
    BY <1>4, <2>1, <2>2 DEF Logical, isRdcss
<1>5. CASE mem'[a] = mem[a] /\ isKcas(mem[a])
  BY <1>5, TaggedValue
<1>6. mem[a].kind = "val" \/ isRdcss(mem[a]) \/ isKcas(mem[a])
  BY Zenon, <1>1 DEF TypeOK, Word, Plain, KcasTags, RdcssTags, isRdcss, isKcas
<1> QED
  BY <1>2, <1>3, <1>4, <1>5, <1>6

LEMMA LogicalType ==
  ASSUME Inv1, Inv2, Inv3, Inv4, NEW a \in Addrs
  PROVE  Logical(a) \in Values
<1>1. TypeOK
  BY DEF Inv1
<1>2. CASE mem[a].kind = "val"
  <2>1. mem[a].val \in Values
    BY Zenon, <1>1, <1>2 DEF TypeOK, Word, Plain, KcasTags, RdcssTags
  <2> QED
    BY <1>2, <2>1 DEF Logical
<1>3. CASE isRdcss(mem[a])
  <2>1. PICK o \in Threads : o = mem[a].tid /\ rdesc[o].body \in Rdcss
    BY <1>3, InstalledRdcss
  <2> QED
    BY <1>3, <2>1, LogicalRdcss DEF Rdcss
<1>4. CASE isKcas(mem[a])
  <2>1. PICK k : k = mem[a] /\ KIssued(k) /\ Alive(k)
    BY <1>4 DEF Inv1, WordsOK, Inv4, TagsLive
  <2>2. PICK es \in Seq(Entry) : es = kdesc[k.tid].entries /\ RequestOK(k.tid)
    BY SMTT(30), <2>1, LiveTag DEF Inv4, CallOK
  <2>3. PICK i \in DOMAIN es : es[i].addr = a
    BY <1>4, <2>1, <2>2 DEF Inv4, TagsLive
  <2>4. Logical(es[i].addr) = IF kdesc[k.tid].state = "SUCCEEDED" THEN es[i].new
                              ELSE es[i].old
    BY Zenon, <2>1, <2>2, <2>3, LockedValue
  <2> QED
    BY SMTT(30), <2>3, <2>4, EntryAt
<1>5. mem[a].kind = "val" \/ isRdcss(mem[a]) \/ isKcas(mem[a])
  BY Zenon, <1>1 DEF TypeOK, Word, Plain, KcasTags, RdcssTags, isRdcss, isKcas
<1> QED
  BY <1>2, <1>3, <1>4, <1>5

-----------------------------------------------------------------------------
(* The discipline.                                                         *)

(* What is known of the request that has an effect on a word.              *)
LEMMA EffectOf ==
  ASSUME Inv1, Inv3, Inv4, NEW t \in Threads, NEW a \in Addrs, Effect(t, a)
  PROVE  \E k \in KcasTags, es \in Seq(Entry) :
           /\ k = Top(t).tag /\ KIssued(k) /\ Undecided(k) /\ es = kdesc[k.tid].entries
           /\ IsSorted(es) /\ FollowsDiscipline(es)
           /\ \A i \in DOMAIN es : mem[es[i].addr] = k
           /\ \E i \in DOMAIN es : /\ es[i].addr = a
                                   /\ Logical(a) = es[i].old /\ Logical(a)' = es[i].new
<1>1. PICK k \in KcasTags : /\ k = Top(t).tag /\ KIssued(k) /\ Undecided(k) /\ mem[a] = k
                            /\ pc[t] = "decide" /\ Top(t).state = "SUCCEEDED"
  BY Zenon, DecidingFrame DEF Effect, KIssued
<1>2. PICK es \in Seq(Entry) : es = kdesc[k.tid].entries /\ IsSorted(es) /\ FollowsDiscipline(es)
  BY Zenon, <1>1, LiveTag DEF Inv4, CallOK, RequestOK, Undecided, InState
<1>3. \A i \in DOMAIN es : mem[es[i].addr] = k
  BY Zenon, <1>1, <1>2, SuccessHolds
<1>4. \E i \in DOMAIN es : es[i].addr = a /\ Logical(a) = es[i].old /\ Logical(a)' = es[i].new
  BY Zenon, <1>1, <1>2 DEF Effect
<1> QED
  BY Zenon, <1>1, <1>2, <1>3, <1>4

(* Versions never go back.                                                 *)
LEMMA VersionsGrow ==
  ASSUME Inv1, TypeOK', Evolves, Inv2, Inv3, Inv4, NEW t \in Threads, Acts(t),
         NEW a \in Addrs, Guard[a] = a
  PROVE  Logical(a) \in Int /\ Logical(a)' \in Int /\ Logical(a) <= Logical(a)'
<1>1. Logical(a) \in Int
  BY Zenon, LogicalType, ConstantsAssumption
<1>2. CASE Logical(a)' = Logical(a)
  BY <1>1, <1>2
<1>3. CASE Effect(t, a)
  <2>1. PICK es \in Seq(Entry) :
          /\ FollowsDiscipline(es)
          /\ \E i \in DOMAIN es : /\ es[i].addr = a
                                  /\ Logical(a) = es[i].old /\ Logical(a)' = es[i].new
    BY Zenon, <1>3, EffectOf
  <2>2. PICK i \in DOMAIN es : es[i].addr = a /\ Logical(a) = es[i].old /\ Logical(a)' = es[i].new
    BY <2>1
  <2>3. es[i].old <= es[i].new
    BY <2>1, <2>2 DEF FollowsDiscipline
  <2> QED
    BY Zenon, <1>1, <2>2, <2>3, EntryAt, ConstantsAssumption
<1> QED
  BY <1>2, <1>3, LogicalStep

LEMMA DisciplineStays ==
  ASSUME Inv1, TypeOK', Evolves, Inv2, Inv3, Inv4, NEW t \in Threads, Acts(t),
         NEW es \in Seq(Entry), FollowsDiscipline(es)
  PROVE  FollowsDiscipline(es)'
<1>1. ASSUME NEW i \in DOMAIN es, NEW g, g = Guard[es[i].addr], g = es[i].addr
      PROVE  es[i].old <= Logical(g)' /\ es[i].old <= es[i].new
  <2>1. es[i].old \in Int /\ es[i].addr \in Addrs
    BY Zenon, EntryAt, ConstantsAssumption
  <2>2. es[i].old <= Logical(g) /\ es[i].old <= es[i].new
    BY Zenon, <1>1 DEF FollowsDiscipline
  <2>3. Logical(g) \in Int /\ Logical(g)' \in Int /\ Logical(g) <= Logical(g)'
    BY Zenon, <1>1, <2>1, VersionsGrow
  <2> QED
    BY <2>1, <2>2, <2>3
<1>2. ASSUME NEW i \in DOMAIN es, Guard[es[i].addr] # es[i].addr
      PROVE  \E j \in DOMAIN es : /\ es[j].addr = Guard[es[i].addr]
                                  /\ es[i].new # es[i].old => es[j].new > es[j].old
  BY <1>2 DEF FollowsDiscipline
<1> QED
  BY <1>1, <1>2 DEF FollowsDiscipline

-----------------------------------------------------------------------------
(* A descriptor enters a new life only in start and execute.               *)
LEMMA NewLife ==
  ASSUME Inv1, NEW t \in Threads, Acts(t), NEW u \in Threads, kdesc'[u].seq # kdesc[u].seq
  PROVE  u = t /\ (start(t) \/ execute(t))
<1>1. TypeOK
  BY DEF Inv1
<1>2. u = t
  BY <1>1, OthersKept DEF Acts
<1>3. pc[t] = "idle"
  BY <1>2, BusyKept
<1>4. start(t) \/ add(t) \/ execute(t) \/ \E a \in ReadsOf[t] : readPtr(t, a)
  BY Zenon, <1>3 DEF Acts, Step, rdcssRead, rdcssCopy, rdcssCheck, rdcssReadState, rdcssHelp,
     kcasCopy, kcasCheck, helpReadState, rdcssNew, rdcssInitialized, rdcss, decide, phase2, unlock
<1>5. ~ add(t)
  <2> SUFFICES ASSUME add(t) PROVE FALSE
    OBVIOUS
  <2>1. PICK es : kdesc' = [kdesc EXCEPT ![t].entries = es]
    BY DEF add
  <2>2. kdesc[t] \in [seq : Nat, state : States, entries : Seq(Entry)] /\ DOMAIN kdesc = Threads
    BY Zenon, <1>1 DEF TypeOK, KcasDesc
  <2> QED
    BY <1>2, <2>1, <2>2
<1>6. ~ \E a \in ReadsOf[t] : readPtr(t, a)
  BY <1>2 DEF readPtr
<1> QED
  BY <1>2, <1>4, <1>5, <1>6

LEMMA Executes ==
  ASSUME Inv1, NEW t \in Threads, execute(t)
  PROVE  \E es \in SortedEntries(kdesc[t].entries) :
           /\ kdesc'[t].entries = es /\ kdesc'[t].seq = kdesc[t].seq + 1
           /\ es \in Seq(Entry) /\ kdesc[t].entries \in Seq(Entry) /\ t \notin building'
           /\ depth'[t] = 1 /\ pc'[t] = "help" /\ reg'[t].addr = NULL
           /\ frame'[t][1].tag = KcasTag(t, kdesc'[t].seq)
<1>1. TypeOK /\ depth[t] = 0 /\ reg[t].addr = NULL
  BY DEF Inv1, execute, ThreadOK, StackOK
<1>2. pc'[t] = "help" /\ t \notin building' /\ reg' = reg
  BY <1>1 DEF execute, Goto, TypeOK
<1>3. PICK s \in Nat : s = kdesc[t].seq + 1
  BY <1>1, KdescType
<1>4. PICK es \in SortedEntries(kdesc[t].entries) :
        /\ kdesc' = [kdesc EXCEPT ![t].seq = s, ![t].entries = es]
        /\ Push(t, [tag |-> KcasTag(t, s), seq |-> s, entries |-> es,
                    helping |-> FALSE, i |-> 1, state |-> "UNDECIDED"])
  BY Zenon, <1>3 DEF execute
<1>5. es \in Seq(Entry) /\ kdesc[t].entries \in Seq(Entry)
  BY <1>1, <1>4, KdescType, SortedType
<1>6. kdesc'[t].seq = s /\ kdesc'[t].entries = es
  BY <1>1, <1>4 DEF TypeOK, KcasDesc
<1>7. depth'[t] = 1 /\ MaxDepth \in Nat /\ 1 \in 1..MaxDepth
  BY <1>1, <1>4, ConstantsAssumption DEF Push, TypeOK
<1>8. frame'[t][1] = [tag |-> KcasTag(t, s), seq |-> s, entries |-> es,
                      helping |-> FALSE, i |-> 1, state |-> "UNDECIDED"]
  BY <1>1, <1>4, <1>7 DEF Push, TypeOK
<1> QED
  BY <1>1, <1>2, <1>3, <1>4, <1>5, <1>6, <1>7, <1>8

-----------------------------------------------------------------------------
(* A tag enters a word only while its request is undecided.                *)
LEMMA NewTag ==
  ASSUME Inv1, Inv2, Inv4, NEW t \in Threads, Acts(t), NEW a \in Addrs, NEW k, isKcas(k),
         mem'[a] = k, mem[a] # k
  PROVE  /\ RdcssCompletes(t, a) /\ KIssued(k) /\ Undecided(k) /\ k = reg[t].copy.ktag
         /\ isRdcss(mem[a]) /\ reg[t].copy = rdesc[mem[a].tid].body
<1>1. TypeOK
  BY DEF Inv1
<1>2. ~ RdcssInstalls(t, a)
  BY DEF RdcssInstalls, RdcssTag, isKcas
<1>3. ~ Unlocks(t, a)
  <2>1. \A v : Val(v).kind = "val"
    BY DEF Val
  <2> QED
    BY <2>1 DEF Unlocks, isKcas
<1>4. RdcssCompletes(t, a)
  BY <1>1, <1>2, <1>3, WordChange
<1>5. pc[t] = "rdcss_finish" /\ a = reg[t].copy.addr /\ mem[a] = reg[t].tag
  BY Zenon, <1>4 DEF RdcssCompletes, rdcssHelp
<1>6. reg[t].ok /\ k = reg[t].copy.ktag
  BY <1>4 DEF RdcssCompletes, Val, isKcas
<1>7. /\ isRdcss(mem[a]) /\ reg[t].copy = rdesc[mem[a].tid].body
      /\ KIssued(k)
  BY Zenon, <1>5, <1>6, CompletedCopy
<1>8. Undecided(k)
  BY Zenon, <1>5, <1>6 DEF Inv4, CallOK, CompletionOK
<1> QED
  BY Zenon, <1>4, <1>6, <1>7, <1>8

-----------------------------------------------------------------------------
(* The owner of a request.                                                 *)

(* The frames that a step leaves on the stack keep their tags.             *)
LEMMA TagsKept ==
  ASSUME Inv1, NEW t \in Threads, Acts(t), NEW d \in 1..depth[t], d <= depth'[t]
  PROVE  frame'[t][d].tag = frame[t][d].tag
<1>1. TypeOK /\ depth[t] \in Nat /\ depth[t] \in 1..MaxDepth /\ d \in 1..MaxDepth
  BY DepthType DEF Inv1
<1>2. frame[t][d] \in Frame /\ frame[t][depth[t]] \in Frame
  BY Zenon, <1>1, FrameType
<1>3. DOMAIN frame = Threads /\ DOMAIN frame[t] = 1..MaxDepth /\ DOMAIN depth = Threads
  BY <1>1 DEF TypeOK
<1>4. CASE frame' = frame
  BY <1>4
<1>5. CASE \E f : Push(t, f)
  <2>1. PICK f : frame' = [frame EXCEPT ![t][depth[t] + 1] = f]
    BY Zenon, <1>5 DEF Push
  <2> QED
    BY <1>1, <1>3, <2>1
<1>6. CASE \E b : Return(t, b)
  <2>1. frame' = [frame EXCEPT ![t][depth[t]] = NoFrame] /\ depth' = [depth EXCEPT ![t] = @ - 1]
    BY <1>6 DEF Return
  <2>2. d # depth[t]
    BY <1>1, <1>3, <2>1
  <2> QED
    BY <1>1, <1>3, <2>1, <2>2
<1>7. CASE \E g : frame' = [frame EXCEPT ![t][depth[t]] = g] /\ g.tag = Top(t).tag
  BY <1>1, <1>3, <1>7 DEF Top
<1>8. CASE \E n : frame' = [frame EXCEPT ![t][depth[t]].i = n]
  <2>1. PICK n : frame' = [frame EXCEPT ![t][depth[t]].i = n]
    BY Zenon, <1>8
  <2> QED
    BY <1>1, <1>2, <1>3, <2>1 DEF Frame
<1>9. CASE \E st : frame' = [frame EXCEPT ![t][depth[t]].state = st]
  <2>1. PICK st : frame' = [frame EXCEPT ![t][depth[t]].state = st]
    BY Zenon, <1>9
  <2> QED
    BY Zenon, <1>1, <1>2, <1>3, <2>1 DEF Frame
<1>10. CASE phase2(t)
  <2>1. CASE frame' = [frame EXCEPT ![t][depth[t]] =
                         [Top(t) EXCEPT !.i = 1, !.state = kdesc[Top(t).tag.tid].state]]
    <3>1. PICK g : g = [Top(t) EXCEPT !.i = 1, !.state = kdesc[Top(t).tag.tid].state]
      OBVIOUS
    <3>2. g.tag = Top(t).tag
      BY Zenon, <1>2, <3>1 DEF Top, Frame
    <3> QED
      BY Zenon, <1>7, <2>1, <3>1, <3>2
  <2> QED
    BY Zenon, <1>6, <1>10, <2>1 DEF phase2
<1>11. CASE execute(t) \/ kcasCopy(t)
  BY Zenon, <1>5, <1>11 DEF execute, kcasCopy
<1>12. CASE kcasCheck(t)
  BY Zenon, <1>4, <1>6, <1>12 DEF kcasCheck
<1>13. CASE helpReadState(t)
  BY Zenon, <1>4, <1>6, <1>9, <1>13 DEF helpReadState
<1>14. CASE rdcssHelp(t)
  BY Zenon, <1>4, <1>8, <1>14 DEF rdcssHelp, NextEntry
<1>15. CASE rdcss(t)
  BY Zenon, <1>4, <1>8, <1>9, <1>15 DEF rdcss, NextEntry
<1>16. CASE unlock(t)
  BY Zenon, <1>6, <1>8, <1>16 DEF unlock
<1>17. CASE \/ start(t) \/ add(t) \/ rdcssRead(t) \/ rdcssCopy(t) \/ rdcssCheck(t)
            \/ rdcssReadState(t) \/ rdcssNew(t) \/ rdcssInitialized(t) \/ decide(t)
            \/ \E a \in ReadsOf[t] : readPtr(t, a)
  BY Zenon, <1>4, <1>17 DEF start, add, rdcssRead, rdcssCopy, rdcssCheck, rdcssReadState,
     rdcssNew, rdcssInitialized, decide, readPtr
<1> QED
  BY Zenon, <1>10, <1>11, <1>12, <1>13, <1>14, <1>15, <1>16, <1>17 DEF Acts, Step

(* Whether a thread reads or executes is settled when it is called.        *)
LEMMA AddrKept ==
  ASSUME Inv1, NEW t \in Threads, Acts(t), pc[t] # "idle", pc'[t] # "idle"
  PROVE  reg'[t].addr = reg[t].addr
<1>1. TypeOK /\ DOMAIN reg = Threads /\ DOMAIN pc = Threads /\ reg[t] \in Reg
  BY DEF Inv1, TypeOK
<1>2. CASE reg' = reg
  BY <1>2
<1>3. CASE ForgetRdcss(t)
  BY <1>1, <1>3 DEF ForgetRdcss, NoReg
<1>4. CASE rdcssRead(t)
  <2>1. \/ reg' = [reg EXCEPT ![t].tag = mem[reg[t].addr], ![t].helping = TRUE]
        \/ reg' = [reg EXCEPT ![t].tag = mem[reg[t].addr]]
    BY <1>1, <1>4 DEF rdcssRead, Goto
  <2> QED
    BY <1>1, <2>1 DEF Reg
<1>5. CASE rdcss(t)
  <2>1. \/ reg' = reg
        \/ \E x, y : reg' = [reg EXCEPT ![t].tag = x, ![t].copy = y]
        \/ \E x : reg' = [reg EXCEPT ![t].tag = x, ![t].helping = TRUE]
        \/ \E x : reg' = [reg EXCEPT ![t].tag = x]
    BY Zenon, <1>5 DEF rdcss
  <2> QED
    BY Zenon, <1>1, <2>1 DEF Reg
<1>6. CASE rdcssCopy(t)
  BY <1>1, <1>6 DEF rdcssCopy, Reg
<1>7. CASE rdcssReadState(t)
  BY <1>1, <1>7 DEF rdcssReadState, Reg
<1>8. CASE kcasCopy(t)
  BY <1>1, <1>8 DEF kcasCopy, Reg
<1>9. CASE rdcssCheck(t) \/ rdcssHelp(t)
  BY <1>2, <1>3, <1>9 DEF rdcssCheck, rdcssHelp, Retry
<1>10. CASE \/ kcasCheck(t) \/ helpReadState(t) \/ rdcssNew(t) \/ rdcssInitialized(t)
            \/ decide(t) \/ phase2(t) \/ unlock(t)
  BY Zenon, <1>2, <1>10 DEF kcasCheck, helpReadState, rdcssNew, rdcssInitialized, decide,
     phase2, unlock
<1> QED
  BY Zenon, <1>4, <1>5, <1>6, <1>7, <1>8, <1>9, <1>10
     DEF Acts, Step, start, add, execute, readPtr

(* The frame of execute itself.                                            *)
LEMMA OwnFrame ==
  ASSUME Inv1, Inv4, NEW t \in Threads, Executing(t)
  PROVE  /\ pc[t] # "idle" /\ reg[t].addr = NULL /\ t \notin building /\ depth[t] > 0
         /\ frame[t][1].tag = KcasTag(t, kdesc[t].seq) /\ Alive(frame[t][1].tag)
         /\ depth[t] \in Nat /\ 1 \in 1..depth[t]
<1>1. OwnerOK(t) /\ depth[t] \in Nat
  BY DepthType DEF Inv1, Inv4, CallOK
<1> QED
  BY <1>1 DEF OwnerOK, Executing, IsReading, Alive, KcasTag

(* execute returns only at the end of phase 2.                             *)
LEMMA ToIdle ==
  ASSUME Inv1, Inv4, NEW t \in Threads, Acts(t), Executing(t), pc'[t] = "idle"
  PROVE  unlock(t) /\ depth[t] = 1 /\ ~ (Top(t).i < Len(Top(t).entries))
<1>1. TypeOK /\ DOMAIN pc = Threads
  BY DEF Inv1, TypeOK
<1>2. /\ pc[t] # "idle" /\ depth[t] > 0 /\ depth[t] \in Nat
      /\ depth[t] <= 1 => Top(t) = frame[t][1] /\ Alive(Top(t).tag) /\ depth[t] = 1
  BY OwnFrame DEF Top
<1>3. ASSUME NEW b, Return(t, b) PROVE depth[t] <= 1
  BY <1>1, <1>2, <1>3 DEF Return, Goto
<1>4. \A es, i : LoopHead(es, i) # "idle"
  BY DEF LoopHead
<1>5. ~ rdcssRead(t)
  BY <1>2 DEF rdcssRead, Inv1, ThreadOK, StackOK
<1>6. ~ (kcasCheck(t) \/ phase2(t))
  BY Zenon, <1>1, <1>2, <1>3 DEF kcasCheck, phase2, Goto
<1>7. ASSUME helpReadState(t) PROVE FALSE
  <2>1. CASE ~ Alive(Top(t).tag) /\ Return(t, FALSE)
    BY Zenon, <1>2, <1>3, <2>1
  <2>2. CASE Goto(t, LoopHead(Top(t).entries, Top(t).i)) \/ Goto(t, "phase2")
    BY SMTT(30), <1>1, <1>4, <2>2 DEF Goto
  <2> QED
    BY Zenon, <1>7, <2>1, <2>2 DEF helpReadState
<1>8. ~ (rdcssCheck(t) \/ rdcssHelp(t) \/ rdcss(t))
  BY <1>1, <1>4 DEF rdcssCheck, rdcssHelp, rdcss, Retry, NextEntry, Goto
<1>9. ~ (rdcssCopy(t) \/ rdcssReadState(t) \/ kcasCopy(t) \/ rdcssNew(t) \/ rdcssInitialized(t)
         \/ decide(t))
  BY <1>1 DEF rdcssCopy, rdcssReadState, kcasCopy, rdcssNew, rdcssInitialized, decide, Goto
<1>10. unlock(t)
  BY Zenon, <1>2, <1>5, <1>6, <1>7, <1>8, <1>9 DEF Acts, Step, start, add, execute, readPtr
<1>11. ~ (Top(t).i < Len(Top(t).entries)) /\ Return(t, Top(t).state = "SUCCEEDED")
  BY <1>2, <1>10 DEF unlock
<1> QED
  BY <1>2, <1>3, <1>10, <1>11

(* What the last step of execute finds: the request is decided, and no     *)
(* word holds its tag any more.                                            *)
LEMMA Returns ==
  ASSUME Inv1, Inv2, Inv3, Inv4, NEW t \in Threads, Acts(t), Executing(t), pc'[t] = "idle"
  PROVE  /\ kdesc[t].state # "UNDECIDED"
         /\ \A a \in Addrs : mem'[a] # KcasTag(t, kdesc[t].seq)
<1>1. /\ unlock(t) /\ depth[t] = 1 /\ ~ (Top(t).i < Len(Top(t).entries)) /\ pc[t] = "unlock"
      /\ depth[t] > 0
  BY SMTT(30), ToIdle, OwnFrame DEF unlock
<1>2. PICK k : k = KcasTag(t, kdesc[t].seq) /\ k = frame[t][1].tag /\ Alive(k) /\ k = Top(t).tag
  BY <1>1, OwnFrame DEF Top
<1>3. PICK f \in Frame : f = Top(t) /\ CopyOK(f) /\ FrameOK(t, depth[t]) /\ f = frame[t][depth[t]]
  BY Zenon, <1>1, TopKnown DEF Top
<1>4. LockOK(f, "release")
  <2>1. Stage(t, depth[t]) = "release"
    BY SMTT(30), <1>1 DEF Stage
  <2> QED
    BY Zenon, <1>1, <1>3, <2>1, TopKnown
<1>5. k.tid = t /\ ~ Undecided(k)
  BY SMTT(30), <1>2, <1>3, <1>4 DEF LockOK, KcasTag
<1>6. kdesc[t].state # "UNDECIDED"
  BY <1>2, <1>5 DEF Undecided, InState
<1>7. PICK es \in Seq(Entry) : es = f.entries /\ es = kdesc[t].entries
  BY Zenon, <1>2, <1>3, <1>5 DEF CopyOK, Frame
<1>8. f.i = Len(es) /\ f.i \in Nat /\ f.i \in DOMAIN es
  <2>1. f.i >= 1 /\ f.i <= Len(f.entries) /\ f.i \in Nat
    BY Zenon, <1>1, <1>3 DEF FrameOK, AtEntry, EntryPcs, Frame
  <2> QED
    BY <1>1, <1>3, <1>7, <2>1
<1>9. isKcas(k)
  BY <1>2 DEF KcasTag, isKcas
<1>10. ASSUME NEW a \in Addrs, mem'[a] = k PROVE FALSE
  <2>1. mem[a] = k
    BY SMTT(30), <1>5, <1>9, <1>10, NewTag
  <2>2. PICK j \in DOMAIN es : es[j].addr = a
    BY <1>5, <1>7, <1>9, <2>1 DEF Inv4, TagsLive
  <2>3. CASE j = f.i
    <3>1. CurrentEntry(t).addr = a
      BY Zenon, <1>3, <1>7, <2>2, <2>3 DEF CurrentEntry
    <3>2. \E v : mem'[a] = Val(v)
      BY <1>1, <1>2, <2>1, <3>1 DEF unlock, BoolCas, Inv1, TypeOK
    <3> QED
      BY <1>9, <1>10, <3>2 DEF Val, isKcas
  <2>4. CASE j # f.i
    <3>1. j \in 1..(f.i - 1)
      BY <1>7, <1>8, <2>4
    <3>2. ReleaseOK(t)
      BY DEF Inv4, CallOK
    <3> QED
      BY Zenon, <1>1, <1>2, <1>3, <1>7, <2>1, <2>2, <3>1, <3>2 DEF ReleaseOK
  <2> QED
    BY SMTT(30), <2>3, <2>4
<1> QED
  BY <1>2, <1>6, <1>10

LEMMA ExecutingKept ==
  ASSUME Inv1, NEW t \in Threads, Acts(t), NEW u \in Threads, Executing(u), pc'[u] # "idle"
  PROVE  Executing(u)'
<1>1. TypeOK
  BY DEF Inv1
<1>2. CASE u # t
  BY <1>1, <1>2, OthersKept DEF Acts, Executing, IsReading
<1>3. CASE u = t
  BY <1>3, AddrKept DEF Executing, IsReading
<1> QED
  BY <1>2, <1>3

LEMMA OwnerStep ==
  ASSUME Inv1, TypeOK', Evolves, Inv2, Inv3, Inv4, NEW t \in Threads, Acts(t), NEW u \in Threads
  PROVE  OwnerOK(u)'
<1>1. TypeOK /\ 0 \notin Addrs
  BY ConstantsAssumption DEF Inv1
<1>2. Executing(u) /\ pc'[u] # "idle" => Executing(u)'
  BY ExecutingKept
<1>3. ASSUME Executing(u)'
      PROVE  /\ u \notin building' /\ depth'[u] > 0
             /\ frame'[u][1].tag = KcasTag(u, kdesc'[u].seq)
  <2>1. CASE u # t
    <3>1. /\ pc'[u] = pc[u] /\ depth'[u] = depth[u] /\ frame'[u] = frame[u] /\ reg'[u] = reg[u]
          /\ kdesc'[u].seq = kdesc[u].seq /\ (u \in building' <=> u \in building)
      BY <1>1, <2>1, OthersKept DEF Acts
    <3>2. Executing(u)
      BY <1>3, <3>1 DEF Executing, IsReading
    <3> QED
      BY SMTT(30), <3>1, <3>2, OwnFrame
  <2>2. CASE u = t /\ pc[t] = "idle"
    <3>1. ~ \E a \in ReadsOf[t] : readPtr(t, a)
      <4> SUFFICES ASSUME NEW a \in ReadsOf[t], readPtr(t, a) PROVE FALSE
        OBVIOUS
      <4>1. a \in Addrs /\ reg'[t].addr = a
        BY SMTT(30), <1>1, ConstantsAssumption DEF readPtr, TypeOK, Reg
      <4> QED
        BY <1>1, <1>3, <2>2, <4>1 DEF Executing, IsReading, NULL
    <3>2. execute(t)
      BY Zenon, <1>3, <2>2, <3>1 DEF Acts, Step, Executing, start, add,
         rdcssRead, rdcssCopy, rdcssCheck, rdcssReadState, rdcssHelp, kcasCopy, kcasCheck,
         helpReadState, rdcssNew, rdcssInitialized, rdcss, decide, phase2, unlock
    <3> QED
      BY <2>2, <3>2, Executes
  <2>3. CASE u = t /\ pc[t] # "idle"
    <3>1. pc'[t] # "idle" /\ Executing(t)
      BY <1>3, <2>3, AddrKept DEF Executing, IsReading
    <3>2. /\ kdesc'[t].seq = kdesc[t].seq /\ t \notin building'
          /\ frame[t][1].tag = KcasTag(t, kdesc[t].seq) /\ 1 \in 1..depth[t]
      BY <2>3, <3>1, BusyKept, OwnFrame
    <3>3. depth'[t] > 0 /\ depth'[t] \in Nat
      <4>1. depth'[t] \in Nat
        BY ConstantsAssumption DEF TypeOK
      <4>2. depth'[t] # 0
        <5>1. ~ (depth[t] <= 0) /\ depth[t] \in Nat
          BY <3>1, OwnFrame
        <5>2. ASSUME NEW b, Return(t, b), depth[t] <= 1 PROVE FALSE
          <6>1. depth[t] = 1
            BY <5>1, <5>2
          <6>2. Top(t) = frame[t][1] /\ ~ frame[t][1].helping
            BY Zenon, <3>1, <3>2, <6>1, OwnFrame DEF Top, Inv1, ThreadOK, FrameOK
          <6> QED
            BY <1>1, <3>1, <5>2, <6>1, <6>2 DEF Return, Goto, TypeOK
        <5>3. CASE \E b : Return(t, b)
          <6>1. PICK b : Return(t, b)
            BY <5>3
          <6>2. ~ (depth[t] <= 1) /\ depth'[t] = depth[t] - 1
            BY SMTT(30), <1>1, <5>2, <6>1 DEF Return, TypeOK
          <6> QED
            BY <5>1, <6>2
        <5>4. CASE \E f : Push(t, f)
          BY <1>1, <5>1, <5>4 DEF Push, TypeOK
        <5>5. CASE depth' = depth
          BY <5>1, <5>5
        <5>6. (\E b : Return(t, b)) \/ (\E f : Push(t, f)) \/ depth' = depth
          BY Zenon, <2>3 DEF Acts, Step, start, add, execute, readPtr,
             rdcssRead, rdcssCopy, rdcssCheck, rdcssReadState, rdcssHelp, kcasCopy, kcasCheck,
             helpReadState, rdcssNew, rdcssInitialized, rdcss, decide, phase2, unlock
        <5> QED
          BY SMTT(30), <5>3, <5>4, <5>5, <5>6
      <4> QED
        BY <4>1, <4>2
    <3>4. frame'[t][1].tag = frame[t][1].tag
      BY SMTT(30), <3>2, <3>3, TagsKept
    <3> QED
      BY <2>3, <3>2, <3>3, <3>4
  <2> QED
    BY <2>1, <2>2, <2>3
<1>4. ASSUME Published(u)', kdesc'[u].state = "UNDECIDED" PROVE Executing(u)'
  <2>1. CASE kdesc'[u].seq # kdesc[u].seq
    <3>1. u = t /\ execute(t)
      BY <1>4, <2>1, NewLife DEF Published, start
    <3> QED
      BY <3>1, Executes DEF Executing, IsReading
  <2>2. CASE kdesc'[u].seq = kdesc[u].seq
    <3>1. Published(u) /\ kdesc[u].state = "UNDECIDED"
      BY SMTT(30), <1>4, <2>2 DEF Published, Evolves
    <3>2. Executing(u)
      BY <3>1 DEF Inv4, CallOK, OwnerOK
    <3>3. pc'[u] # "idle"
      <4>1. CASE u # t
        BY Zenon, <1>1, <3>2, <4>1, OthersKept DEF Acts, Executing
      <4>2. CASE u = t
        BY <3>1, <3>2, <4>2, Returns
      <4> QED
        BY <4>1, <4>2
    <3> QED
      BY <1>2, <3>2, <3>3
  <2> QED
    BY <2>1, <2>2
<1> QED
  BY <1>3, <1>4 DEF OwnerOK

LEMMA TagsStep ==
  ASSUME Inv1, TypeOK', Evolves, Inv2, Inv3, Inv4, NEW t \in Threads, Acts(t)
  PROVE  TagsLive'
<1> SUFFICES ASSUME NEW a \in Addrs, NEW k, k = mem'[a], isKcas(k)
             PROVE  /\ Alive(k)' /\ Executing(k.tid)'
                    /\ \E i \in DOMAIN kdesc'[k.tid].entries :
                         kdesc'[k.tid].entries[i].addr = a
  BY DEF TagsLive
<1>1. /\ KIssued(k) /\ Alive(k) /\ Executing(k.tid) /\ k.tid \in Threads
      /\ k = KcasTag(k.tid, kdesc[k.tid].seq)
      /\ \E i \in DOMAIN kdesc[k.tid].entries : kdesc[k.tid].entries[i].addr = a
  <2>1. CASE mem[a] = k
    BY Zenon, <2>1, LiveTag DEF Inv4, TagsLive, Inv1, WordsOK
  <2>2. CASE mem[a] # k
    <3>1. /\ KIssued(k) /\ Undecided(k) /\ k = reg[t].copy.ktag /\ isRdcss(mem[a])
          /\ reg[t].copy = rdesc[mem[a].tid].body
      BY Zenon, <2>2, NewTag
    <3>2. PICK o \in Threads, f \in Frame :
            /\ o = mem[a].tid /\ f = Top(o) /\ CopyOK(f) /\ LockOK(f, "loop")
            /\ f.i \in DOMAIN f.entries /\ f.entries[f.i].addr = a
            /\ rdesc[o].seq = mem[a].seq /\ Finishing(o) /\ rdesc[o].body \in Rdcss
            /\ rdesc[o].body.ktag = f.tag /\ rdesc[o].body.addr = a
            /\ rdesc[o].body.old = f.entries[f.i].old
      BY Zenon, <3>1, InstalledRdcss
    <3>3. f.tag = k /\ Alive(k) /\ f.entries = kdesc[k.tid].entries
      BY Zenon, <3>1, <3>2 DEF Undecided, InState, CopyOK
    <3>4. /\ k.tid \in Threads /\ Published(k.tid) /\ k = KcasTag(k.tid, kdesc[k.tid].seq)
          /\ kdesc[k.tid].state = "UNDECIDED"
      BY Zenon, <3>1, <3>3, LiveTag DEF Undecided, InState
    <3>5. Executing(k.tid)
      BY SMTT(30), <3>4 DEF Inv4, CallOK, OwnerOK
    <3> QED
      BY Zenon, <3>1, <3>2, <3>3, <3>4, <3>5
  <2> QED
    BY Zenon, <2>1, <2>2
<1>2. pc[k.tid] # "idle"
  BY SMTT(30), <1>1 DEF Executing
<1>3. kdesc'[k.tid].seq = kdesc[k.tid].seq /\ kdesc'[k.tid].entries = kdesc[k.tid].entries
  BY <1>1, <1>2, BusyKept
<1>4. pc'[k.tid] # "idle"
  <2>1. CASE k.tid # t
    BY ZenonT(30), <1>1, <1>2, <2>1, OthersKept DEF Acts, Inv1
  <2>2. CASE k.tid = t
    <3>1. pc'[t] = "idle" => mem'[a] # KcasTag(t, kdesc[t].seq)
      BY SMTT(30), <1>1, <2>2, Returns
    <3> QED
      BY SMTT(30), <1>1, <2>2, <3>1
  <2> QED
    BY SMTT(30), <2>1, <2>2
<1>5. Executing(k.tid)'
  BY <1>1, <1>4, ExecutingKept
<1> QED
  BY Zenon, <1>1, <1>3, <1>5 DEF Alive

(* A word released once stays so.                                          *)
LEMMA ReleasedStays ==
  ASSUME Inv1, TypeOK', Inv2, Inv3, Inv4, NEW t \in Threads, Acts(t),
         NEW u \in Threads, pc[u] = "unlock", Alive(Top(u).tag)
  PROVE  /\ KIssued(Top(u).tag) /\ kdesc[Top(u).tag.tid].state # "UNDECIDED"
         /\ \A j \in 1..(Top(u).i - 1) : mem'[Top(u).entries[j].addr] # Top(u).tag
         /\ Top(u).i \in DOMAIN Top(u).entries /\ Top(u).entries \in Seq(Entry)
<1>1. depth[u] > 0
  BY DEF Inv1, ThreadOK, StackOK, HelpPcs
<1>2. Stage(u, depth[u]) = "release"
  <2>1. ~ (depth[u] < depth[u])
    BY DepthType DEF Inv1
  <2> QED
    BY <2>1 DEF Stage
<1>3. PICK f \in Frame : /\ f = Top(u) /\ f = frame[u][depth[u]] /\ KIssued(f.tag)
                         /\ FrameOK(u, depth[u]) /\ LockOK(f, "release")
  BY Zenon, <1>1, <1>2, TopKnown DEF Top
<1>4. f.entries \in Seq(Entry) /\ f.i \in DOMAIN f.entries
  <2>1. f.i >= 1 /\ f.i <= Len(f.entries)
    BY Zenon, <1>3 DEF FrameOK, AtEntry, EntryPcs
  <2> QED
    BY <2>1 DEF Frame
<1>5. ~ Undecided(f.tag) /\ isKcas(f.tag)
  BY Zenon, <1>3 DEF LockOK, KIssued, KcasTags, isKcas
<1>6. ASSUME NEW j \in 1..(f.i - 1) PROVE mem'[f.entries[j].addr] # f.tag
  <2>1. f.entries[j].addr \in Addrs
    <3>1. j \in DOMAIN f.entries
      BY <1>4
    <3> QED
      BY <1>4, <3>1, EntryAt
  <2>2. mem[f.entries[j].addr] # f.tag
    BY Zenon, <1>3 DEF Inv4, CallOK, ReleaseOK
  <2> QED
    BY Zenon, <1>5, <2>1, <2>2, NewTag
<1> QED
  BY Zenon, <1>3, <1>4, <1>5, <1>6 DEF Undecided, InState

LEMMA ReleaseStep ==
  ASSUME Inv1, TypeOK', Evolves, Inv2, Inv3, Inv4, NEW t \in Threads, Acts(t), NEW u \in Threads
  PROVE  ReleaseOK(u)'
<1> SUFFICES ASSUME pc'[u] = "unlock", Alive(Top(u).tag)'
             PROVE  /\ Top(u)'.state = kdesc'[Top(u)'.tag.tid].state
                    /\ \A j \in 1..(Top(u)'.i - 1) :
                         mem'[Top(u)'.entries[j].addr] # Top(u)'.tag
  BY DEF ReleaseOK
<1>1. TypeOK /\ u \in DOMAIN pc /\ u \in DOMAIN depth
  BY DEF Inv1, TypeOK
<1>2. CASE u # t
  <2>1. Top(u)' = Top(u) /\ pc[u] = "unlock"
    BY Zenon, <1>1, <1>2, OthersKept DEF Acts, Top
  <2>2. KIssued(Top(u).tag)
    <3>1. depth[u] > 0
      BY Zenon, <2>1 DEF Inv1, ThreadOK, StackOK, HelpPcs
    <3> QED
      BY Zenon, <3>1, TopKnown
  <2>3. PICK k : k = Top(u).tag
    OBVIOUS
  <2>4. Alive(k)'
    BY SMTT(30), <2>1, <2>3 DEF Alive
  <2>5. /\ Alive(k)
        /\ kdesc[k.tid].state # "UNDECIDED" => kdesc'[k.tid].state = kdesc[k.tid].state
    BY <1>1, <2>2, <2>3, <2>4, AliveBefore
  <2>6. ReleaseOK(u)
    BY DEF Inv4, CallOK
  <2> QED
    BY Zenon, <2>1, <2>3, <2>5, <2>6, ReleasedStays DEF ReleaseOK
<1>3. CASE u = t /\ phase2(t)
  <2>1. /\ Alive(Top(t).tag) /\ depth' = depth /\ kdesc' = kdesc
        /\ frame' = [frame EXCEPT ![t][depth[t]] =
                       [Top(t) EXCEPT !.i = 1, !.state = kdesc[Top(t).tag.tid].state]]
    <3>1. ASSUME Return(t, FALSE) PROVE FALSE
      BY Zenon, <1>1, <1>3, <3>1 DEF Return, Goto
    <3> QED
      BY Zenon, <1>3, <3>1 DEF phase2
  <2>2. Top(t) \in Frame /\ depth[t] \in 1..MaxDepth
    BY SMTT(30), <1>1, <1>3, TopFrame DEF phase2, Inv1, ThreadOK, StackOK, HelpPcs
  <2>3. Top(t)' = [Top(t) EXCEPT !.i = 1, !.state = kdesc[Top(t).tag.tid].state]
    BY <1>1, <2>1, <2>2 DEF Top, TypeOK
  <2>4. /\ Top(t)'.i = 1 /\ Top(t)'.tag = Top(t).tag
        /\ Top(t)'.state = kdesc[Top(t).tag.tid].state
    BY <2>2, <2>3 DEF Frame
  <2> QED
    BY <1>3, <2>1, <2>4
<1>4. CASE u = t /\ unlock(t)
  <2>1. /\ pc[t] = "unlock" /\ depth' = depth /\ kdesc' = kdesc
        /\ frame' = [frame EXCEPT ![t][depth[t]].i = @ + 1]
        /\ BoolCas(CurrentEntry(t).addr, Top(t).tag,
                   Val(IF Top(t).state = "SUCCEEDED" THEN CurrentEntry(t).new
                       ELSE CurrentEntry(t).old))
    <3>1. ASSUME Return(t, Top(t).state = "SUCCEEDED") PROVE FALSE
      BY <1>1, <1>4, <3>1 DEF Return, Goto
    <3> QED
      BY Zenon, <1>4, <3>1 DEF unlock
  <2>2. Top(t) \in Frame /\ depth[t] \in 1..MaxDepth
    BY <1>1, <2>1, TopFrame DEF Inv1, ThreadOK, StackOK, HelpPcs
  <2>3. Top(t)' = [Top(t) EXCEPT !.i = @ + 1]
    BY <1>1, <2>1, <2>2 DEF Top, TypeOK
  <2>4. /\ Top(t)'.i = Top(t).i + 1 /\ Top(t)'.tag = Top(t).tag /\ Top(t).i \in Nat
        /\ Top(t)'.state = Top(t).state /\ Top(t)'.entries = Top(t).entries
    BY <2>2, <2>3 DEF Frame
  <2>5. Alive(Top(t).tag)
    BY <1>4, <2>1, <2>4 DEF Alive
  <2>6. /\ KIssued(Top(t).tag)
        /\ \A j \in 1..(Top(t).i - 1) : mem'[Top(t).entries[j].addr] # Top(t).tag
        /\ Top(t).i \in DOMAIN Top(t).entries /\ Top(t).entries \in Seq(Entry)
    BY <2>1, <2>5, ReleasedStays
  <2>7. mem'[Top(t).entries[Top(t).i].addr] # Top(t).tag
    <3>1. CurrentEntry(t).addr \in Addrs /\ CurrentEntry(t) = Top(t).entries[Top(t).i]
      BY SMTT(30), <2>6, EntryAt DEF CurrentEntry
    <3>2. \A v : Val(v) # Top(t).tag
      BY <2>6 DEF KIssued, KcasTags, Val
    <3> QED
      BY Zenon, <1>1, <2>1, <3>1, <3>2 DEF BoolCas, TypeOK
  <2>8. Top(t).state = kdesc[Top(t).tag.tid].state
    BY SMTT(30), <2>1, <2>5 DEF Inv4, CallOK, ReleaseOK
  <2>9. ASSUME NEW j \in 1..(Top(t)'.i - 1) PROVE mem'[Top(t).entries[j].addr] # Top(t).tag
    <3>1. j \in 1..(Top(t).i - 1) \/ j = Top(t).i
      BY <2>4
    <3> QED
      BY <2>6, <2>7, <3>1
  <2> QED
    BY <1>4, <2>1, <2>4, <2>8, <2>9
<1>5. CASE u = t /\ ~ phase2(t) /\ ~ unlock(t)
  <2>1. \A es, i : LoopHead(es, i) # "unlock"
    BY DEF LoopHead
  <2>2. ~ (start(t) \/ add(t) \/ execute(t) \/ \E a \in ReadsOf[t] : readPtr(t, a))
    BY SMTT(30), <1>1, <1>5 DEF start, add, execute, readPtr, Goto
  <2>3. ~ (rdcssRead(t) \/ rdcssCopy(t) \/ rdcssReadState(t) \/ kcasCopy(t) \/ rdcssNew(t)
           \/ rdcssInitialized(t) \/ decide(t))
    BY <1>1, <1>5 DEF rdcssRead, rdcssCopy, rdcssReadState, kcasCopy, rdcssNew,
       rdcssInitialized, decide, Goto
  <2>4. ~ (rdcssCheck(t) \/ rdcssHelp(t) \/ rdcss(t))
    BY <1>1, <1>5, <2>1 DEF rdcssCheck, rdcssHelp, rdcss, Retry, NextEntry, Goto
  <2>5. ASSUME NEW b, Return(t, b) PROVE FALSE
    BY <1>1, <1>5, <2>5 DEF Return, Goto
  <2>6. ~ kcasCheck(t)
    BY Zenon, <1>1, <1>5, <2>5 DEF kcasCheck, Goto
  <2>7. ASSUME helpReadState(t) PROVE FALSE
    <3>1. CASE Return(t, FALSE)
      BY Zenon, <2>5, <3>1
    <3>2. CASE Goto(t, LoopHead(Top(t).entries, Top(t).i)) \/ Goto(t, "phase2")
      BY <1>1, <1>5, <2>1, <3>2 DEF Goto
    <3> QED
      BY Zenon, <2>7, <3>1, <3>2 DEF helpReadState
  <2> QED
    BY Zenon, <1>5, <2>2, <2>3, <2>4, <2>6, <2>7 DEF Acts, Step
<1> QED
  BY SMTT(30), <1>2, <1>3, <1>4, <1>5

(* While its tag stands in for a word through an RDCSS, a request cannot   *)
(* be decided: who says it succeeded would hold that word, and who says it *)
(* failed met another value in a word that has the expected one.           *)
LEMMA PendingUndecided ==
  ASSUME Inv1, TypeOK', Evolves, Inv2, Inv3, Inv4, NEW t \in Threads, Acts(t),
         NEW a \in Addrs, isRdcss(mem[a]), NEW k, k = rdesc[mem[a].tid].body.ktag,
         Undecided(k)
  PROVE  Undecided(k)'
<1>1. PICK o \in Threads, f \in Frame :
        /\ o = mem[a].tid /\ f = Top(o) /\ CopyOK(f) /\ LockOK(f, "loop")
        /\ f.i \in DOMAIN f.entries /\ f.entries[f.i].addr = a
        /\ rdesc[o].seq = mem[a].seq /\ Finishing(o) /\ rdesc[o].body \in Rdcss
        /\ rdesc[o].body.ktag = f.tag /\ rdesc[o].body.addr = a
        /\ rdesc[o].body.old = f.entries[f.i].old
  BY Zenon, InstalledRdcss
<1>2. f.tag = k /\ KIssued(k) /\ Alive(k) /\ kdesc[k.tid].state = "UNDECIDED"
  BY Zenon, <1>1 DEF CopyOK, Undecided, InState
<1>3. k.tid \in Threads /\ Published(k.tid) /\ kdesc[k.tid].entries \in Seq(Entry)
  BY Zenon, <1>2, LiveTag
<1>4. PICK es \in Seq(Entry) : es = kdesc[k.tid].entries /\ es = f.entries
  BY Zenon, <1>1, <1>2, <1>3 DEF CopyOK
<1>5. Executing(k.tid) /\ RequestOK(k.tid) /\ IsSorted(es)
  BY Zenon, <1>2, <1>3, <1>4 DEF Inv4, CallOK, OwnerOK, RequestOK
<1>6. kdesc'[k.tid].seq = kdesc[k.tid].seq
  BY Zenon, <1>3, <1>5, BusyKept DEF Executing
<1>7. ASSUME kdesc'[k.tid].state # "UNDECIDED" PROVE FALSE
  <2>1. /\ pc[t] = "decide" /\ k.tid = Top(t).tag.tid /\ kdesc[k.tid].seq = Top(t).seq
        /\ kdesc'[k.tid].state = Top(t).state
    BY Zenon, <1>2, <1>3, <1>6, <1>7, StateStep
  <2>2. PICK g \in Frame : /\ g = Top(t) /\ CopyOK(g) /\ KIssued(g.tag) /\ LockOK(g, "decide")
                           /\ g.seq = g.tag.seq /\ g.i >= 1
    BY <2>1, DecidingFrame
  <2>3. g.tag = k
    <3>1. g.tag.tid = k.tid /\ g.tag.seq = k.seq
      BY Zenon, <1>2, <2>1, <2>2 DEF Alive
    <3> QED
      BY Zenon, <1>2, <2>2, <3>1, SameTag
  <2>4. g.entries = es
    BY Zenon, <1>2, <1>4, <2>2, <2>3 DEF CopyOK
  <2>5. mem[a] # k
    BY Zenon, <1>2 DEF KIssued, KcasTags, isRdcss
  <2>6. CASE g.state = "SUCCEEDED"
    <3>1. f.i \in DOMAIN kdesc[k.tid].entries
      BY Zenon, <1>1, <1>4
    <3>2. mem[kdesc[k.tid].entries[f.i].addr] = k
      BY Zenon, <2>1, <2>2, <2>3, <2>6, <3>1, SuccessHolds
    <3> QED
      BY Zenon, <1>1, <1>4, <2>5, <3>2
  <2>7. CASE g.state = "FAILED" /\ g.i <= Len(g.entries)
    <3>1. g.i \in DOMAIN es /\ f.i \in DOMAIN es /\ g.i \in Nat /\ f.i \in Nat
      <4>1. g.i \in Nat /\ f.i \in Nat
        BY DEF Frame
      <4>2. f.i \in DOMAIN es /\ g.i >= 1 /\ g.i <= Len(es)
        BY Zenon, <1>1, <1>4, <2>2, <2>4, <2>7
      <4> QED
        BY SMTT(30), <4>1, <4>2
    <3>2. Logical(es[g.i].addr) # es[g.i].old
      BY Zenon, <2>1, <2>2, <2>3, <2>4, <2>7 DEF Inv4, CallOK, MismatchOK, CurrentEntry
    <3>3. CASE g.i < f.i
      <4>1. \A j \in 1..(f.i - 1) : mem[es[j].addr] = k
        BY Zenon, <1>1, <1>2, <1>4 DEF LockOK
      <4>2. PICK j \in DOMAIN es : j = g.i /\ j \in 1..(f.i - 1)
        BY <2>2, <3>1, <3>3
      <4>3. /\ KIssued(k) /\ Alive(k) /\ RequestOK(k.tid) /\ es = kdesc[k.tid].entries
            /\ mem[es[j].addr] = k
        BY Zenon, <1>2, <1>4, <1>5, <4>1, <4>2
      <4>4. Logical(es[j].addr) = IF kdesc[k.tid].state = "SUCCEEDED" THEN es[j].new
                                  ELSE es[j].old
        BY Zenon, <4>3, LockedValue
      <4> QED
        BY Zenon, <1>2, <3>2, <4>2, <4>4
    <3>4. CASE g.i = f.i
      <4>1. Logical(a) = rdesc[o].body.old
        BY Zenon, <1>1, LogicalRdcss
      <4> QED
        BY Zenon, <1>1, <1>4, <3>2, <3>4, <4>1
    <3>5. CASE g.i > f.i
      <4>1. mem[es[f.i].addr] = k
        <5>1. \A j \in 1..(g.i - 1) : mem[es[j].addr] = k
          BY Zenon, <1>2, <2>2, <2>3, <2>4 DEF LockOK
        <5>2. f.i \in 1..(g.i - 1)
          BY <3>1, <3>5
        <5> QED
          BY <5>1, <5>2
      <4> QED
        BY Zenon, <1>1, <1>4, <2>5, <4>1
    <3> QED
      BY SMTT(30), <3>1, <3>3, <3>4, <3>5
  <2> QED
    BY Zenon, <2>2, <2>6, <2>7 DEF LockOK
<1> QED
  BY Zenon, <1>2, <1>6, <1>7 DEF Undecided, InState, Alive

LEMMA CompletionStep ==
  ASSUME Inv1, TypeOK', Evolves, Inv2, Inv3, Inv4, NEW t \in Threads, Acts(t), NEW u \in Threads
  PROVE  CompletionOK(u)'
<1> SUFFICES ASSUME pc'[u] = "rdcss_finish", reg'[u].ok,
                    mem'[reg'[u].copy.addr] = reg'[u].tag
             PROVE  Undecided(reg[u].copy.ktag)'
  BY DEF CompletionOK
<1>1. TypeOK /\ u \in DOMAIN pc /\ u \in DOMAIN reg
  BY SMTT(30) DEF Inv1, TypeOK
<1>2. CASE u # t
  <2>1. pc[u] = "rdcss_finish" /\ reg'[u] = reg[u]
    BY Zenon, <1>1, <1>2, OthersKept DEF Acts
  <2>2. /\ reg[u].copy \in Rdcss /\ reg[u].copy.addr \in Addrs /\ RIssued(reg[u].tag)
        /\ reg[u].tag.kind = "rdcss" /\ KIssued(reg[u].copy.ktag)
    <3>1. reg[u].copy \in Rdcss /\ RIssued(reg[u].tag) /\ KIssued(reg[u].copy.ktag)
      BY <2>1 DEF Inv1, ThreadOK, RegOK, RdcssPcs
    <3> QED
      BY SMTT(30), <3>1 DEF Rdcss, RIssued, RdcssTags
  <2>3. PICK a \in Addrs : a = reg[u].copy.addr
    BY SMTT(30), <2>2
  <2>4. mem[a] = reg[u].tag
    <3> SUFFICES ASSUME mem[a] # reg[u].tag PROVE FALSE
      OBVIOUS
    <3>1. mem'[a] = reg[u].tag /\ mem'[a] # mem[a]
      BY SMTT(30), <2>1, <2>3
    <3>2. CASE RdcssInstalls(t, a)
      <4>1. reg[u].tag = RdcssTag(t, rdesc[t].seq) /\ pc[t] = "rdcss"
        BY SMTT(30), <3>1, <3>2 DEF RdcssInstalls, rdcss
      <4> QED
        BY <2>1, <4>1 DEF Inv4, CallOK, FreshOK, ToInstall, RdcssPcs
    <3>3. CASE RdcssCompletes(t, a)
      <4>1. pc[t] = "rdcss_finish"
        BY Zenon, <3>3 DEF RdcssCompletes, rdcssHelp
      <4>2. reg[t].copy.ktag.kind = "kcas"
        BY Zenon, <4>1 DEF Inv1, ThreadOK, RegOK, KIssued, KcasTags
      <4>3. mem'[a] = reg[t].copy.ktag \/ mem'[a] = Val(reg[t].copy.old)
        BY Zenon, <3>3 DEF RdcssCompletes
      <4> QED
        BY <2>2, <3>1, <4>2, <4>3 DEF Val
    <3>4. CASE Unlocks(t, a)
      BY SMTT(30), <2>2, <3>1, <3>4 DEF Unlocks, Val
    <3> QED
      BY SMTT(30), <1>1, <3>1, <3>2, <3>3, <3>4, WordChange
  <2>5. /\ Undecided(reg[u].copy.ktag) /\ isRdcss(mem[a])
        /\ reg[u].copy.ktag = rdesc[mem[a].tid].body.ktag
    BY Zenon, <2>1, <2>3, <2>4, CompletedCopy DEF Inv4, CallOK, CompletionOK
  <2>6. PICK k : k = reg[u].copy.ktag
    OBVIOUS
  <2>7. Undecided(k)'
    BY Zenon, <2>5, <2>6, PendingUndecided
  <2> QED
    BY <2>1, <2>6, <2>7 DEF Undecided, InState, Alive
<1>3. CASE u = t /\ rdcssReadState(t)
  <2>1. PICK b : b = InState(reg[t].copy.ktag, "UNDECIDED")
    OBVIOUS
  <2>2. reg' = [reg EXCEPT ![t].ok = b] /\ kdesc' = kdesc
    BY <1>3, <2>1 DEF rdcssReadState
  <2>3. reg[t] \in Reg
    BY <1>1 DEF TypeOK
  <2>4. reg'[t] = [reg[t] EXCEPT !.ok = b]
    BY <1>1, <1>3, <2>2
  <2>5. reg'[t].ok = b /\ reg'[t].copy = reg[t].copy
    BY <2>3, <2>4 DEF Reg
  <2> QED
    BY Zenon, <1>3, <2>1, <2>2, <2>5 DEF Undecided, InState, Alive
<1>4. CASE u = t /\ ~ rdcssReadState(t)
  <2>1. \A es, i : LoopHead(es, i) # "rdcss_finish"
    BY DEF LoopHead
  <2>2. ~ (start(t) \/ add(t) \/ execute(t) \/ \E a \in ReadsOf[t] : readPtr(t, a))
    BY SMTT(30), <1>1, <1>4 DEF start, add, execute, readPtr, Goto
  <2>3. ~ (rdcssRead(t) \/ rdcssCopy(t) \/ kcasCopy(t) \/ rdcssNew(t)
           \/ rdcssInitialized(t) \/ decide(t))
    BY SMTT(30), <1>1, <1>4 DEF rdcssRead, rdcssCopy, kcasCopy, rdcssNew, rdcssInitialized,
       decide, Goto
  <2>4. ~ (rdcssCheck(t) \/ rdcssHelp(t) \/ rdcss(t))
    BY <1>1, <1>4, <2>1 DEF rdcssCheck, rdcssHelp, rdcss, Retry, NextEntry, Goto
  <2>5. ASSUME NEW b, Return(t, b) PROVE FALSE
    BY <1>1, <1>4, <2>5 DEF Return, Goto
  <2>6. ~ (kcasCheck(t) \/ phase2(t) \/ unlock(t))
    BY Zenon, <1>1, <1>4, <2>5 DEF kcasCheck, phase2, unlock, Goto
  <2>7. ASSUME helpReadState(t) PROVE FALSE
    <3>1. CASE Return(t, FALSE)
      BY Zenon, <2>5, <3>1
    <3>2. CASE Goto(t, LoopHead(Top(t).entries, Top(t).i)) \/ Goto(t, "phase2")
      BY SMTT(30), <1>1, <1>4, <2>1, <3>2 DEF Goto
    <3> QED
      BY Zenon, <2>7, <3>1, <3>2 DEF helpReadState
  <2> QED
    BY Zenon, <1>4, <2>2, <2>3, <2>4, <2>6, <2>7 DEF Acts, Step
<1> QED
  BY <1>2, <1>3, <1>4

(* An RDCSS descriptor that is filled in has a sequence number of its own  *)
(* until it is installed.                                                  *)
LEMMA ToInstallFrom ==
  ASSUME Inv1, TypeOK', Inv2, NEW t \in Threads, Acts(t), NEW v \in Threads, ToInstall(v)'
  PROVE  \/ ToInstall(v) /\ rdesc'[v].seq = rdesc[v].seq
         \/ v = t /\ rdcssInitialized(t)
<1>1. TypeOK /\ ThreadOK(t) /\ DOMAIN pc = Threads /\ DOMAIN depth = Threads
             /\ DOMAIN reg = Threads /\ reg[t] \in Reg
  BY SMTT(30) DEF Inv1, TypeOK
<1>2. CASE v # t
  BY <1>1, <1>2, OthersKept DEF Acts, ToInstall
<1>3. CASE v = t
  <2>1. ToInstall(t)' /\ pc'[t] \in RdcssPcs \cup {"rdcss"}
    BY <1>3 DEF ToInstall
  <2>2. \A es, i : LoopHead(es, i) \notin RdcssPcs \cup {"rdcss"}
    BY DEF LoopHead, RdcssPcs
  <2>3. ~ (start(t) \/ add(t) \/ execute(t) \/ \E a \in ReadsOf[t] : readPtr(t, a))
    BY <1>1, <2>1 DEF start, add, execute, readPtr, Goto, RdcssPcs
  <2>4. ~ (kcasCopy(t) \/ rdcssNew(t) \/ decide(t))
    BY <1>1, <2>1 DEF kcasCopy, rdcssNew, decide, Goto, RdcssPcs
  <2>5. ASSUME NEW b, Return(t, b) PROVE FALSE
    BY <1>1, <2>1, <2>5 DEF Return, Goto, RdcssPcs
  <2>6. ~ (kcasCheck(t) \/ phase2(t))
    BY Zenon, <1>1, <2>1, <2>5 DEF kcasCheck, phase2, Goto, RdcssPcs
  <2>7. ASSUME helpReadState(t) PROVE FALSE
    <3>1. CASE Return(t, FALSE)
      BY Zenon, <2>5, <3>1
    <3>2. CASE Goto(t, LoopHead(Top(t).entries, Top(t).i)) \/ Goto(t, "phase2")
      BY <1>1, <2>1, <2>2, <3>2 DEF Goto, RdcssPcs
    <3> QED
      BY Zenon, <2>7, <3>1, <3>2 DEF helpReadState
  <2>8. ~ unlock(t)
    BY <1>1, <2>1, <2>5 DEF unlock, RdcssPcs
  <2>9. ~ rdcssRead(t)
    BY <1>1, <2>1 DEF rdcssRead, ThreadOK, StackOK, Goto, ToInstall, RdcssPcs
  <2>10. CASE rdcssInitialized(t)
    BY <1>3, <2>10
  <2>11. CASE rdcssCopy(t) \/ rdcssReadState(t)
    <3>1. /\ pc[t] \in RdcssPcs /\ depth' = depth /\ rdesc' = rdesc /\ pc'[t] # "rdcss"
          /\ (\E c : reg' = [reg EXCEPT ![t].copy = c]) \/ (\E b : reg' = [reg EXCEPT ![t].ok = b])
      BY <1>1, <2>11 DEF rdcssCopy, rdcssReadState, Goto, RdcssPcs
    <3>2. reg'[t].helping = reg[t].helping
      BY <1>1, <3>1 DEF Reg
    <3> QED
      BY <1>3, <2>1, <3>1, <3>2 DEF ToInstall
  <2>12. CASE rdcssCheck(t)
    <3>1. pc[t] \in RdcssPcs /\ depth' = depth /\ rdesc' = rdesc /\ reg[t].helping
      BY Zenon, <1>1, <2>12 DEF rdcssCheck, ThreadOK, RegOK, RdcssPcs
    <3>2. depth[t] > 0
      <4>1. CASE pc'[t] = "rdcss"
        BY SMTT(30), <1>1, <2>12, <4>1 DEF rdcssCheck, Retry, Goto
      <4>2. CASE pc'[t] # "rdcss"
        BY <2>1, <3>1, <4>2 DEF ToInstall
      <4> QED
        BY SMTT(30), <4>1, <4>2
    <3> QED
      BY <1>3, <3>1, <3>2 DEF ToInstall
  <2>13. CASE rdcssHelp(t)
    <3>1. pc[t] = "rdcss_finish" /\ rdesc' = rdesc /\ reg[t].helping /\ Retry(t)
      <4>1. ~ NextEntry(t)
        BY SMTT(30), <1>1, <2>1, <2>2 DEF NextEntry, Goto
      <4> QED
        BY <2>13, <4>1 DEF rdcssHelp
    <3>2. depth[t] > 0
      BY <1>1, <2>1, <3>1 DEF Retry, Goto, RdcssPcs
    <3> QED
      BY SMTT(30), <1>3, <3>1, <3>2 DEF ToInstall, RdcssPcs
  <2>14. CASE rdcss(t)
    BY <1>3, <2>14 DEF rdcss, ToInstall
  <2> QED
    BY Zenon, <2>3, <2>4, <2>6, <2>7, <2>8, <2>9, <2>10, <2>11, <2>12, <2>13, <2>14
       DEF Acts, Step
<1> QED
  BY SMTT(30), <1>2, <1>3

(* Where the tag comes from that a thread helps in rdcssHelp: it had it    *)
(* already, found it in a word, or put it there.                           *)
LEMMA RdcssTagFrom ==
  ASSUME Inv1, TypeOK', Inv2, NEW t \in Threads, Acts(t), pc'[t] \in RdcssPcs
  PROVE  \/ pc[t] \in RdcssPcs /\ reg'[t].tag = reg[t].tag
         \/ \E a \in Addrs : isRdcss(mem[a]) /\ reg'[t].tag = mem[a]
         \/ reg'[t].tag.tid = t /\ ~ ToInstall(t)'
<1>1. TypeOK /\ ThreadOK(t) /\ DOMAIN pc = Threads /\ DOMAIN reg = Threads /\ reg[t] \in Reg
  BY DEF Inv1, TypeOK
<1>2. \A es, i : LoopHead(es, i) \notin RdcssPcs
  BY DEF LoopHead, RdcssPcs
<1>3. ~ (start(t) \/ add(t) \/ execute(t) \/ \E a \in ReadsOf[t] : readPtr(t, a))
  BY <1>1 DEF start, add, execute, readPtr, Goto, RdcssPcs
<1>4. ~ (kcasCopy(t) \/ rdcssNew(t) \/ rdcssInitialized(t) \/ decide(t))
  BY <1>1 DEF kcasCopy, rdcssNew, rdcssInitialized, decide, Goto, RdcssPcs
<1>5. ASSUME NEW b, Return(t, b) PROVE FALSE
  BY <1>1, <1>5 DEF Return, Goto, RdcssPcs
<1>6. ~ (kcasCheck(t) \/ phase2(t))
  BY Zenon, <1>1, <1>5 DEF kcasCheck, phase2, Goto, RdcssPcs
<1>7. ASSUME helpReadState(t) PROVE FALSE
  <2>1. CASE Return(t, FALSE)
    BY Zenon, <1>5, <2>1
  <2>2. CASE Goto(t, LoopHead(Top(t).entries, Top(t).i)) \/ Goto(t, "phase2")
    BY <1>1, <1>2, <2>2 DEF Goto, RdcssPcs
  <2> QED
    BY Zenon, <1>7, <2>1, <2>2 DEF helpReadState
<1>8. ~ unlock(t)
  BY <1>1, <1>5 DEF unlock, RdcssPcs
<1>9. CASE rdcssRead(t)
  <2>1. reg[t].addr \in Addrs
    BY <1>1, <1>9 DEF rdcssRead, ThreadOK, StackOK
  <2>2. /\ isRdcss(mem[reg[t].addr])
        /\ reg' = [reg EXCEPT ![t].tag = mem[reg[t].addr], ![t].helping = TRUE]
    BY <1>1, <1>9 DEF rdcssRead, Goto, RdcssPcs
  <2>3. reg'[t].tag = mem[reg[t].addr]
    BY <1>1, <2>2 DEF Reg
  <2> QED
    BY Zenon, <2>1, <2>2, <2>3
<1>10. CASE rdcssCopy(t) \/ rdcssReadState(t)
  <2>1. /\ pc[t] \in RdcssPcs
        /\ (\E c : reg' = [reg EXCEPT ![t].copy = c]) \/ (\E b : reg' = [reg EXCEPT ![t].ok = b])
    BY SMTT(30), <1>10 DEF rdcssCopy, rdcssReadState, RdcssPcs
  <2> QED
    BY <1>1, <2>1 DEF Reg
<1>11. CASE rdcssCheck(t)
  <2>1. ~ Retry(t)
    BY <1>1 DEF Retry, Goto, RdcssPcs
  <2> QED
    BY <1>11, <2>1 DEF rdcssCheck, RdcssPcs
<1>12. ~ rdcssHelp(t)
  BY <1>1, <1>2 DEF rdcssHelp, Retry, NextEntry, Goto, RdcssPcs
<1>13. CASE rdcss(t)
  <2>1. ~ NextEntry(t)
    BY <1>1, <1>2 DEF NextEntry, Goto
  <2>2. CurrentEntry(t).addr \in Addrs
    BY <1>1, <1>13, AtCurrentEntry DEF rdcss, ThreadOK, StackOK, HelpPcs, EntryPcs
  <2>3. CASE /\ isRdcss(mem[CurrentEntry(t).addr])
             /\ reg' = [reg EXCEPT ![t].tag = mem[CurrentEntry(t).addr], ![t].helping = TRUE]
    <3>1. reg'[t].tag = mem[CurrentEntry(t).addr]
      BY SMTT(30), <1>1, <2>3 DEF Reg
    <3> QED
      BY Zenon, <2>2, <2>3, <3>1
  <2>4. CASE /\ reg' = [reg EXCEPT ![t].tag = RdcssTag(t, rdesc[t].seq),
                                   ![t].copy = rdesc[t].body]
             /\ Goto(t, "rdcss_state")
    <3>1. ~ reg[t].helping
      BY <1>13 DEF rdcss, Inv2, NotHelping, RdcssPcs
    <3>2. reg'[t].tag = RdcssTag(t, rdesc[t].seq) /\ reg'[t].helping = reg[t].helping
      BY <1>1, <2>4 DEF Reg
    <3>3. pc'[t] = "rdcss_state"
      BY <1>1, <2>4 DEF Goto
    <3> QED
      BY <3>1, <3>2, <3>3 DEF ToInstall, RdcssTag
  <2>5. pc'[t] \notin {"copy_kcas", "decide"}
    BY SMTT(30) DEF RdcssPcs
  <2> QED
    BY <1>1, <1>13, <2>1, <2>3, <2>4, <2>5 DEF rdcss, Goto
<1> QED
  BY Zenon, <1>3, <1>4, <1>6, <1>7, <1>8, <1>9, <1>10, <1>11, <1>12, <1>13 DEF Acts, Step

LEMMA FreshStep ==
  ASSUME Inv1, TypeOK', Evolves, Inv2, Inv3, Inv4, NEW t \in Threads, Acts(t), NEW v \in Threads
  PROVE  FreshOK(v)'
<1> SUFFICES ASSUME ToInstall(v)', NEW u \in Threads, pc'[u] \in RdcssPcs,
                    reg'[u].tag = RdcssTag(v, rdesc'[v].seq)
             PROVE  FALSE
  BY DEF FreshOK
<1>1. TypeOK
  BY DEF Inv1
<1>2. PICK r : r = reg'[u].tag /\ r = RdcssTag(v, rdesc'[v].seq) /\ r.tid = v
                 /\ r.seq = rdesc'[v].seq
  BY DEF RdcssTag
<1>3. \/ pc[u] \in RdcssPcs /\ r = reg[u].tag
      \/ \E a \in Addrs : isRdcss(mem[a]) /\ r = mem[a]
  <2>1. CASE u # t
    BY Zenon, <1>1, <1>2, <2>1, OthersKept DEF Acts
  <2>2. CASE u = t
    BY Zenon, <1>2, <2>2, RdcssTagFrom
  <2> QED
    BY Zenon, <2>1, <2>2
<1>4. RIssued(r)
  BY Zenon, <1>3 DEF Inv1, WordsOK, ThreadOK, RegOK
<1>5. CASE v = t /\ rdcssInitialized(t)
  <2>1. rdesc'[t].seq = rdesc[t].seq + 1 /\ rdesc[t].seq \in Nat
    BY Zenon, <1>1, <1>5, RdescType DEF rdcssInitialized, TypeOK
  <2> QED
    BY <1>2, <1>4, <1>5, <2>1 DEF RIssued
<1>6. CASE ToInstall(v) /\ rdesc'[v].seq = rdesc[v].seq
  <2>1. r # reg[u].tag \/ pc[u] \notin RdcssPcs
    BY Zenon, <1>2, <1>6 DEF Inv4, CallOK, FreshOK
  <2>2. PICK a \in Addrs : isRdcss(mem[a]) /\ r = mem[a]
    BY SMTT(30), <1>3, <2>1
  <2>3. Finishing(v)
    BY SMTT(30), <1>2, <2>2 DEF Inv2, RdcssTagsLive
  <2> QED
    BY Zenon, <1>6, <2>3 DEF Finishing, ToInstall
<1> QED
  BY <1>5, <1>6, ToInstallFrom

(* A verdict of failure stands: the word that differs either only grows,   *)
(* or its version word, which comes before it, is locked.                  *)
LEMMA MismatchStays ==
  ASSUME Inv1, TypeOK', Evolves, Inv2, Inv3, Inv4, NEW t \in Threads, Acts(t),
         NEW f \in Frame, CopyOK(f), LockOK(f, "decide"), f.i \in DOMAIN f.entries,
         Undecided(f.tag), Logical(f.entries[f.i].addr) # f.entries[f.i].old
  PROVE  Logical(f.entries[f.i].addr)' # f.entries[f.i].old
<1>1. PICK k : k = f.tag /\ KIssued(k) /\ Alive(k)
  BY SMTT(30) DEF CopyOK, Undecided, InState
<1>2. k.tid \in Threads /\ Published(k.tid) /\ kdesc[k.tid].entries \in Seq(Entry)
  BY <1>1, LiveTag
<1>3. PICK es \in Seq(Entry) : /\ es = f.entries /\ es = kdesc[k.tid].entries
                               /\ IsSorted(es) /\ FollowsDiscipline(es)
  BY Zenon, <1>1, <1>2 DEF CopyOK, Inv4, CallOK, RequestOK
<1>4. PICK i \in DOMAIN es : i = f.i /\ i \in Nat
  BY <1>3
<1>5. PICK a \in Addrs : /\ a = es[i].addr /\ es[i].old \in Int /\ a \in Nat
                         /\ Guard[a] \in Addrs /\ Guard[a] <= a /\ Guard[a] \in Nat
  BY Zenon, EntryAt, ConstantsAssumption
<1>6. Logical(a) # es[i].old
  BY Zenon, <1>3, <1>4, <1>5
<1>7. CASE Logical(a)' = Logical(a)
  BY Zenon, <1>3, <1>4, <1>5, <1>6, <1>7 DEF Logical
<1>8. CASE Guard[a] = a
  <2>1. es[i].old <= Logical(a)
    BY Zenon, <1>3, <1>5, <1>8 DEF FollowsDiscipline
  <2>2. Logical(a) \in Int /\ Logical(a)' \in Int /\ Logical(a) <= Logical(a)'
    BY SMTT(30), <1>8, VersionsGrow
  <2>3. Logical(a)' # es[i].old
    BY SMTT(30), <1>5, <1>6, <2>1, <2>2
  <2> QED
    BY Zenon, <1>3, <1>4, <1>5, <2>3
<1>9. CASE Guard[a] # a /\ Effect(t, a)
  <2>1. PICK l \in KcasTags, ls \in Seq(Entry) :
           /\ l = Top(t).tag /\ KIssued(l) /\ Undecided(l) /\ ls = kdesc[l.tid].entries
           /\ IsSorted(ls) /\ FollowsDiscipline(ls)
           /\ \A n \in DOMAIN ls : mem[ls[n].addr] = l
           /\ \E n \in DOMAIN ls : /\ ls[n].addr = a
                                   /\ Logical(a) = ls[n].old /\ Logical(a)' = ls[n].new
    BY Zenon, <1>9, EffectOf
  <2>2. PICK n \in DOMAIN ls : ls[n].addr = a /\ Logical(a) = ls[n].old
    BY Zenon, <2>1
  <2>3. mem[Guard[a]] = l
    <3>1. \E m \in DOMAIN ls : ls[m].addr = Guard[a]
      BY Zenon, <1>9, <2>1, <2>2 DEF FollowsDiscipline
    <3> QED
      BY Zenon, <2>1, <3>1
  <2>4. mem[Guard[a]] = k
    <3>1. PICK j \in DOMAIN es : es[j].addr = Guard[a]
      BY Zenon, <1>3, <1>5, <1>9 DEF FollowsDiscipline
    <3>2. j <= i /\ j # i /\ j \in Nat /\ j >= 1
      <4>1. es[j].addr <= es[i].addr /\ j # i
        BY <1>5, <1>9, <3>1
      <4>2. j <= i
        BY Zenon, <1>3, <4>1, SortedDistinct
      <4>3. j \in Nat /\ j >= 1
        OBVIOUS
      <4> QED
        BY SMTT(30), <4>1, <4>2, <4>3
    <3>3. j \in 1..(f.i - 1)
      BY SMTT(30), <1>4, <3>2
    <3>4. \A m \in 1..(f.i - 1) : mem[f.entries[m].addr] = f.tag
      BY DEF LockOK
    <3> QED
      BY Zenon, <1>1, <1>3, <3>1, <3>3, <3>4
  <2>5. ls = es /\ l = k
    BY Zenon, <1>3, <2>1, <2>3, <2>4
  <2>6. n = i
    <3>1. n \in Nat /\ n <= i /\ i <= n
      <4>1. es[n].addr <= es[i].addr /\ es[i].addr <= es[n].addr /\ n \in DOMAIN es
        BY <1>5, <2>2, <2>5
      <4>2. n <= i /\ i <= n
        BY Zenon, <1>3, <4>1, SortedDistinct
      <4> QED
        BY SMTT(30), <4>1, <4>2
    <3> QED
      BY <1>4, <3>1
  <2> QED
    BY <1>6, <2>2, <2>5, <2>6
<1> QED
  BY SMTT(30), <1>7, <1>8, <1>9, LogicalStep

LEMMA MismatchStep ==
  ASSUME Inv1, TypeOK', Evolves, Inv2, Inv3, Inv4, NEW t \in Threads, Acts(t), NEW u \in Threads
  PROVE  MismatchOK(u)'
<1> SUFFICES ASSUME pc'[u] = "decide", Top(u)'.state = "FAILED", Undecided(Top(u).tag)'
             PROVE  Logical(CurrentEntry(u).addr)' # CurrentEntry(u)'.old
  BY DEF MismatchOK
<1>1. TypeOK /\ DOMAIN pc = Threads /\ ThreadOK(t)
  BY DEF Inv1, TypeOK
<1>2. CASE u # t
  <2>1. Top(u)' = Top(u) /\ pc[u] = "decide"
    BY Zenon, <1>1, <1>2, OthersKept DEF Acts, Top
  <2>2. PICK f \in Frame : /\ f = Top(u) /\ CopyOK(f) /\ KIssued(f.tag) /\ LockOK(f, "decide")
                           /\ f.seq = f.tag.seq /\ f.i >= 1
    BY SMTT(30), <2>1, DecidingFrame
  <2>3. f.state = "FAILED" /\ f.i \in DOMAIN f.entries
    <3>1. f.state = "FAILED" /\ f.i <= Len(f.entries)
      BY <2>1, <2>2 DEF LockOK
    <3>2. f.i \in Nat /\ f.entries \in Seq(Entry)
      BY SMTT(30) DEF Frame
    <3> QED
      BY SMTT(30), <2>2, <3>1, <3>2
  <2>4. Undecided(f.tag)'
    BY SMTT(30), <2>1, <2>2 DEF Undecided, InState, Alive
  <2>5. Undecided(f.tag)
    BY <1>1, <2>2, <2>4, UndecidedBefore
  <2>6. Logical(f.entries[f.i].addr) # f.entries[f.i].old
    BY Zenon, <2>1, <2>2, <2>3, <2>5 DEF Inv4, CallOK, MismatchOK, CurrentEntry
  <2>7. Logical(f.entries[f.i].addr)' # f.entries[f.i].old
    BY Zenon, <2>2, <2>3, <2>5, <2>6, MismatchStays
  <2> QED
    BY Zenon, <2>1, <2>2, <2>7 DEF CurrentEntry, Logical, KcasValue
<1>3. CASE u = t
  <2>1. ~ (start(t) \/ add(t) \/ execute(t) \/ \E a \in ReadsOf[t] : readPtr(t, a))
    BY SMTT(30), <1>1, <1>3 DEF start, add, execute, readPtr, Goto
  <2>2. ~ (rdcssRead(t) \/ rdcssCopy(t) \/ rdcssReadState(t) \/ kcasCopy(t) \/ rdcssNew(t)
           \/ rdcssInitialized(t) \/ decide(t))
    BY <1>1, <1>3 DEF rdcssRead, rdcssCopy, rdcssReadState, kcasCopy, rdcssNew,
       rdcssInitialized, decide, Goto
  <2>3. ASSUME NEW b, Return(t, b) PROVE FALSE
    BY <1>1, <1>3, <2>3 DEF Return, Goto
  <2>4. ~ (kcasCheck(t) \/ phase2(t) \/ unlock(t) \/ rdcssCheck(t))
    BY Zenon, <1>1, <1>3, <2>3 DEF kcasCheck, phase2, unlock, rdcssCheck, Retry, Goto
  <2>5. ASSUME helpReadState(t) PROVE FALSE
    <3>1. /\ frame' = [frame EXCEPT ![t][depth[t]].state = "SUCCEEDED"] /\ depth' = depth
          /\ pc[t] = "help"
      <4>1. ~ Goto(t, "phase2")
        BY <1>1, <1>3 DEF Goto
      <4> QED
        BY Zenon, <2>3, <2>5, <4>1 DEF helpReadState
    <3>2. Top(t) \in Frame /\ depth[t] \in 1..MaxDepth
      BY <1>1, <3>1, TopFrame DEF ThreadOK, StackOK, HelpPcs
    <3>3. Top(t)' = [Top(t) EXCEPT !.state = "SUCCEEDED"]
      BY <1>1, <3>1, <3>2 DEF Top, TypeOK
    <3>4. Top(t)'.state = "SUCCEEDED"
      BY <3>2, <3>3 DEF Frame
    <3> QED
      BY <1>3, <3>4
  <2>6. ASSUME NextEntry(t), depth' = depth, depth[t] > 0, pc[t] \in {"rdcss", "rdcss_finish"}
        PROVE  FALSE
    <3>1. Top(t) \in Frame /\ depth[t] \in 1..MaxDepth
      BY SMTT(30), <1>1, <2>6, TopFrame
    <3>2. Top(t)' = [Top(t) EXCEPT !.i = @ + 1]
      BY <1>1, <2>6, <3>1 DEF NextEntry, Top, TypeOK
    <3>3. Top(t)'.state = Top(t).state
      BY SMTT(30), <3>1, <3>2 DEF Frame
    <3>4. Top(t).state = "SUCCEEDED"
      BY SMTT(30), <2>6, TopAtEntry DEF LockOK
    <3> QED
      BY SMTT(30), <1>3, <3>3, <3>4
  <2>7. ASSUME rdcssHelp(t) PROVE FALSE
    <3>1. ~ Retry(t)
      BY <1>1, <1>3 DEF Retry, Goto
    <3>2. ~ reg[t].helping /\ NextEntry(t) /\ depth' = depth /\ pc[t] = "rdcss_finish"
      BY Zenon, <2>7, <3>1 DEF rdcssHelp
    <3>3. depth[t] > 0
      BY Zenon, <1>1, <3>2 DEF ThreadOK, RegOK, Finishing
    <3> QED
      BY <2>6, <3>2, <3>3
  <2>8. CASE rdcss(t)
    <3>1. pc[t] = "rdcss" /\ depth[t] > 0 /\ depth' = depth /\ kdesc' = kdesc /\ rdesc' = rdesc
      BY SMTT(30), <1>1, <2>8 DEF rdcss, ThreadOK, StackOK, HelpPcs
    <3>2. ~ NextEntry(t)
      BY <2>6, <3>1
    <3>3. ~ (Goto(t, "rdcss_state") \/ Goto(t, "copy_rdcss") \/ Goto(t, "copy_kcas"))
      BY <1>1, <1>3 DEF Goto
    <3>4. PICK e : e = CurrentEntry(t)
      OBVIOUS
    <3>5. /\ ~ isRdcss(mem[e.addr]) /\ ~ isKcas(mem[e.addr]) /\ mem[e.addr] # Val(e.old)
          /\ frame' = [frame EXCEPT ![t][depth[t]].state = "FAILED"] /\ mem' = mem
      BY Zenon, <2>8, <3>2, <3>3, <3>4 DEF rdcss
    <3>6. Top(t) \in Frame /\ depth[t] \in 1..MaxDepth
      BY SMTT(30), <1>1, <3>1, TopFrame
    <3>7. Top(t)' = [Top(t) EXCEPT !.state = "FAILED"]
      BY <1>1, <3>1, <3>5, <3>6 DEF Top, TypeOK
    <3>8. CurrentEntry(t)' = e
      BY SMTT(30), <3>4, <3>6, <3>7 DEF CurrentEntry, Frame
    <3>9. e.addr \in Addrs
      BY <3>1, <3>4, AtCurrentEntry DEF EntryPcs
    <3>10. PICK v : mem[e.addr] = Val(v)
      BY Zenon, <1>1, <3>5, <3>9 DEF TypeOK, Word, Plain, KcasTags, RdcssTags, isRdcss, isKcas, Val
    <3>11. v # e.old /\ mem'[e.addr] = Val(v)
      BY SMTT(30), <3>5, <3>10
    <3>12. Logical(e.addr)' # e.old
      BY <3>11, LogicalValNext
    <3> QED
      BY Zenon, <1>3, <3>8, <3>12 DEF Logical, KcasValue
  <2> QED
    BY Zenon, <2>1, <2>2, <2>4, <2>5, <2>7, <2>8 DEF Acts, Step
<1> QED
  BY <1>2, <1>3

-----------------------------------------------------------------------------
LEMMA Inv4Init == Init => Inv4
<1> SUFFICES ASSUME Init PROVE Inv4
  OBVIOUS
<1>1. \A a \in Addrs : mem[a].kind = "val"
  BY DEF Init, Plain
<1>2. \A t \in Threads : pc[t] = "idle" /\ kdesc[t].seq = 1
  BY Zenon DEF Init
<1>3. TagsLive
  BY Zenon, <1>1 DEF TagsLive, isKcas
<1>4. ASSUME NEW t \in Threads PROVE CallOK(t)
  <2>1. ~ Published(t) /\ ~ Executing(t)
    BY <1>2 DEF Published, Executing
  <2>2. pc[t] = "idle" /\ ~ ToInstall(t)
    BY <1>2 DEF ToInstall, RdcssPcs
  <2> QED
    BY Zenon, <2>1, <2>2 DEF CallOK, RequestOK, OwnerOK, ReleaseOK, CompletionOK, FreshOK, MismatchOK
<1> QED
  BY <1>3, <1>4 DEF Inv4

LEMMA Inv4Kept == Inv4 /\ UNCHANGED vars => Inv4'
<1> SUFFICES ASSUME Inv4, UNCHANGED vars PROVE Inv4'
  OBVIOUS
<1> USE DEF vars
<1>1. TagsLive'
  BY Zenon DEF Inv4, TagsLive, Alive, Executing, IsReading
<1>2. ASSUME NEW a PROVE Logical(a)' = Logical(a)
  BY DEF Logical, KcasValue
<1>3. ASSUME NEW t \in Threads PROVE CallOK(t)'
  <2>1. CallOK(t)
    BY DEF Inv4
  <2>2. RequestOK(t)'
    BY Zenon, <1>2, <2>1 DEF CallOK, RequestOK, Published, FollowsDiscipline
  <2>3. OwnerOK(t)'
    BY Zenon, <2>1 DEF CallOK, OwnerOK, Published, Executing, IsReading
  <2>4. ReleaseOK(t)'
    BY Zenon, <2>1 DEF CallOK, ReleaseOK, Alive, Top
  <2>5. CompletionOK(t)'
    BY Zenon, <2>1 DEF CallOK, CompletionOK, Undecided, InState, Alive
  <2>6. FreshOK(t)'
    BY Zenon, <2>1 DEF CallOK, FreshOK, ToInstall
  <2>7. MismatchOK(t)'
    BY Zenon, <1>2, <2>1 DEF CallOK, MismatchOK, CurrentEntry, Top, Undecided, InState, Alive
  <2> QED
    BY <2>2, <2>3, <2>4, <2>5, <2>6, <2>7 DEF CallOK
<1> QED
  BY <1>1, <1>3 DEF Inv4

(* The sorted request follows the discipline as the one that was built.    *)
SortingIsFair ==
  \A us \in Seq(Entry) : FollowsDiscipline(us) =>
    \A es \in SortedEntries(us) : FollowsDiscipline(es)

LEMMA RequestStep ==
  ASSUME Disciplined, SortingIsFair, Inv1, TypeOK', Evolves, Inv2, Inv3, Inv4,
         NEW t \in Threads, Acts(t), NEW u \in Threads
  PROVE  RequestOK(u)'
<1> SUFFICES ASSUME Published(u)'
             PROVE  IsSorted(kdesc'[u].entries) /\ FollowsDiscipline(kdesc[u].entries)'
  BY DEF RequestOK
<1> SUFFICES \E es \in Seq(Entry) : /\ es = kdesc'[u].entries
                                    /\ IsSorted(es) /\ FollowsDiscipline(es)
  <2>1. PICK es \in Seq(Entry) : es = kdesc'[u].entries /\ IsSorted(es) /\ FollowsDiscipline(es)
    OBVIOUS
  <2>2. FollowsDiscipline(es)'
    BY <2>1, DisciplineStays
  <2> QED
    BY Zenon, <2>1, <2>2 DEF FollowsDiscipline
<1>1. CASE kdesc'[u].seq = kdesc[u].seq
  <2>1. Published(u) /\ kdesc'[u].entries = kdesc[u].entries
    BY <1>1 DEF Evolves, Published
  <2> QED
    BY <2>1, PublishedLive DEF Inv4, CallOK, RequestOK
<1>2. CASE kdesc'[u].seq # kdesc[u].seq
  <2>1. u = t /\ execute(t)
    BY <1>2, NewLife DEF Published, start
  <2>2. PICK es \in SortedEntries(kdesc[t].entries) :
          kdesc'[t].entries = es /\ es \in Seq(Entry) /\ kdesc[t].entries \in Seq(Entry)
    BY <2>1, Executes
  <2>3. IsSorted(es)
    BY <2>2 DEF SortedEntries
  <2>4. FollowsDiscipline(kdesc[t].entries)
    BY <2>1 DEF execute
  <2>5. FollowsDiscipline(es)
    BY <2>2, <2>4 DEF SortingIsFair
  <2> QED
    BY <2>1, <2>2, <2>3, <2>5
<1> QED
  BY <1>1, <1>2


LEMMA Inv4Step ==
  ASSUME Disciplined, SortingIsFair, Inv1, TypeOK', Evolves, Inv2, Inv3, Inv4, [Next]_vars
  PROVE  Inv4'
<1>1. ASSUME NEW t \in Threads, Acts(t) PROVE Inv4'
  <2>1. TagsLive'
    BY <1>1, TagsStep
  <2>2. ASSUME NEW u \in Threads PROVE CallOK(u)'
    <3>1. RequestOK(u)'
      BY <1>1, RequestStep
    <3>2. OwnerOK(u)' /\ ReleaseOK(u)'
      BY <1>1, OwnerStep, ReleaseStep
    <3>3. CompletionOK(u)' /\ FreshOK(u)' /\ MismatchOK(u)'
      BY <1>1, CompletionStep, FreshStep, MismatchStep
    <3> QED
      BY <3>1, <3>2, <3>3 DEF CallOK
  <2> QED
    BY <2>1, <2>2 DEF Inv4
<1> QED
  BY <1>1, Inv4Kept, ActsOrNot
=============================================================================
