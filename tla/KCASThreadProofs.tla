-------------------------- MODULE KCASThreadProofs --------------------------
(***************************************************************************)
(* A step of KCAS keeps what Inv1 says of the thread that takes it, of the *)
(* other threads and of the words.                                         *)
(***************************************************************************)
EXTENDS KCASInvariants

-----------------------------------------------------------------------------
(* What a step leaves alone stays right.                                   *)

LEMMA FrameKept ==
  ASSUME TypeOK, TypeOK', Evolves, NEW t \in Threads, NEW d \in 1..MaxDepth,
         FrameOK(t, d), frame'[t][d] = frame[t][d], reg'[t].addr = reg[t].addr,
         d < depth'[t] \/ pc'[t] # "check_kcas" => d < depth[t] \/ pc[t] # "check_kcas",
         d < depth'[t] \/ pc'[t] \in EntryPcs => d < depth[t] \/ pc[t] \in EntryPcs
  PROVE  FrameOK(t, d)'
<1>1. frame[t][d] \in Frame
  BY FrameType
<1>2. CopyOK(frame[t][d])'
  <2>1. CopyOK(frame[t][d])
    BY DEF FrameOK
  <2> DEFINE f == frame[t][d]
  <2>2. f' = f
    OBVIOUS
  <2> QED
    BY Zenon, <1>1, <2>1, <2>2, CopyOKStays DEF CopyOK, KIssued, Alive
<1> QED
  BY <1>2 DEF FrameOK, Checked, AtEntry

LEMMA RegKept ==
  ASSUME TypeOK, TypeOK', Evolves, NEW t \in Threads, RegOK(t), reg'[t] = reg[t],
         pc'[t] = pc[t], rdesc'[t] = rdesc[t], depth'[t] = depth[t]
  PROVE  RegOK(t)'
<1>1. pc[t] = "copy_kcas" => KIssued(reg[t].tag)'
  <2> SUFFICES ASSUME pc[t] = "copy_kcas" PROVE KIssued(reg[t].tag)'
    OBVIOUS
  <2>1. KIssued(reg[t].tag)
    BY DEF RegOK
  <2> QED
    BY <2>1, KIssuedStays DEF KIssued
<1>2. pc[t] \in RdcssPcs => RIssued(reg[t].tag)'
  <2> SUFFICES ASSUME pc[t] \in RdcssPcs PROVE RIssued(reg[t].tag)'
    OBVIOUS
  <2>1. RIssued(reg[t].tag)
    BY DEF RegOK
  <2> QED
    BY <2>1, RIssuedStays DEF RIssued
<1>3. pc[t] \in {"rdcss_state", "rdcss_finish"} =>
        reg[t].copy \in Rdcss /\ KIssued(reg[t].copy.ktag)'
  <2> SUFFICES ASSUME pc[t] \in {"rdcss_state", "rdcss_finish"}
               PROVE  reg[t].copy \in Rdcss /\ KIssued(reg[t].copy.ktag)'
    OBVIOUS
  <2>1. reg[t].copy \in Rdcss /\ KIssued(reg[t].copy.ktag)
    BY DEF RegOK
  <2> QED
    BY Zenon, <2>1, KIssuedStays DEF KIssued
<1>4. ASSUME pc[t] \in {"check_rdcss", "rdcss_state", "rdcss_finish"},
             reg[t].tag.seq = rdesc'[reg[t].tag.tid].seq
      PROVE  reg[t].copy = rdesc'[reg[t].tag.tid].body
  <2>1. RIssued(reg[t].tag)
    BY <1>4 DEF RegOK, RdcssPcs
  <2>2. reg[t].tag.tid \in Threads
    BY <2>1 DEF RIssued, RdcssTags
  <2>3. rdesc[reg[t].tag.tid].seq \in Nat /\ rdesc'[reg[t].tag.tid].seq \in Nat
    BY <2>2 DEF TypeOK, RdcssDesc
  <2>4. reg[t].tag.seq <= rdesc[reg[t].tag.tid].seq
    BY <2>1 DEF RIssued
  <2>5. rdesc[reg[t].tag.tid].seq <= rdesc'[reg[t].tag.tid].seq
    BY <2>2 DEF Evolves
  <2>6. rdesc[reg[t].tag.tid].seq = reg[t].tag.seq
    BY <1>4, <2>3, <2>4, <2>5
  <2> QED
    BY <1>4, <2>2, <2>6 DEF RegOK, Evolves
<1> QED
  BY Zenon, <1>1, <1>2, <1>3, <1>4 DEF RegOK, Finishing, KIssued, RIssued

LEMMA DescKept ==
  ASSUME TypeOK, TypeOK', Evolves, NEW t \in Threads, DescOK(t),
         kdesc'[t].seq = kdesc[t].seq, kdesc'[t].entries = kdesc[t].entries,
         rdesc'[t] = rdesc[t], t \in building' <=> t \in building,
         pc[t] # "fill", pc'[t] # "fill",
         pc'[t] # "rdcss" /\ ~ (pc'[t] \in RdcssPcs /\ depth'[t] > 0)
  PROVE  DescOK(t)'
<1>1. rdesc[t].seq > 2 => KIssued(rdesc[t].body.ktag)'
  <2> SUFFICES ASSUME rdesc[t].seq > 2 PROVE KIssued(rdesc[t].body.ktag)'
    OBVIOUS
  <2>1. KIssued(rdesc[t].body.ktag)
    BY SMTT(30) DEF DescOK
  <2> QED
    BY Zenon, <2>1, KIssuedStays DEF KIssued
<1> QED
  BY Zenon, <1>1 DEF DescOK, KIssued

LEMMA DescRdcssKept ==
  ASSUME TypeOK, TypeOK', Evolves, NEW t \in Threads, DescOK(t),
         kdesc'[t].seq = kdesc[t].seq, kdesc'[t].entries = kdesc[t].entries,
         rdesc'[t] = rdesc[t], depth'[t] = depth[t], frame'[t] = frame[t],
         t \in building' <=> t \in building,
         pc'[t] = "fill" <=> pc[t] = "fill",
         pc'[t] = "rdcss" \/ (pc'[t] \in RdcssPcs /\ depth[t] > 0)
           => pc[t] = "rdcss" \/ (pc[t] \in RdcssPcs /\ depth[t] > 0)
  PROVE  DescOK(t)'
<1>1. rdesc[t].seq > 2 => KIssued(rdesc[t].body.ktag)'
  <2> SUFFICES ASSUME rdesc[t].seq > 2 PROVE KIssued(rdesc[t].body.ktag)'
    OBVIOUS
  <2>1. KIssued(rdesc[t].body.ktag)
    BY Zenon DEF DescOK
  <2> QED
    BY Zenon, <2>1, KIssuedStays DEF KIssued
<1>2. RdcssFor(t)' = RdcssFor(t)
  BY DEF RdcssFor, Top, CurrentEntry
<1> QED
  BY SMTT(30), <1>1, <1>2 DEF DescOK, KIssued

LEMMA ThreadKept ==
  ASSUME Inv1, TypeOK', Evolves, NEW u \in Threads, pc'[u] = pc[u],
         depth'[u] = depth[u], frame'[u] = frame[u], reg'[u] = reg[u],
         rdesc'[u] = rdesc[u], kdesc'[u].seq = kdesc[u].seq,
         kdesc'[u].entries = kdesc[u].entries, u \in building' <=> u \in building
  PROVE  ThreadOK(u)'
<1>1. TypeOK /\ ThreadOK(u)
  BY DEF Inv1
<1>2. StackOK(u)'
  BY <1>1 DEF ThreadOK, StackOK
<1>3. RegOK(u)'
  BY <1>1, RegKept DEF ThreadOK
<1>4. DescOK(u)'
  BY <1>1, DescRdcssKept DEF ThreadOK
<1>5. ASSUME NEW d \in 1..depth'[u] PROVE FrameOK(u, d)'
  <2>1. d \in 1..depth[u] /\ d \in 1..MaxDepth
    BY <1>1, DepthType
  <2> QED
    BY <1>1, <2>1, FrameKept DEF ThreadOK
<1> QED
  BY <1>2, <1>3, <1>4, <1>5 DEF ThreadOK

LEMMA FramesKept ==
  ASSUME Inv1, TypeOK', Evolves, NEW t \in Threads,
         frame'[t] = frame[t], depth'[t] = depth[t], reg'[t].addr = reg[t].addr,
         depth[t] > 0 /\ pc'[t] # "check_kcas" => pc[t] # "check_kcas",
         depth[t] > 0 /\ pc'[t] \in EntryPcs => pc[t] \in EntryPcs
  PROVE  \A d \in 1..depth'[t] : FrameOK(t, d)'
<1> SUFFICES ASSUME NEW d \in 1..depth'[t] PROVE FrameOK(t, d)'
  OBVIOUS
<1>1. TypeOK /\ ThreadOK(t)
  BY DEF Inv1
<1>2. d \in 1..depth[t] /\ d \in 1..MaxDepth /\ depth[t] > 0
  BY <1>1, DepthType
<1>3. FrameOK(t, d)
  BY <1>1, <1>2 DEF ThreadOK
<1> QED
  BY <1>1, <1>2, <1>3, FrameKept

LEMMA ReturnOK ==
  ASSUME Inv1, TypeOK', Evolves, NEW t \in Threads, NEW b, pc[t] \in HelpPcs \ {"fill"},
         Return(t, b), UNCHANGED <<building, kdesc, rdesc, reg>>
  PROVE  ThreadOK(t)'
<1>1. TypeOK /\ ThreadOK(t) /\ depth[t] > 0
  BY DEF Inv1, ThreadOK, StackOK
<1>2. depth[t] \in Nat /\ MaxDepth \in Nat /\ depth[t] <= MaxDepth /\ depth'[t] = depth[t] - 1
  BY <1>1, DepthType DEF Return, TypeOK
<1>3. /\ depth[t] > 1 => pc'[t] = "entry"
      /\ depth[t] = 1 /\ Top(t).helping => pc'[t] = "read"
      /\ depth[t] = 1 /\ ~ Top(t).helping => pc'[t] = "idle"
  BY <1>1, <1>2 DEF Return, Goto, TypeOK
<1>4. pc'[t] \in {"entry", "read", "idle"}
  BY <1>1, <1>2, <1>3
<1>5. depth[t] = 1 => (Top(t).helping <=> reg[t].addr # NULL)
  BY <1>1, <1>2 DEF ThreadOK, FrameOK, Top
<1>6. reg[t].addr \in Addrs \cup {NULL}
  BY <1>1 DEF TypeOK, Reg
<1>7. StackOK(t)'
  BY <1>1, <1>2, <1>3, <1>4, <1>5, <1>6 DEF StackOK, HelpPcs
<1>8. RegOK(t)'
  BY <1>4 DEF RegOK, Finishing, RdcssPcs
<1>9. DescOK(t)'
  BY <1>1, <1>4, DescKept DEF ThreadOK, RdcssPcs, HelpPcs
<1>10. ASSUME NEW d \in 1..depth'[t] PROVE FrameOK(t, d)'
  <2>1. d \in 1..depth[t] /\ d \in 1..MaxDepth /\ d < depth[t] /\ depth[t] \in 1..MaxDepth
    BY <1>2
  <2>2. FrameOK(t, d)
    BY <1>1, <2>1 DEF ThreadOK
  <2>3. frame'[t][d] = frame[t][d]
    BY <1>1, <2>1 DEF Return, TypeOK
  <2> QED
    BY <1>1, <2>1, <2>2, <2>3, FrameKept
<1> QED
  BY <1>7, <1>8, <1>9, <1>10 DEF ThreadOK

(* The frames below the top, when only the top changes.                    *)
LEMMA LowerKept ==
  ASSUME Inv1, TypeOK', Evolves, NEW t \in Threads, NEW d \in 1..MaxDepth,
         d < depth[t], frame'[t][d] = frame[t][d], reg'[t].addr = reg[t].addr
  PROVE  FrameOK(t, d)'
<1>1. TypeOK /\ ThreadOK(t)
  BY DEF Inv1
<1>2. d \in 1..depth[t]
  BY <1>1, DepthType
<1>3. FrameOK(t, d)
  BY <1>1, <1>2 DEF ThreadOK
<1> QED
  BY <1>1, <1>3, FrameKept

(* The top frame changes its counter and its verdict.                      *)
LEMMA TopChanges ==
  ASSUME Inv1, TypeOK', Evolves, NEW t \in Threads, depth[t] > 0, pc[t] # "check_kcas",
         NEW n \in Nat, n >= 1, NEW st,
         frame' = [frame EXCEPT ![t] = [@ EXCEPT ![depth[t]] =
                      [Top(t) EXCEPT !.i = n, !.state = st]]],
         depth'[t] = depth[t], reg'[t].addr = reg[t].addr,
         pc'[t] \in EntryPcs => n <= Len(Top(t).entries)
  PROVE  \A d \in 1..depth'[t] : FrameOK(t, d)'
<1> SUFFICES ASSUME NEW d \in 1..depth'[t] PROVE FrameOK(t, d)'
  OBVIOUS
<1>1. TypeOK /\ ThreadOK(t)
  BY DEF Inv1
<1>2. /\ depth[t] \in 1..MaxDepth /\ d \in 1..depth[t] /\ d \in 1..MaxDepth
      /\ Top(t) = frame[t][depth[t]] /\ Top(t) \in Frame
  BY <1>1, DepthType, TopFrame
<1>3. CASE d # depth[t]
  <2>1. d < depth[t]
    BY <1>2, <1>3
  <2>2. frame'[t][d] = frame[t][d]
    BY <1>1, <1>2, <1>3 DEF TypeOK
  <2> QED
    BY <1>2, <2>1, <2>2, LowerKept
<1>4. CASE d = depth[t]
  <2>1. PICK f \in Frame : f = Top(t)
    BY <1>2
  <2>2. /\ frame'[t][d].tag = f.tag /\ frame'[t][d].seq = f.seq
        /\ frame'[t][d].entries = f.entries /\ frame'[t][d].helping = f.helping
        /\ frame'[t][d].i = n
    <3>1. frame'[t][d] = [f EXCEPT !.i = n, !.state = st]
      BY <1>1, <1>2, <1>4, <2>1 DEF TypeOK
    <3> QED
      BY ONLY f \in Frame, <3>1 DEF Frame
  <2>3. FrameOK(t, d) /\ frame[t][d] = f
    BY <1>1, <1>2, <1>4, <2>1 DEF ThreadOK
  <2>4. CopyOK(f)
    BY <2>3 DEF FrameOK
  <2>5. CopyOK(f)'
    BY <1>1, <2>4, CopyOKStays
  <2>6. CopyOK(frame[t][d])'
    BY Zenon, <2>2, <2>5 DEF CopyOK, KIssued, Alive
  <2> QED
    BY <1>4, <2>1, <2>2, <2>3, <2>6 DEF FrameOK, Checked, AtEntry
<1> QED
  BY <1>3, <1>4

LEMMA NextEntryOK ==
  ASSUME Inv1, TypeOK', Evolves, NEW t \in Threads, depth[t] > 0,
         pc[t] \in {"rdcss", "rdcss_finish"}, NextEntry(t), depth'[t] = depth[t],
         reg'[t].addr = reg[t].addr, UNCHANGED <<building, kdesc, rdesc>>
  PROVE  ThreadOK(t)'
<1>1. TypeOK /\ ThreadOK(t)
  BY DEF Inv1
<1>2. Top(t) \in Frame /\ Top(t).i \in Nat /\ Len(Top(t).entries) \in Nat
  BY <1>1, TopFrame DEF Frame
<1>3. pc'[t] = IF Top(t).i + 1 > Len(Top(t).entries) THEN "decide" ELSE "entry"
  BY <1>1 DEF NextEntry, Goto, LoopHead, TypeOK
<1>4. pc'[t] \in {"decide", "entry"}
  BY <1>3
<1>5. \A d \in 1..depth'[t] : FrameOK(t, d)'
  <2>1. frame' = [frame EXCEPT ![t] = [@ EXCEPT ![depth[t]] =
                     [Top(t) EXCEPT !.i = Top(t).i + 1, !.state = Top(t).state]]]
    <3>1. [Top(t) EXCEPT !.i = Top(t).i + 1, !.state = Top(t).state]
            = [Top(t) EXCEPT !.i = @ + 1]
      BY Zenon, <1>2 DEF Frame
    <3> QED
      BY Zenon, <3>1 DEF NextEntry, Top
  <2>2. pc'[t] \in EntryPcs => Top(t).i + 1 <= Len(Top(t).entries)
    BY <1>2, <1>3 DEF EntryPcs, RdcssPcs
  <2>3. Top(t).i + 1 \in Nat /\ Top(t).i + 1 >= 1
    BY <1>2
  <2> QED
    BY Zenon, <2>1, <2>2, <2>3, TopChanges
<1>6. StackOK(t)'
  BY <1>1, <1>4 DEF ThreadOK, StackOK
<1>7. RegOK(t)'
  BY <1>4 DEF RegOK, Finishing, RdcssPcs
<1>8. DescOK(t)'
  BY Zenon, <1>1, <1>4, DescKept DEF ThreadOK, RdcssPcs
<1> QED
  BY <1>5, <1>6, <1>7, <1>8 DEF ThreadOK

(* A thread with no help call on its stack, that is not in an RDCSS.       *)
LEMMA FlatOK ==
  ASSUME NEW t \in Threads, depth'[t] = 0, pc'[t] \in {"idle", "read"},
         pc'[t] = "idle" => reg'[t].addr = NULL,
         pc'[t] = "read" => reg'[t].addr \in Addrs, DescOK(t)'
  PROVE  ThreadOK(t)'
<1>1. StackOK(t)'
  BY DEF StackOK, HelpPcs
<1>2. RegOK(t)'
  <2>1. pc'[t] \notin RdcssPcs /\ pc'[t] # "copy_kcas"
    BY SMTT(30) DEF RdcssPcs
  <2> QED
    BY ONLY <2>1 DEF RegOK, Finishing, RdcssPcs
<1> QED
  BY <1>1, <1>2 DEF ThreadOK

(* The request in the RDCSS descriptor was published.                      *)
LEMMA BodyKept ==
  ASSUME TypeOK, TypeOK', Evolves, NEW t \in Threads, DescOK(t), rdesc[t].seq > 2,
         rdesc'[t].body = rdesc[t].body
  PROVE  rdesc'[t].body \in Rdcss /\ KIssued(rdesc[t].body.ktag)'
<1>1. rdesc[t].body \in Rdcss /\ KIssued(rdesc[t].body.ktag)
  BY DEF DescOK
<1>2. PICK k : k = rdesc[t].body.ktag
  OBVIOUS
<1>3. KIssued(k)'
  BY <1>1, <1>2, KIssuedStays
<1> QED
  BY <1>1, <1>2, <1>3 DEF KIssued

LEMMA StartOK ==
  ASSUME Inv1, TypeOK', Evolves, NEW t \in Threads, start(t)
  PROVE  ThreadOK(t)'
<1>1. TypeOK /\ ThreadOK(t) /\ pc[t] = "idle" /\ pc'[t] = "idle"
  BY DEF Inv1, start
<1>2. depth'[t] = 0 /\ reg'[t].addr = NULL
  BY <1>1 DEF start, ThreadOK, StackOK
<1>3. kdesc'[t].seq = kdesc[t].seq + 1 /\ kdesc[t].seq < Len(EntriesOf[t])
  BY <1>1 DEF start, TypeOK
<1>4. kdesc[t].seq \in Nat /\ kdesc[t].seq > 0 /\ Len(EntriesOf[t]) \in Nat
  BY <1>1, KdescType, ConstantsAssumption DEF ThreadOK, DescOK
<1>5. kdesc'[t].seq > 0 /\ kdesc'[t].seq <= Len(EntriesOf[t])
  BY <1>3, <1>4
<1>6. rdesc' = rdesc /\ t \in building' /\ DescOK(t)
  BY <1>1 DEF start, ThreadOK
<1>7. rdesc[t].seq > 2 => rdesc'[t].body \in Rdcss /\ KIssued(rdesc[t].body.ktag)'
  BY <1>1, <1>6, BodyKept
<1>8. DescOK(t)'
  BY <1>1, <1>5, <1>6, <1>7 DEF DescOK, RdcssPcs
<1> QED
  BY <1>1, <1>2, <1>8, FlatOK

LEMMA AddOK ==
  ASSUME Inv1, TypeOK', Evolves, NEW t \in Threads, add(t)
  PROVE  ThreadOK(t)'
<1>1. TypeOK /\ ThreadOK(t) /\ DescOK(t) /\ pc[t] = "idle" /\ pc'[t] = "idle" /\ t \in building'
  BY DEF Inv1, add, ThreadOK
<1>2. depth'[t] = 0 /\ reg'[t].addr = NULL
  BY <1>1 DEF add, ThreadOK, StackOK
<1>3. rdesc' = rdesc /\ building' = building
  BY DEF add
<1>4. rdesc[t].seq > 2 => rdesc'[t].body \in Rdcss /\ KIssued(rdesc[t].body.ktag)'
  BY <1>1, <1>3, BodyKept
<1>5. kdesc'[t].seq = kdesc[t].seq
  BY <1>1 DEF add, TypeOK, KcasDesc
<1>6. DescOK(t)'
  BY <1>1, <1>3, <1>4, <1>5 DEF DescOK, RdcssPcs
<1> QED
  BY <1>1, <1>2, <1>6, FlatOK

LEMMA ExecuteOK ==
  ASSUME Inv1, TypeOK', Evolves, NEW t \in Threads, execute(t)
  PROVE  ThreadOK(t)'
<1>1. /\ TypeOK /\ ThreadOK(t) /\ DescOK(t)
      /\ pc[t] = "idle" /\ depth[t] = 0 /\ reg[t].addr = NULL
  BY DEF Inv1, execute, ThreadOK, StackOK
<1>2. pc'[t] = "help" /\ t \notin building' /\ rdesc' = rdesc /\ reg' = reg
  BY <1>1 DEF execute, Goto, TypeOK
<1>3. PICK s \in Nat : s = kdesc[t].seq + 1
  BY <1>1, KdescType
<1>4. PICK es \in SortedEntries(kdesc[t].entries) :
        /\ kdesc' = [kdesc EXCEPT ![t].seq = s, ![t].entries = es]
        /\ Push(t, [tag |-> KcasTag(t, s), seq |-> s, entries |-> es,
                    helping |-> FALSE, i |-> 1, state |-> "UNDECIDED"])
  BY Zenon, <1>3 DEF execute
<1>5. es \in Seq(Entry) /\ es # <<>>
  <2>1. kdesc[t].entries \in Seq(Entry) /\ kdesc[t].entries # <<>>
    BY <1>1, KdescType DEF execute
  <2> QED
    BY <1>4, <2>1, SortedType
<1>6. kdesc'[t].seq = s /\ kdesc'[t].entries = es
  BY <1>1, <1>4 DEF TypeOK, KcasDesc
<1>7. depth'[t] = 1 /\ MaxDepth \in Nat /\ 1 \in 1..MaxDepth
  BY <1>1, <1>4, ConstantsAssumption DEF Push, TypeOK
<1>8. frame'[t][1] = [tag |-> KcasTag(t, s), seq |-> s, entries |-> es,
                      helping |-> FALSE, i |-> 1, state |-> "UNDECIDED"]
  BY <1>1, <1>4, <1>7 DEF Push, TypeOK
<1>9. s > 1
  BY <1>1, <1>3, KdescType DEF DescOK
<1>10. KIssued(KcasTag(t, s))'
  BY SMTT(30), <1>2, <1>6, <1>9 DEF KIssued, KcasTag, KcasTags
<1>11. CopyOK(frame[t][1])'
  <2>0. KcasTag(t, s).tid = t /\ KcasTag(t, s).seq = s
    BY DEF KcasTag
  <2>1. PICK k : k = KcasTag(t, s) /\ k.tid = t /\ k.seq = s
    BY <2>0
  <2>2. frame'[t][1].tag = k /\ frame'[t][1].seq = s /\ frame'[t][1].entries = es
    BY <1>8, <2>1
  <2>3. KIssued(k)'
    BY <1>10, <2>1 DEF KIssued
  <2>4. KIssued(frame[t][1].tag)'
    BY SMTT(30), <2>2, <2>3 DEF KIssued
  <2> QED
    BY <1>6, <2>1, <2>2, <2>4 DEF CopyOK, Alive
<1>12. FrameOK(t, 1)'
  <2>1. /\ frame'[t][1].seq = s /\ frame'[t][1].entries = es
        /\ frame'[t][1].tag = KcasTag(t, s)
    BY <1>8
  <2>2. KcasTag(t, s).seq = s
    BY DEF KcasTag
  <2>3. Checked(frame[t][1])'
    BY <1>5, <2>1, <2>2 DEF Checked
  <2>4. frame'[t][1].i = 1 /\ frame'[t][1].helping = FALSE
    BY <1>8
  <2>5. ~ (1 < depth'[t]) /\ pc'[t] \notin EntryPcs
    BY <1>2, <1>7 DEF EntryPcs, RdcssPcs
  <2>6. reg'[t].addr = NULL
    BY <1>1, <1>2
  <2> QED
    BY SMTT(30), <1>11, <2>3, <2>4, <2>5, <2>6 DEF FrameOK
<1>13. \A d \in 1..depth'[t] : d = 1
  BY <1>7
<1>14. StackOK(t)' /\ RegOK(t)'
  BY <1>2, <1>7 DEF StackOK, RegOK, Finishing, RdcssPcs, HelpPcs
<1>15. DescOK(t)'
  <2>1. rdesc[t].seq > 2 => rdesc'[t].body \in Rdcss /\ KIssued(rdesc[t].body.ktag)'
    BY <1>1, <1>2, BodyKept
  <2>2. kdesc'[t].seq > 0 /\ kdesc'[t].entries # <<>>
    BY <1>5, <1>6, <1>9
  <2> QED
    BY SMTT(30), <1>1, <1>2, <2>1, <2>2 DEF DescOK, RdcssPcs
<1> QED
  BY <1>12, <1>13, <1>14, <1>15 DEF ThreadOK

LEMMA ReadPtrOK ==
  ASSUME Inv1, TypeOK', Evolves, NEW t \in Threads, NEW a \in ReadsOf[t], readPtr(t, a)
  PROVE  ThreadOK(t)'
<1>1. TypeOK /\ ThreadOK(t) /\ pc[t] = "idle" /\ pc'[t] = "read" /\ a \in Addrs
  BY Zenon, ConstantsAssumption DEF Inv1, readPtr, Goto, TypeOK
<1>2. depth'[t] = 0 /\ reg'[t].addr = a
  BY <1>1 DEF readPtr, ThreadOK, StackOK, TypeOK, Reg
<1>3. DescOK(t)'
  BY <1>1, DescKept DEF readPtr, ThreadOK, RdcssPcs
<1> QED
  BY <1>1, <1>2, <1>3, FlatOK

LEMMA RdcssReadOK ==
  ASSUME Inv1, TypeOK', Evolves, NEW t \in Threads, rdcssRead(t)
  PROVE  ThreadOK(t)'
<1>1. TypeOK /\ ThreadOK(t) /\ WordsOK /\ pc[t] = "read" /\ depth[t] = 0 /\ reg[t].addr \in Addrs
  BY DEF Inv1, rdcssRead, ThreadOK, StackOK
<1>2. depth'[t] = 0 /\ UNCHANGED <<building, kdesc, rdesc>>
  BY <1>1 DEF rdcssRead
<1>3. PICK w \in Word : w = mem[reg[t].addr]
  BY <1>1 DEF TypeOK
<1>4. \A d \in 1..depth'[t] : FrameOK(t, d)'
  BY <1>2
<1>5. CASE isRdcss(w)
  <2>1. reg' = [reg EXCEPT ![t].tag = w, ![t].helping = TRUE] /\ pc' = [pc EXCEPT ![t] = "copy_rdcss"]
    BY <1>3, <1>5 DEF rdcssRead, isRdcss, isKcas, Goto
  <2>2. pc'[t] = "copy_rdcss" /\ reg'[t].tag = w /\ reg'[t].helping /\ reg'[t].addr = reg[t].addr
    BY <1>1, <2>1 DEF TypeOK, Reg
  <2>3. RIssued(w)'
    BY <1>1, <1>3, <1>5, RIssuedStays DEF WordsOK
  <2>4. RegOK(t)'
    BY <2>2, <2>3 DEF RegOK, Finishing, RdcssPcs, RIssued
  <2>5. StackOK(t)'
    BY <1>1, <1>2, <2>2 DEF StackOK, HelpPcs
  <2>6. DescOK(t)'
    BY <1>1, <1>2, <2>2, DescKept DEF ThreadOK
  <2> QED
    BY <1>4, <2>4, <2>5, <2>6 DEF ThreadOK
<1>6. CASE isKcas(w)
  <2>1. reg' = [reg EXCEPT ![t].tag = w] /\ pc' = [pc EXCEPT ![t] = "copy_kcas"]
    BY <1>3, <1>6 DEF rdcssRead, isRdcss, isKcas, Goto
  <2>2. pc'[t] = "copy_kcas" /\ reg'[t].tag = w /\ reg'[t].addr = reg[t].addr
    BY <1>1, <2>1 DEF TypeOK, Reg
  <2>3. KIssued(w)'
    BY SMTT(30), <1>1, <1>3, <1>6, KIssuedStays DEF WordsOK
  <2>4. RegOK(t)'
    BY Zenon, <2>2, <2>3 DEF RegOK, Finishing, RdcssPcs, KIssued
  <2>5. StackOK(t)'
    BY Zenon, <1>1, <1>2, <2>2 DEF StackOK, HelpPcs
  <2>6. DescOK(t)'
    BY <1>1, <1>2, <2>2, DescKept DEF ThreadOK, RdcssPcs
  <2> QED
    BY <1>4, <2>4, <2>5, <2>6 DEF ThreadOK
<1>7. CASE ~ isRdcss(w) /\ ~ isKcas(w)
  <2>1. pc'[t] = "idle" /\ reg'[t].addr = NULL
    BY <1>1, <1>3, <1>7 DEF rdcssRead, Goto, TypeOK, Reg
  <2>2. DescOK(t)'
    BY <1>1, <1>2, <2>1, DescKept DEF ThreadOK, RdcssPcs
  <2> QED
    BY SMTT(30), <1>2, <2>1, <2>2, FlatOK
<1> QED
  BY <1>5, <1>6, <1>7

(* rdcssHelpOther returns.                                                 *)
LEMMA RetryOK ==
  ASSUME Inv1, TypeOK', Evolves, NEW t \in Threads, pc[t] \in RdcssPcs, Retry(t),
         UNCHANGED <<building, kdesc, rdesc, depth, frame>>
  PROVE  ThreadOK(t)'
<1>1. TypeOK /\ ThreadOK(t)
  BY DEF Inv1
<1>2. reg'[t].addr = reg[t].addr
  BY SMTT(30), <1>1 DEF Retry, ForgetRdcss, NoReg, TypeOK
<1>3. pc'[t] = IF depth[t] > 0 THEN "rdcss" ELSE "read"
  BY <1>1 DEF Retry, Goto, TypeOK
<1>4. pc'[t] \in {"rdcss", "read"} /\ depth'[t] = depth[t] /\ depth[t] \in Nat
  BY <1>1, <1>3, DepthType
<1>5. StackOK(t)'
  BY SMTT(30), <1>1, <1>2, <1>3, <1>4 DEF ThreadOK, StackOK, HelpPcs, RdcssPcs
<1>6. RegOK(t)'
  BY SMTT(30), <1>4 DEF RegOK, Finishing, RdcssPcs
<1>7. DescOK(t)'
  BY Zenon, <1>1, <1>3, <1>4, DescRdcssKept DEF ThreadOK, RdcssPcs
<1>8. \A d \in 1..depth'[t] : FrameOK(t, d)'
  BY <1>1, <1>2, <1>4, FramesKept DEF EntryPcs, RdcssPcs
<1> QED
  BY <1>5, <1>6, <1>7, <1>8 DEF ThreadOK

(* A step inside rdcssHelp.                                                *)
LEMMA RdcssStepOK ==
  ASSUME Inv1, TypeOK', Evolves, NEW t \in Threads, pc[t] \in RdcssPcs, pc'[t] \in RdcssPcs,
         reg'[t].addr = reg[t].addr, UNCHANGED <<building, kdesc, rdesc, depth, frame>>, RegOK(t)'
  PROVE  ThreadOK(t)'
<1>1. TypeOK /\ ThreadOK(t)
  BY DEF Inv1
<1>2. StackOK(t)'
  BY <1>1 DEF ThreadOK, StackOK, HelpPcs, RdcssPcs
<1>3. DescOK(t)'
  BY SMTT(30), <1>1, DescRdcssKept DEF ThreadOK, RdcssPcs
<1>4. \A d \in 1..depth'[t] : FrameOK(t, d)'
  BY <1>1, FramesKept DEF EntryPcs, RdcssPcs
<1> QED
  BY <1>2, <1>3, <1>4 DEF ThreadOK

LEMMA RdcssCopyOK ==
  ASSUME Inv1, TypeOK', Evolves, NEW t \in Threads, rdcssCopy(t)
  PROVE  ThreadOK(t)'
<1>1. TypeOK /\ ThreadOK(t) /\ pc[t] = "copy_rdcss" /\ pc'[t] = "check_rdcss"
  BY DEF Inv1, rdcssCopy, Goto, TypeOK
<1>0. RegOK(t)
  BY SMTT(30), <1>1 DEF ThreadOK
<1>2. PICK r \in RdcssTags : r = reg[t].tag
  BY ONLY SMTT(30), <1>0, <1>1 DEF RegOK, RdcssPcs, RIssued
<1>3. RIssued(r) /\ reg[t].helping
  BY ONLY SMTT(30), <1>0, <1>1, <1>2 DEF RegOK, RdcssPcs
<1>4. /\ reg'[t].tag = r /\ reg'[t].helping /\ reg'[t].addr = reg[t].addr
      /\ reg'[t].copy = rdesc[r.tid].body
  BY SMTT(30), <1>1, <1>2, <1>3 DEF rdcssCopy, TypeOK, Reg
<1>5. RIssued(r)'
  BY <1>1, <1>3, RIssuedStays
<1>6. rdesc' = rdesc
  BY DEF rdcssCopy
<1>7. RegOK(t)'
  BY <1>1, <1>4, <1>5, <1>6 DEF RegOK, Finishing, RdcssPcs, RIssued
<1> QED
  BY <1>1, <1>4, <1>7, RdcssStepOK DEF rdcssCopy, RdcssPcs

LEMMA RdcssCheckOK ==
  ASSUME Inv1, TypeOK', Evolves, NEW t \in Threads, rdcssCheck(t)
  PROVE  ThreadOK(t)'
<1>1. TypeOK /\ ThreadOK(t) /\ pc[t] = "check_rdcss"
  BY DEF Inv1, rdcssCheck
<1>2. CASE rdesc[reg[t].tag.tid].seq = reg[t].tag.seq
  <2>1. pc'[t] = "rdcss_state" /\ reg' = reg /\ rdesc' = rdesc
    BY SMTT(30), <1>1, <1>2 DEF rdcssCheck, Goto, TypeOK
  <2>2. PICK r \in RdcssTags : r = reg[t].tag
    BY Zenon, <1>1 DEF ThreadOK, RegOK, RdcssPcs, RIssued
  <2>3. RIssued(r) /\ reg[t].helping /\ r.tid \in Threads
    BY SMTT(30), <1>1, <2>2 DEF ThreadOK, RegOK, RdcssPcs, RdcssTags
  <2>4. reg[t].copy = rdesc[r.tid].body
    BY Zenon, <1>1, <1>2, <2>2 DEF ThreadOK, RegOK
  <2>5. rdesc[r.tid].seq > 2
    BY SMTT(30), <1>2, <2>2, <2>3 DEF RIssued, RdcssTags
  <2>6. PICK c \in Rdcss : c = reg[t].copy /\ KIssued(c.ktag)
    BY <2>3, <2>4, <2>5 DEF Inv1, ThreadOK, DescOK
  <2>7. RIssued(r)' /\ KIssued(c.ktag)'
    BY <1>1, <2>3, <2>6, RIssuedStays, KIssuedStays
  <2>8. RegOK(t)'
    BY Zenon, <2>1, <2>2, <2>3, <2>4, <2>6, <2>7 DEF RegOK, Finishing, RdcssPcs, RIssued, KIssued
  <2> QED
    BY SMTT(30), <1>1, <2>1, <2>8, RdcssStepOK DEF rdcssCheck, RdcssPcs
<1>3. CASE rdesc[reg[t].tag.tid].seq # reg[t].tag.seq
  BY <1>1, <1>3, RetryOK DEF rdcssCheck, RdcssPcs
<1> QED
  BY <1>2, <1>3

LEMMA RdcssReadStateOK ==
  ASSUME Inv1, TypeOK', Evolves, NEW t \in Threads, rdcssReadState(t)
  PROVE  ThreadOK(t)'
<1>1. TypeOK /\ ThreadOK(t) /\ pc[t] = "rdcss_state" /\ pc'[t] = "rdcss_finish"
  BY DEF Inv1, rdcssReadState, Goto, TypeOK
<1>2. /\ reg'[t].tag = reg[t].tag /\ reg'[t].helping = reg[t].helping
      /\ reg'[t].addr = reg[t].addr /\ reg'[t].copy = reg[t].copy
  BY <1>1 DEF rdcssReadState, TypeOK, Reg
<1>3. PICK r \in RdcssTags, c \in Rdcss :
        r = reg[t].tag /\ c = reg[t].copy /\ RIssued(r) /\ KIssued(c.ktag)
  BY Zenon, <1>1 DEF ThreadOK, RegOK, RdcssPcs, RIssued
<1>4. RIssued(r)' /\ KIssued(c.ktag)'
  BY <1>1, <1>3, RIssuedStays, KIssuedStays
<1>5. rdesc' = rdesc /\ depth' = depth
  BY DEF rdcssReadState
<1>6. RegOK(t)'
  BY Zenon, <1>1, <1>2, <1>3, <1>4, <1>5
     DEF ThreadOK, RegOK, Finishing, RdcssPcs, RIssued, KIssued
<1> QED
  BY <1>1, <1>2, <1>6, RdcssStepOK DEF rdcssReadState, RdcssPcs

LEMMA RdcssHelpOK ==
  ASSUME Inv1, TypeOK', Evolves, NEW t \in Threads, rdcssHelp(t)
  PROVE  ThreadOK(t)'
<1>1. TypeOK /\ ThreadOK(t) /\ pc[t] = "rdcss_finish"
  BY SMTT(30) DEF Inv1, rdcssHelp
<1>2. CASE reg[t].helping
  BY SMTT(30), <1>1, <1>2, RetryOK DEF rdcssHelp, RdcssPcs
<1>3. CASE ~ reg[t].helping
  <2>0. RegOK(t) /\ reg \in [Threads -> Reg]
    BY <1>1 DEF ThreadOK, TypeOK
  <2>1. depth[t] > 0
    BY ONLY <1>1, <1>3, <2>0 DEF RegOK, Finishing
  <2>2. reg'[t].addr = reg[t].addr
    BY <1>3, <2>0 DEF rdcssHelp, ForgetRdcss, NoReg
  <2> QED
    BY SMTT(30), <1>1, <1>3, <2>1, <2>2, NextEntryOK DEF rdcssHelp
<1> QED
  BY <1>2, <1>3

-----------------------------------------------------------------------------
LEMMA KcasCopyOK ==
  ASSUME Inv1, TypeOK', Evolves, NEW t \in Threads, kcasCopy(t)
  PROVE  ThreadOK(t)'
<1>1. TypeOK /\ ThreadOK(t) /\ pc[t] = "copy_kcas" /\ pc'[t] = "check_kcas"
  BY DEF Inv1, kcasCopy, Goto, TypeOK
<1>2. PICK k \in KcasTags : k = reg[t].tag /\ KIssued(k)
  BY Zenon, <1>1 DEF ThreadOK, RegOK, KIssued
<1>3. k.tid \in Threads /\ k.seq \in Nat
  BY <1>2 DEF KcasTags
<1>4. PICK d \in KcasDesc : d = kdesc[k.tid] /\ d.seq \in Nat
  BY <1>1, <1>3, KdescType
<1>5. PICK g : g = [tag |-> k, seq |-> d.seq, entries |-> d.entries,
                    helping |-> TRUE, i |-> 2, state |-> "UNDECIDED"]
  BY ZenonT(30)
<1>6. Push(t, g) /\ UNCHANGED <<building, kdesc, rdesc>>
  BY SMTT(30), <1>2, <1>4, <1>5 DEF kcasCopy
<1>7. PICK n \in 1..MaxDepth : n = depth[t] + 1 /\ depth'[t] = n
  BY <1>1, <1>6, ConstantsAssumption, DepthType DEF Push, TypeOK
<1>8. depth[t] \in Nat
  BY <1>1, DepthType
<1>9. frame'[t][n] = g /\ \A m \in 1..MaxDepth : m # n => frame'[t][m] = frame[t][m]
  BY <1>1, <1>6, <1>7 DEF Push, TypeOK
<1>10. reg'[t].addr = reg[t].addr
  BY SMTT(30), <1>1 DEF kcasCopy, TypeOK, Reg
<1>11. FrameOK(t, n)'
  <2>1. KIssued(k)'
    BY SMTT(30), <1>1, <1>2, KIssuedStays
  <2>2. CopyOK(frame[t][n])'
    <3>1. /\ frame'[t][n].tag = k /\ frame'[t][n].seq = d.seq
          /\ frame'[t][n].entries = d.entries /\ kdesc'[k.tid] = d
      BY SMTT(30), <1>4, <1>5, <1>6, <1>9
    <3>2. k.seq <= d.seq
      BY SMTT(30), <1>2, <1>4 DEF KIssued
    <3>3. KIssued(frame[t][n].tag)'
      BY <2>1, <3>1 DEF KIssued
    <3> QED
      BY SMTT(30), <1>4, <3>1, <3>2, <3>3 DEF CopyOK, Alive
  <2>3. n = 1 => reg[t].addr \in Addrs /\ reg[t].addr # NULL
    BY <1>1, <1>7, <1>8, ConstantsAssumption DEF ThreadOK, StackOK, NULL
  <2> QED
    BY SMTT(30), <1>1, <1>5, <1>7, <1>9, <1>10, <2>2, <2>3 DEF FrameOK, EntryPcs, RdcssPcs
<1>12. ASSUME NEW m \in 1..depth'[t] PROVE FrameOK(t, m)'
  <2>1. CASE m = n
    BY <1>11, <2>1
  <2>2. CASE m # n
    <3>1. m \in 1..depth[t] /\ m \in 1..MaxDepth /\ frame'[t][m] = frame[t][m]
      BY <1>7, <1>8, <1>9, <2>2, ConstantsAssumption
    <3>2. FrameOK(t, m)
      BY SMTT(30), <1>1, <3>1 DEF ThreadOK
    <3> QED
      BY Zenon, <1>1, <1>10, <3>1, <3>2, FrameKept DEF EntryPcs
  <2> QED
    BY <2>1, <2>2
<1>13. StackOK(t)'
  BY SMTT(30), <1>1, <1>7 DEF StackOK, HelpPcs
<1>14. RegOK(t)'
  BY <1>1 DEF RegOK, Finishing, RdcssPcs
<1>15. DescOK(t)'
  BY <1>1, <1>6, DescKept DEF ThreadOK, RdcssPcs
<1> QED
  BY SMTT(30), <1>12, <1>13, <1>14, <1>15 DEF ThreadOK

(* A step of help that leaves the stack alone and enters no RDCSS.         *)
LEMMA HelpStepOK ==
  ASSUME Inv1, TypeOK', Evolves, NEW t \in Threads, pc[t] \in HelpPcs \ {"fill"},
         pc'[t] \in {"help", "entry", "decide", "phase2", "unlock"},
         depth'[t] = depth[t], reg' = reg, UNCHANGED <<building, rdesc>>,
         kdesc'[t].seq = kdesc[t].seq, kdesc'[t].entries = kdesc[t].entries,
         \A d \in 1..depth'[t] : FrameOK(t, d)'
  PROVE  ThreadOK(t)'
<1>1. TypeOK /\ ThreadOK(t)
  BY DEF Inv1
<1>2. StackOK(t)'
  BY <1>1 DEF ThreadOK, StackOK, HelpPcs
<1>3. RegOK(t)'
  BY Zenon DEF RegOK, Finishing, RdcssPcs
<1>4. DescOK(t)'
  BY <1>1, DescKept DEF ThreadOK, RdcssPcs, HelpPcs
<1> QED
  BY <1>2, <1>3, <1>4 DEF ThreadOK

LEMMA KcasCheckOK ==
  ASSUME Inv1, TypeOK', Evolves, NEW t \in Threads, kcasCheck(t)
  PROVE  ThreadOK(t)'
<1>1. TypeOK /\ ThreadOK(t) /\ pc[t] = "check_kcas" /\ depth[t] > 0
  BY Zenon DEF Inv1, kcasCheck, ThreadOK, StackOK, HelpPcs
<1>2. CASE ~ Alive(Top(t).tag)
  <2>1. Return(t, FALSE) /\ UNCHANGED <<building, kdesc, rdesc, reg>>
    BY Zenon, <1>2 DEF kcasCheck
  <2>2. pc[t] \in HelpPcs \ {"fill"}
    BY <1>1 DEF HelpPcs
  <2> QED
    BY Zenon, <2>1, <2>2, ReturnOK
<1>3. CASE Alive(Top(t).tag)
  <2>1. pc'[t] = "help" /\ UNCHANGED <<building, depth, frame, kdesc, rdesc, reg>>
    BY SMTT(30), <1>1, <1>3 DEF kcasCheck, Goto, TypeOK
  <2>2. depth[t] \in 1..MaxDepth /\ depth[t] \in Nat
    BY <1>1, DepthType, TopFrame
  <2>3. PICK f \in Frame : f = Top(t) /\ f = frame[t][depth[t]]
    BY <1>1, TopFrame
  <2>4. FrameOK(t, depth[t])
    BY <1>1, <2>2 DEF ThreadOK
  <2>5. CopyOK(f) /\ Alive(f.tag)
    BY Zenon, <1>3, <2>3, <2>4 DEF FrameOK
  <2>6. f.seq = f.tag.seq /\ f.entries = kdesc[f.tag.tid].entries
    <3>1. f.tag.seq \in Nat /\ f.seq \in Nat
      BY <2>5 DEF CopyOK, KIssued, KcasTags, Frame
    <3> QED
      BY <2>5, <3>1 DEF CopyOK, Alive
  <2>7. f.entries # <<>>
    <3>1. f.tag.tid \in Threads /\ kdesc[f.tag.tid].seq > 1 /\ f.tag.tid \notin building
      BY <1>1, <2>5, KdescType DEF CopyOK, Alive, KIssued, KcasTags
    <3> QED
      BY Zenon, <2>6, <3>1 DEF Inv1, ThreadOK, DescOK
  <2>8. ASSUME NEW d \in 1..depth'[t] PROVE FrameOK(t, d)'
    <3>1. d \in 1..depth[t] /\ d \in 1..MaxDepth
      BY <2>1, <2>2, ConstantsAssumption
    <3>2. CASE d # depth[t]
      BY <1>1, <2>1, <2>2, <3>1, <3>2, LowerKept
    <3>3. CASE d = depth[t]
      <4>1. CopyOK(f)'
        BY <1>1, <2>5, CopyOKStays
      <4>2. CopyOK(frame[t][d])'
        BY Zenon, <2>1, <2>3, <3>3, <4>1 DEF CopyOK, KIssued, Alive
      <4> QED
        BY Zenon, <1>1, <2>1, <2>3, <2>4, <2>6, <2>7, <3>3, <4>2
           DEF FrameOK, Checked, EntryPcs, RdcssPcs
    <3> QED
      BY <3>2, <3>3
  <2> QED
    BY Zenon, <1>1, <2>1, <2>8, HelpStepOK DEF HelpPcs
<1> QED
  BY <1>2, <1>3

LEMMA HelpReadStateOK ==
  ASSUME Inv1, TypeOK', Evolves, NEW t \in Threads, helpReadState(t)
  PROVE  ThreadOK(t)'
<1>1. TypeOK /\ ThreadOK(t) /\ pc[t] = "help" /\ depth[t] > 0
  BY DEF Inv1, helpReadState, ThreadOK, StackOK, HelpPcs
<1>2. PICK f \in Frame : f = Top(t) /\ f = frame[t][depth[t]]
  BY <1>1, TopFrame
<1>3. CASE ~ Alive(f.tag)
  <2>1. ~ InState(f.tag, "UNDECIDED")
    BY <1>3 DEF InState
  <2> QED
    <3>1. Return(t, FALSE) /\ UNCHANGED <<building, kdesc, rdesc, reg>>
      BY Zenon, <1>2, <1>3, <2>1 DEF helpReadState
    <3>2. pc[t] \in HelpPcs \ {"fill"}
      BY <1>1 DEF HelpPcs
    <3> QED
      BY Zenon, <3>1, <3>2, ReturnOK
<1>4. CASE Alive(f.tag) /\ InState(f.tag, "UNDECIDED")
  <2>1. /\ frame' = [frame EXCEPT ![t][depth[t]].state = "SUCCEEDED"]
        /\ Goto(t, LoopHead(f.entries, f.i))
        /\ UNCHANGED <<building, depth, kdesc, rdesc, reg>>
    BY <1>2, <1>4 DEF helpReadState
  <2>2. f.i \in Nat /\ Len(f.entries) \in Nat
    BY DEF Frame
  <2>3. pc'[t] = IF f.i > Len(f.entries) THEN "decide" ELSE "entry"
    BY <1>1, <2>1 DEF Goto, LoopHead, TypeOK
  <2>4. pc'[t] \in {"decide", "entry"}
    BY <2>3
  <2>5. frame' = [frame EXCEPT ![t] = [@ EXCEPT ![depth[t]] =
                     [Top(t) EXCEPT !.i = f.i, !.state = "SUCCEEDED"]]]
    <3>1. [Top(t) EXCEPT !.i = f.i, !.state = "SUCCEEDED"]
            = [Top(t) EXCEPT !.state = "SUCCEEDED"]
      BY Zenon, <1>2 DEF Frame
    <3> QED
      BY Zenon, <2>1, <3>1 DEF Top
  <2>6. f.i >= 1
    <3>1. depth[t] \in 1..depth[t]
      BY <1>1, DepthType
    <3> QED
      BY Zenon, <1>1, <1>2, <3>1 DEF ThreadOK, FrameOK
  <2>7. pc'[t] \in EntryPcs => f.i <= Len(Top(t).entries)
    BY <1>2, <2>2, <2>3 DEF EntryPcs, RdcssPcs
  <2>8. \A d \in 1..depth'[t] : FrameOK(t, d)'
    BY Zenon, <1>1, <2>1, <2>2, <2>5, <2>6, <2>7, TopChanges
  <2> QED
    BY <1>1, <2>1, <2>4, <2>8, HelpStepOK DEF HelpPcs
<1>5. CASE Alive(f.tag) /\ ~ InState(f.tag, "UNDECIDED")
  <2>1. pc'[t] = "phase2" /\ UNCHANGED <<building, frame, depth, kdesc, rdesc, reg>>
    BY <1>1, <1>2, <1>5 DEF helpReadState, Goto, TypeOK
  <2>2. \A d \in 1..depth'[t] : FrameOK(t, d)'
    BY <1>1, <2>1, FramesKept DEF EntryPcs, RdcssPcs
  <2> QED
    BY <1>1, <2>1, <2>2, HelpStepOK DEF HelpPcs
<1> QED
  BY <1>3, <1>4, <1>5

LEMMA RdcssNewOK ==
  ASSUME Inv1, TypeOK', Evolves, NEW t \in Threads, rdcssNew(t)
  PROVE  ThreadOK(t)'
<1>1. TypeOK /\ ThreadOK(t) /\ pc[t] = "entry" /\ pc'[t] = "fill" /\ depth[t] > 0
  BY DEF Inv1, rdcssNew, Goto, TypeOK, ThreadOK, StackOK, HelpPcs
<1>2. UNCHANGED <<building, kdesc, depth, frame, reg>>
  BY DEF rdcssNew
<1>3. rdesc'[t].seq = rdesc[t].seq + 1 /\ rdesc'[t].body = rdesc[t].body /\ rdesc[t].seq \in Nat
  BY <1>1, RdescType DEF rdcssNew, TypeOK, RdcssDesc
<1>4. \A d \in 1..depth'[t] : FrameOK(t, d)'
  BY <1>1, <1>2, FramesKept DEF EntryPcs, RdcssPcs
<1>5. StackOK(t)' /\ RegOK(t)'
  BY Zenon, <1>1, <1>2 DEF ThreadOK, StackOK, HelpPcs, RegOK, Finishing, RdcssPcs
<1>6. rdesc[t].seq > 2 => rdesc'[t].body \in Rdcss /\ KIssued(rdesc[t].body.ktag)'
  BY <1>1, <1>3, BodyKept DEF ThreadOK
<1>7. DescOK(t)'
  <2>1. DescOK(t) /\ kdesc' = kdesc /\ building' = building
    BY SMTT(30), <1>1, <1>2 DEF ThreadOK
  <2>2. rdesc'[t].seq > 1 /\ rdesc'[t].seq > 0
    BY SMTT(30), <1>3, <2>1 DEF DescOK
  <2>3. rdesc'[t].seq > 2 => rdesc[t].seq > 2
    BY <1>1, <1>3, <2>1 DEF DescOK
  <2>4. rdesc'[t].seq > 2 => rdesc'[t].body \in Rdcss /\ KIssued(rdesc[t].body.ktag)'
    BY <1>6, <2>3
  <2> QED
    BY Zenon, <1>1, <2>1, <2>2, <2>4 DEF DescOK, RdcssPcs
<1> QED
  BY <1>4, <1>5, <1>7 DEF ThreadOK

LEMMA RdcssInitializedOK ==
  ASSUME Inv1, TypeOK', Evolves, NEW t \in Threads, rdcssInitialized(t)
  PROVE  ThreadOK(t)'
<1>1. TypeOK /\ ThreadOK(t) /\ pc[t] = "fill" /\ pc'[t] = "rdcss" /\ depth[t] > 0
  BY Zenon DEF Inv1, rdcssInitialized, Goto, TypeOK, ThreadOK, StackOK, HelpPcs
<1>2. UNCHANGED <<building, kdesc, depth, frame, reg>>
  BY DEF rdcssInitialized
<1>3. /\ rdesc'[t].seq = rdesc[t].seq + 1 /\ rdesc[t].seq \in Nat
      /\ rdesc'[t].body = RdcssFor(t)
  BY Zenon, <1>1, RdescType DEF rdcssInitialized, TypeOK, RdcssFor
<1>4. \A d \in 1..depth'[t] : FrameOK(t, d)'
  BY Zenon, <1>1, <1>2, FramesKept DEF EntryPcs, RdcssPcs
<1>5. StackOK(t)' /\ RegOK(t)'
  BY ZenonT(30), <1>1, <1>2 DEF ThreadOK, StackOK, HelpPcs, RegOK, Finishing, RdcssPcs
<1>6. rdesc'[t].seq > 2
  <2>1. DescOK(t)
    BY Zenon, <1>1 DEF ThreadOK
  <2> QED
    BY <1>1, <1>3, <2>1 DEF DescOK
<1>7. PICK f \in Frame : f = Top(t) /\ f = frame[t][depth[t]]
  BY SMTT(30), <1>1, TopFrame
<1>8. KIssued(f.tag) /\ f.tag \in KcasTags /\ f.i \in 1..Len(f.entries)
  <2>1. depth[t] \in 1..depth[t] /\ depth[t] \in Nat
    BY SMTT(30), <1>1, DepthType
  <2>2. FrameOK(t, depth[t])
    BY <1>1, <2>1 DEF ThreadOK
  <2>3. f.i \in Nat /\ Len(f.entries) \in Nat
    BY DEF Frame
  <2> QED
    <3>1. f.i >= 1 /\ f.i <= Len(f.entries) /\ KIssued(f.tag)
      BY Zenon, <1>1, <1>7, <2>2 DEF FrameOK, CopyOK, AtEntry, EntryPcs
    <3> QED
      BY <2>3, <3>1 DEF KIssued
<1>9. f.entries[f.i] \in Entry
  BY <1>8 DEF Frame
<1>10. RdcssFor(t) \in Rdcss /\ RdcssFor(t).ktag = f.tag
  BY Zenon, <1>7, <1>8, <1>9 DEF RdcssFor, CurrentEntry, Rdcss, Entry
<1>11. KIssued(f.tag)'
  BY SMTT(30), <1>1, <1>8, KIssuedStays
<1>12. RdcssFor(t)' = RdcssFor(t)
  BY <1>2 DEF RdcssFor, CurrentEntry, Top
<1>13. DescOK(t)'
  <2>1. DescOK(t) /\ kdesc' = kdesc /\ building' = building
    BY <1>1, <1>2 DEF ThreadOK
  <2>2. rdesc'[t].body \in Rdcss /\ KIssued(rdesc[t].body.ktag)'
    BY Zenon, <1>3, <1>10, <1>11 DEF KIssued
  <2>3. rdesc'[t].seq # 2 /\ rdesc'[t].seq > 0
    BY <1>3, <1>6
  <2> QED
    BY Zenon, <1>1, <1>3, <1>6, <1>12, <2>1, <2>2, <2>3 DEF DescOK
<1> QED
  BY <1>4, <1>5, <1>13 DEF ThreadOK

LEMMA RdcssOK ==
  ASSUME Inv1, TypeOK', Evolves, NEW t \in Threads, rdcss(t)
  PROVE  ThreadOK(t)'
<1>1. TypeOK /\ ThreadOK(t) /\ pc[t] = "rdcss" /\ depth[t] > 0
  BY DEF Inv1, rdcss, ThreadOK, StackOK, HelpPcs
<1>2. UNCHANGED <<building, kdesc, rdesc, depth>>
  BY DEF rdcss
<1>3. PICK f \in Frame : f = Top(t) /\ f = frame[t][depth[t]]
  BY <1>1, TopFrame
<1>4. FrameOK(t, depth[t]) /\ depth[t] \in Nat /\ depth[t] \in 1..MaxDepth
  BY <1>1, DepthType, TopFrame DEF ThreadOK
<1>5. CurrentEntry(t) \in Entry
  <2>1. f.i \in Nat /\ Len(f.entries) \in Nat /\ f.i >= 1 /\ f.i <= Len(f.entries)
    BY <1>1, <1>3, <1>4 DEF FrameOK, AtEntry, EntryPcs, Frame
  <2> QED
    BY SMTT(30), <1>3, <2>1 DEF CurrentEntry, Frame
<1>6. PICK e \in Entry : e = CurrentEntry(t)
  BY <1>5
<1>7. PICK w \in Word : w = mem[e.addr] /\ e.addr \in Addrs
  BY <1>1 DEF TypeOK, Entry
<1>8. DescOK(t) /\ rdesc[t].seq > 2 /\ rdesc[t].seq \in Nat
  BY Zenon, <1>1, RdescType DEF ThreadOK, DescOK
<1>8a. f.tag.kind = "kcas" /\ Val(e.old).kind = "val"
  BY Zenon, <1>3, <1>4 DEF FrameOK, CopyOK, KIssued, KcasTags, Val
<1>9. ASSUME pc'[t] \in RdcssPcs, RegOK(t)', frame' = frame, reg'[t].addr = reg[t].addr
      PROVE  ThreadOK(t)'
  <2>1. \A d \in 1..depth'[t] : FrameOK(t, d)'
    BY Zenon, <1>1, <1>2, <1>9, FramesKept DEF EntryPcs, RdcssPcs
  <2>2. StackOK(t)'
    BY <1>1, <1>2, <1>9 DEF ThreadOK, StackOK, HelpPcs, RdcssPcs
  <2>3. DescOK(t)'
    BY Zenon, <1>1, <1>2, <1>8, <1>9, DescRdcssKept DEF RdcssPcs
  <2> QED
    BY <1>9, <2>1, <2>2, <2>3 DEF ThreadOK
<1>10. CASE w = Val(e.old)
  <2>0. ~ isRdcss(w) /\ ~ isKcas(w) /\ w # f.tag
    BY <1>10, <1>8a DEF isRdcss, isKcas
  <2>1. /\ reg' = [reg EXCEPT ![t].tag = RdcssTag(t, rdesc[t].seq), ![t].copy = rdesc[t].body]
        /\ pc' = [pc EXCEPT ![t] = "rdcss_state"] /\ frame' = frame
    BY <1>3, <1>6, <1>7, <1>10, <2>0 DEF rdcss, Goto
  <2>2. /\ pc'[t] = "rdcss_state" /\ reg'[t].tag = RdcssTag(t, rdesc[t].seq)
        /\ reg'[t].copy = rdesc[t].body /\ reg'[t].addr = reg[t].addr
    BY SMTT(30), <1>1, <2>1 DEF TypeOK, Reg
  <2>3. RIssued(RdcssTag(t, rdesc[t].seq))'
    BY SMTT(30), <1>2, <1>8 DEF RIssued, RdcssTag, RdcssTags
  <2>4. PICK c \in Rdcss : c = rdesc[t].body /\ KIssued(c.ktag)
    BY <1>8 DEF DescOK
  <2>5. KIssued(c.ktag)'
    BY <1>1, <2>4, KIssuedStays
  <2>6. RegOK(t)'
    <3>1. RIssued(reg[t].tag)'
      BY Zenon, <1>2, <2>2, <2>3 DEF RIssued, RdcssTag
    <3>2. reg'[t].copy \in Rdcss /\ KIssued(reg[t].copy.ktag)'
      BY Zenon, <2>2, <2>4, <2>5 DEF KIssued
    <3>3. reg'[t].tag = RdcssTag(t, rdesc'[t].seq) /\ reg'[t].copy = rdesc'[t].body
      BY <1>2, <2>2
    <3>4. reg'[t].tag.tid = t
      BY <3>3 DEF RdcssTag
    <3> QED
      <4>1. depth'[t] > 0 /\ pc'[t] = "rdcss_state"
        BY Zenon, <1>1, <1>2, <2>2
      <4>2. reg'[t].copy = rdesc'[reg'[t].tag.tid].body
        BY <3>3, <3>4
      <4> QED
        BY Zenon, <3>1, <3>2, <3>3, <4>1, <4>2 DEF RegOK, Finishing, RdcssPcs
  <2> QED
    BY <1>9, <2>1, <2>2, <2>6 DEF RdcssPcs
<1>11. CASE isRdcss(w)
  <2>0. w # Val(e.old) /\ ~ isKcas(w) /\ w # f.tag
    BY <1>11, <1>8a DEF isRdcss, isKcas
  <2>1. reg' = [reg EXCEPT ![t].tag = w, ![t].helping = TRUE]
          /\ pc' = [pc EXCEPT ![t] = "copy_rdcss"] /\ frame' = frame
    BY <1>3, <1>6, <1>7, <1>11, <2>0 DEF rdcss, Goto
  <2>2. /\ pc'[t] = "copy_rdcss" /\ reg'[t].tag = w /\ reg'[t].helping
        /\ reg'[t].addr = reg[t].addr
    BY SMTT(30), <1>1, <2>1 DEF TypeOK, Reg
  <2>3. RIssued(w)
    BY <1>7, <1>11 DEF Inv1, WordsOK
  <2>4. RIssued(w)'
    BY <1>1, <2>3, RIssuedStays
  <2>5. RegOK(t)'
    BY Zenon, <2>2, <2>4 DEF RegOK, Finishing, RdcssPcs, RIssued
  <2> QED
    BY <1>9, <2>1, <2>2, <2>5 DEF RdcssPcs
<1>12. CASE isKcas(w) /\ w # f.tag
  <2>1. reg' = [reg EXCEPT ![t].tag = w]
          /\ pc' = [pc EXCEPT ![t] = "copy_kcas"] /\ frame' = frame
    BY <1>3, <1>6, <1>7, <1>12 DEF rdcss, Goto, isRdcss, isKcas, Val
  <2>2. pc'[t] = "copy_kcas" /\ reg'[t].tag = w /\ reg'[t].addr = reg[t].addr
    BY <1>1, <2>1 DEF TypeOK, Reg
  <2>3. KIssued(w)
    BY SMTT(30), <1>7, <1>12 DEF Inv1, WordsOK
  <2>4. KIssued(w)'
    BY <1>1, <2>3, KIssuedStays
  <2>5. RegOK(t)'
    BY Zenon, <2>2, <2>4 DEF RegOK, Finishing, RdcssPcs, KIssued
  <2>6. \A d \in 1..depth'[t] : FrameOK(t, d)'
    BY SMTT(30), <1>1, <1>2, <2>1, <2>2, FramesKept DEF EntryPcs, RdcssPcs
  <2>7. StackOK(t)'
    BY <1>1, <1>2, <2>2 DEF ThreadOK, StackOK, HelpPcs
  <2>8. DescOK(t)'
    BY Zenon, <1>1, <1>2, <1>8, <2>2, DescKept DEF RdcssPcs
  <2> QED
    BY <2>5, <2>6, <2>7, <2>8 DEF ThreadOK
<1>13. CASE w = f.tag
  <2>0. w # Val(e.old) /\ ~ isRdcss(w)
    BY SMTT(30), <1>13, <1>8a DEF isRdcss
  <2>1. NextEntry(t) /\ reg' = reg
    <3>1. isKcas(w)
      BY <1>13, <1>8a DEF isKcas
    <3> QED
      BY <1>3, <1>6, <1>7, <1>13, <2>0, <3>1 DEF rdcss
  <2> QED
    BY Zenon, <1>1, <1>2, <2>1, NextEntryOK
<1>14. CASE ~ isRdcss(w) /\ ~ isKcas(w) /\ w # Val(e.old)
  <2>1. /\ frame' = [frame EXCEPT ![t][depth[t]].state = "FAILED"]
        /\ pc' = [pc EXCEPT ![t] = "decide"] /\ reg' = reg
    BY Zenon, <1>3, <1>4, <1>6, <1>7, <1>14
       DEF rdcss, Goto, isRdcss, isKcas, Val, FrameOK, CopyOK, KIssued, KcasTags
  <2>2. pc'[t] = "decide"
    BY <1>1, <2>1 DEF TypeOK
  <2>3. frame' = [frame EXCEPT ![t] = [@ EXCEPT ![depth[t]] =
                     [Top(t) EXCEPT !.i = f.i, !.state = "FAILED"]]]
    <3>1. [Top(t) EXCEPT !.i = f.i, !.state = "FAILED"]
            = [Top(t) EXCEPT !.state = "FAILED"]
      BY Zenon, <1>3 DEF Frame
    <3> QED
      BY Zenon, <2>1, <3>1 DEF Top
  <2>4. f.i \in Nat /\ f.i >= 1
    BY Zenon, <1>3, <1>4 DEF FrameOK, Frame
  <2>5. \A d \in 1..depth'[t] : FrameOK(t, d)'
    BY Zenon, <1>1, <1>2, <2>1, <2>2, <2>3, <2>4, TopChanges DEF EntryPcs, RdcssPcs
  <2> QED
    BY <1>1, <1>2, <2>1, <2>2, <2>5, HelpStepOK DEF HelpPcs
<1> QED
  BY <1>10, <1>11, <1>12, <1>13, <1>14

LEMMA DecideOK ==
  ASSUME Inv1, TypeOK', Evolves, NEW t \in Threads, decide(t)
  PROVE  ThreadOK(t)'
<1>1. TypeOK /\ ThreadOK(t) /\ pc[t] = "decide" /\ pc'[t] = "phase2"
  BY DEF Inv1, decide, Goto, TypeOK
<1>2. UNCHANGED <<building, rdesc, depth, frame, reg>>
  BY SMTT(30) DEF decide
<1>3. kdesc'[t].seq = kdesc[t].seq /\ kdesc'[t].entries = kdesc[t].entries
  BY SMTT(30), <1>1 DEF decide, TypeOK
<1>4. \A d \in 1..depth'[t] : FrameOK(t, d)'
  BY <1>1, <1>2, FramesKept DEF EntryPcs, RdcssPcs
<1> QED
  BY Zenon, <1>1, <1>2, <1>3, <1>4, HelpStepOK DEF HelpPcs

LEMMA Phase2OK ==
  ASSUME Inv1, TypeOK', Evolves, NEW t \in Threads, phase2(t)
  PROVE  ThreadOK(t)'
<1>1. TypeOK /\ ThreadOK(t) /\ pc[t] = "phase2" /\ depth[t] > 0
  BY DEF Inv1, phase2, ThreadOK, StackOK, HelpPcs
<1>2. UNCHANGED <<building, kdesc, rdesc, reg>> /\ pc[t] \in HelpPcs \ {"fill"}
  BY <1>1 DEF phase2, HelpPcs
<1>3. CASE ~ Alive(Top(t).tag)
  <2>1. Return(t, FALSE)
    BY Zenon, <1>3 DEF phase2
  <2> QED
    BY Zenon, <1>2, <2>1, ReturnOK
<1>4. CASE Alive(Top(t).tag)
  <2>1. PICK st : st = kdesc[Top(t).tag.tid].state
    OBVIOUS
  <2>2. /\ frame' = [frame EXCEPT ![t] = [@ EXCEPT ![depth[t]] =
                        [Top(t) EXCEPT !.i = 1, !.state = st]]]
        /\ pc'[t] = "unlock" /\ depth' = depth
    BY <1>1, <1>4, <2>1 DEF phase2, Goto, TypeOK
  <2>3. 1 <= Len(Top(t).entries)
    <3>1. depth[t] \in 1..depth[t]
      BY <1>1, DepthType
    <3>2. FrameOK(t, depth[t])
      BY <1>1, <3>1 DEF ThreadOK
    <3>3. Top(t).entries # <<>> /\ Top(t).entries \in Seq(Entry)
      BY Zenon, <1>1, <3>2, TopFrame DEF FrameOK, Checked, Frame
    <3> QED
      BY <3>3
  <2>4. \A d \in 1..depth'[t] : FrameOK(t, d)'
    <3>1. PICK n \in Nat : n = 1 /\ n >= 1
      OBVIOUS
    <3>2. /\ frame' = [frame EXCEPT ![t] = [@ EXCEPT ![depth[t]] =
                          [Top(t) EXCEPT !.i = n, !.state = st]]]
          /\ n <= Len(Top(t).entries)
      BY <2>2, <2>3, <3>1
    <3>3. depth'[t] = depth[t] /\ reg'[t].addr = reg[t].addr /\ pc[t] # "check_kcas"
      BY <1>1, <1>2, <2>2
    <3> QED
      BY Zenon, <1>1, <3>1, <3>2, <3>3, TopChanges
  <2> QED
    BY <1>2, <2>2, <2>4, HelpStepOK
<1> QED
  BY <1>3, <1>4

LEMMA UnlockOK ==
  ASSUME Inv1, TypeOK', Evolves, NEW t \in Threads, unlock(t)
  PROVE  ThreadOK(t)'
<1>1. TypeOK /\ ThreadOK(t) /\ pc[t] = "unlock" /\ depth[t] > 0
  BY DEF Inv1, unlock, ThreadOK, StackOK, HelpPcs
<1>2. UNCHANGED <<building, kdesc, rdesc, reg>> /\ pc[t] \in HelpPcs \ {"fill"}
  BY <1>1 DEF unlock, HelpPcs
<1>3. Top(t) \in Frame /\ Top(t).i \in Nat /\ Len(Top(t).entries) \in Nat
  BY <1>1, TopFrame DEF Frame
<1>4. CASE Top(t).i < Len(Top(t).entries)
  <2>1. /\ frame' = [frame EXCEPT ![t][depth[t]].i = @ + 1]
        /\ UNCHANGED <<pc, depth>>
    BY <1>4 DEF unlock
  <2>2. frame' = [frame EXCEPT ![t] = [@ EXCEPT ![depth[t]] =
                     [Top(t) EXCEPT !.i = Top(t).i + 1, !.state = Top(t).state]]]
    <3>1. [Top(t) EXCEPT !.i = Top(t).i + 1, !.state = Top(t).state]
            = [Top(t) EXCEPT !.i = @ + 1]
      BY Zenon, <1>3 DEF Frame
    <3> QED
      BY Zenon, <2>1, <3>1 DEF Top
  <2>3. Top(t).i + 1 \in Nat /\ Top(t).i + 1 >= 1 /\ Top(t).i + 1 <= Len(Top(t).entries)
    BY <1>3, <1>4
  <2>4. \A d \in 1..depth'[t] : FrameOK(t, d)'
    BY Zenon, <1>1, <1>2, <2>1, <2>2, <2>3, TopChanges
  <2> QED
    BY <1>1, <1>2, <2>1, <2>4, HelpStepOK
<1>5. CASE ~ (Top(t).i < Len(Top(t).entries))
  <2>1. \E b : Return(t, b)
    BY <1>5 DEF unlock
  <2> QED
    BY <1>2, <2>1, ReturnOK
<1> QED
  BY <1>4, <1>5

-----------------------------------------------------------------------------
(* A word that a step writes holds a plain value, or a tag that was issued *)
(* before.                                                                 *)
LEMMA WordsStep == Inv1 /\ TypeOK' /\ Evolves /\ [Next]_vars => WordsOK'
<1> SUFFICES ASSUME Inv1, TypeOK', Evolves, [Next]_vars PROVE WordsOK'
  OBVIOUS
<1>1. TypeOK /\ WordsOK
  BY DEF Inv1
<1> DEFINE Ok(w) == /\ isKcas(w) => KIssued(w)
                    /\ isRdcss(w) => RIssued(w)
<1>2. ASSUME NEW a \in Addrs, NEW w, Ok(w), mem' = [mem EXCEPT ![a] = w] \/ mem' = mem
      PROVE  WordsOK'
  <2> SUFFICES ASSUME NEW b \in Addrs PROVE Ok(mem[b])'
    BY DEF WordsOK
  <2>1. PICK v : v = mem'[b]
    OBVIOUS
  <2>2. Ok(v)
    BY Zenon, <1>1, <1>2, <2>1 DEF WordsOK, TypeOK
  <2>3. isKcas(v) => KIssued(v)'
    BY <1>1, <2>2, KIssuedStays
  <2>4. isRdcss(v) => RIssued(v)'
    BY <1>1, <2>2, RIssuedStays
  <2> QED
    BY <2>1, <2>3, <2>4 DEF KIssued, RIssued, isKcas, isRdcss
<1>3. CASE mem' = mem
  <2>1. ASSUME NEW b \in Addrs PROVE Ok(mem[b])'
    <3>1. PICK v : v = mem'[b] /\ v = mem[b]
      BY SMTT(30), <1>3
    <3>2. isKcas(v) => KIssued(v)'
      BY <1>1, <3>1, KIssuedStays DEF WordsOK
    <3>3. isRdcss(v) => RIssued(v)'
      BY SMTT(30), <1>1, <3>1, RIssuedStays DEF WordsOK
    <3> QED
      BY <3>1, <3>2, <3>3 DEF KIssued, RIssued, isKcas, isRdcss
  <2> QED
    BY SMTT(30), <2>1 DEF WordsOK
<1>4. ASSUME NEW t \in Threads, rdcssHelp(t) PROVE WordsOK'
  <2>1. PICK c \in Rdcss : c = reg[t].copy /\ KIssued(c.ktag)
    BY Zenon, <1>4 DEF Inv1, ThreadOK, RegOK, rdcssHelp
  <2>2. PICK w : w = IF reg[t].ok THEN c.ktag ELSE Val(c.old)
    OBVIOUS
  <2>3. Ok(w)
    BY ZenonT(30), <2>1, <2>2 DEF KIssued, KcasTags, Val, isKcas, isRdcss
  <2>4. c.addr \in Addrs /\ (mem' = [mem EXCEPT ![c.addr] = w] \/ mem' = mem)
    BY Zenon, <1>4, <2>1, <2>2 DEF rdcssHelp, BoolCas, Rdcss
  <2> QED
    BY <1>2, <2>3, <2>4
<1>5. ASSUME NEW t \in Threads, rdcss(t) PROVE WordsOK'
  <2>1. CurrentEntry(t).addr \in Addrs
    BY <1>5, AtCurrentEntry DEF Inv1, ThreadOK, StackOK, rdcss, HelpPcs, EntryPcs
  <2>2. PICK w : w = RdcssTag(t, rdesc[t].seq)
    OBVIOUS
  <2>3. rdesc[t].seq > 2 /\ rdesc[t].seq \in Nat
    BY SMTT(30), <1>1, <1>5, RdescType DEF Inv1, ThreadOK, DescOK, rdcss
  <2>4. Ok(w)
    BY <2>2, <2>3 DEF RIssued, RdcssTag, RdcssTags, isKcas, isRdcss
  <2>5. mem' = [mem EXCEPT ![CurrentEntry(t).addr] = w] \/ mem' = mem
    BY SMTT(30), <1>5, <2>2 DEF rdcss
  <2> QED
    BY SMTT(30), <1>2, <2>1, <2>4, <2>5
<1>6. ASSUME NEW t \in Threads, unlock(t) PROVE WordsOK'
  <2>1. CurrentEntry(t).addr \in Addrs
    BY <1>6, AtCurrentEntry DEF Inv1, ThreadOK, StackOK, unlock, HelpPcs, EntryPcs
  <2>2. PICK v : v = IF Top(t).state = "SUCCEEDED" THEN CurrentEntry(t).new
                     ELSE CurrentEntry(t).old
    OBVIOUS
  <2>3. Ok(Val(v))
    BY DEF Val, isKcas, isRdcss
  <2>4. mem' = [mem EXCEPT ![CurrentEntry(t).addr] = Val(v)] \/ mem' = mem
    BY <1>6, <2>2 DEF unlock, BoolCas
  <2> QED
    BY <1>2, <2>1, <2>3, <2>4
<1> QED
  BY ZenonT(30), <1>3, <1>4, <1>5, <1>6 DEF Next, Step, start, add, execute, readPtr, rdcssRead,
     rdcssCopy, rdcssCheck, rdcssReadState, kcasCopy, kcasCheck, helpReadState, rdcssNew,
     rdcssInitialized, decide, phase2, vars

-----------------------------------------------------------------------------
LEMMA Inv1Step == Inv1 /\ TypeOK' /\ Evolves /\ [Next]_vars => Inv1'
<1> SUFFICES ASSUME Inv1, TypeOK', Evolves, [Next]_vars PROVE Inv1'
  OBVIOUS
<1>1. WordsOK'
  BY WordsStep
<1>2. CASE UNCHANGED vars
  BY <1>1, <1>2, ThreadKept DEF Inv1, vars
<1>3. ASSUME NEW t \in Threads,
             \/ start(t) \/ add(t) \/ execute(t) \/ Step(t)
             \/ \E a \in ReadsOf[t] : readPtr(t, a)
      PROVE  Inv1'
  <2>1. ASSUME NEW u \in Threads, u # t PROVE ThreadOK(u)'
    BY ZenonT(30), <1>3, <2>1, OthersKept, ThreadKept DEF Inv1
  <2>2. ThreadOK(t)'
    BY ZenonT(30), <1>3, StartOK, AddOK, ExecuteOK, ReadPtrOK, RdcssReadOK, RdcssCopyOK,
       RdcssCheckOK, RdcssReadStateOK, RdcssHelpOK, KcasCopyOK, KcasCheckOK,
       HelpReadStateOK, RdcssNewOK, RdcssInitializedOK, RdcssOK, DecideOK, Phase2OK,
       UnlockOK DEF Step
  <2> QED
    BY <1>1, <2>1, <2>2 DEF Inv1
<1> QED
  BY <1>2, <1>3 DEF Next

LEMMA Inv1Init == Init => Inv1
<1> SUFFICES ASSUME Init PROVE Inv1
  OBVIOUS
<1>1. TypeOK
  <2>1. mem \in [Addrs -> Word]
    BY DEF Init, Word
  <2>2. kdesc \in [Threads -> KcasDesc] /\ building \subseteq Threads
    BY DEF Init, States, KcasDesc
  <2>3. rdesc \in [Threads -> RdcssDesc]
    BY DEF Init, RdcssDesc
  <2>4. pc \in [Threads -> Pcs] /\ depth \in [Threads -> 0..MaxDepth]
    BY ConstantsAssumption DEF Init, Pcs
  <2>5. NoFrame \in Frame
    BY DEF NoFrame, Frame, States
  <2>6. frame \in [Threads -> [1..MaxDepth -> Frame]]
    BY <2>5 DEF Init
  <2>7. reg \in [Threads -> Reg]
    BY DEF Init, NoReg, Reg
  <2>8. ret \in [Threads -> Result]
    BY DEF Init, Result, Swapped
  <2> QED
    BY SMTT(30), <2>1, <2>2, <2>3, <2>4, <2>6, <2>7, <2>8 DEF TypeOK
<1>2. WordsOK
  BY DEF Init, WordsOK, Plain, isKcas, isRdcss
<1>3. ASSUME NEW t \in Threads PROVE ThreadOK(t)
  <2>1. pc[t] = "idle" /\ depth[t] = 0 /\ reg[t] = NoReg /\ kdesc[t].seq = 1
          /\ rdesc[t].seq = 1 /\ t \notin building
    BY DEF Init
  <2>2. StackOK(t)
    BY <2>1 DEF StackOK, HelpPcs, NoReg
  <2>3. RegOK(t)
    BY Zenon, <2>1 DEF RegOK, Finishing, RdcssPcs
  <2>4. DescOK(t)
    BY <2>1 DEF DescOK, RdcssPcs
  <2> QED
    BY <2>1, <2>2, <2>3, <2>4 DEF ThreadOK
<1> QED
  BY <1>1, <1>2, <1>3 DEF Inv1

(* A copy that passed the check of DESC_SNAPSHOT is sound.                 *)
LEMMA SnapshotKnown == Inv1 => SnapshotSound
<1> SUFFICES ASSUME Inv1, NEW t \in Threads, NEW d \in 1..depth[t],
                    d = depth[t] => pc[t] # "check_kcas"
             PROVE  /\ frame[t][d].seq = frame[t][d].tag.seq
                    /\ Alive(frame[t][d].tag) =>
                         frame[t][d].entries = kdesc[frame[t][d].tag.tid].entries
  BY Zenon DEF SnapshotSound
<1>1. FrameOK(t, d) /\ depth[t] \in Nat
  BY DepthType DEF Inv1, ThreadOK
<1>2. Checked(frame[t][d])
  BY <1>1 DEF FrameOK
<1> QED
  BY Zenon, <1>1, <1>2 DEF FrameOK, Checked, CopyOK
=============================================================================
