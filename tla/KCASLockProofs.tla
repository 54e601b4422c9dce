--------------------------- MODULE KCASLockProofs ---------------------------
(***************************************************************************)
(* A step of KCAS keeps the types, does to a descriptor only what Evolves  *)
(* says, and keeps Inv2 and Inv3: phase 1 of help locks the words of a     *)
(* request for good.                                                       *)
(***************************************************************************)
EXTENDS KCASInvariants

-----------------------------------------------------------------------------
(* The thread that takes the step.                                         *)

LEMMA LowerLocks ==
  ASSUME Inv1, TypeOK', Evolves, Inv3, NEW t \in Threads, Acts(t), NEW d \in 1..depth[t],
         d < depth[t], d < depth'[t] \/ (d = depth'[t] /\ pc'[t] = "entry"),
         frame'[t][d] = frame[t][d]
  PROVE  LockOK(frame[t][d], Stage(t, d))'
<1>1. Stage(t, d) = "loop" /\ Stage(t, d)' = "loop"
  BY DEF Stage
<1> QED
  BY <1>1, FrameLocksKept

LEMMA StackLocks ==
  ASSUME Inv1, TypeOK', Evolves, Inv3, NEW t \in Threads, Acts(t), frame'[t] = frame[t],
         depth'[t] = depth[t], depth[t] > 0 => Stage(t, depth[t])' = Stage(t, depth[t])
  PROVE  \A d \in 1..depth'[t] : LockOK(frame[t][d], Stage(t, d))'
<1> SUFFICES ASSUME NEW d \in 1..depth'[t] PROVE LockOK(frame[t][d], Stage(t, d))'
  OBVIOUS
<1>1. depth[t] \in Nat /\ d \in 1..depth[t] /\ depth[t] > 0
  BY DepthType DEF Inv1
<1>2. CASE d = depth[t]
  <2>1. PICK s : s = Stage(t, depth[t]) /\ s = Stage(t, depth[t])'
    BY <1>1
  <2>2. s = Stage(t, d)
    BY <1>2, <2>1
  <2>3. s = Stage(t, d)'
    BY <1>2, <2>1 DEF Stage
  <2> QED
    BY Zenon, <1>1, <2>2, <2>3, FrameLocksKept
<1>3. CASE d < depth[t]
  BY <1>1, <1>3, LowerLocks
<1> QED
  BY <1>1, <1>2, <1>3

LEMMA TopLocks ==
  ASSUME Inv1, TypeOK', Evolves, Inv3, NEW t \in Threads, Acts(t), depth[t] > 0,
         depth'[t] = depth[t], NEW g,
         frame' = [frame EXCEPT ![t] = [@ EXCEPT ![depth[t]] = g]],
         NEW s, Stage(t, depth[t])' = s, LockOK(g, s)'
  PROVE  \A d \in 1..depth'[t] : LockOK(frame[t][d], Stage(t, d))'
<1> SUFFICES ASSUME NEW d \in 1..depth'[t] PROVE LockOK(frame[t][d], Stage(t, d))'
  OBVIOUS
<1>1. depth[t] \in Nat /\ d \in 1..depth[t] /\ depth[t] \in 1..MaxDepth /\ d \in 1..MaxDepth
  BY DepthType DEF Inv1
<1>2. CASE d = depth[t]
  <2>1. frame'[t][d] = g
    BY <1>1, <1>2 DEF Inv1, TypeOK
  <2>2. Stage(t, d)' = s
    BY <1>1, <1>2 DEF Stage
  <2> QED
    BY Zenon, <2>1, <2>2 DEF LockOK, FirstLocked, Undecided, FirstAddr, InState, Alive
<1>3. CASE d < depth[t]
  <2>1. frame'[t][d] = frame[t][d]
    BY SMTT(30), <1>1, <1>3 DEF Inv1, TypeOK
  <2> QED
    BY SMTT(30), <1>1, <1>3, <2>1, LowerLocks
<1> QED
  BY <1>1, <1>2, <1>3

LEMMA QuietLocks ==
  ASSUME NEW t, pc'[t] \notin {"rdcss_state", "rdcss_finish", "copy_kcas"},
         \A d \in 1..depth'[t] : LockOK(frame[t][d], Stage(t, d))'
  PROVE  LocksOK(t)'
BY DEF LocksOK, FinishOK, Finishing

LEMMA ReturnLocks ==
  ASSUME Inv1, TypeOK', Evolves, Inv3, NEW t \in Threads, Acts(t), NEW b, depth[t] > 0,
         Return(t, b)
  PROVE  LocksOK(t)'
<1>1. TypeOK /\ depth[t] \in Nat /\ MaxDepth \in Nat /\ depth[t] <= MaxDepth
  BY DepthType DEF Inv1
<1>2. depth'[t] = depth[t] - 1
  BY <1>1 DEF Return, TypeOK
<1>3. pc'[t] \in {"entry", "read", "idle"} /\ (depth[t] > 1 => pc'[t] = "entry")
  BY <1>1 DEF Return, Goto, TypeOK
<1>4. ASSUME NEW d \in 1..depth'[t] PROVE LockOK(frame[t][d], Stage(t, d))'
  <2>1. /\ d \in 1..depth[t] /\ d < depth[t] /\ d \in 1..MaxDepth /\ depth[t] > 1
        /\ depth[t] \in 1..MaxDepth /\ d # depth[t]
        /\ d < depth'[t] \/ d = depth'[t]
    BY <1>1, <1>2
  <2>2. frame'[t][d] = frame[t][d]
    BY <1>1, <2>1 DEF Return, TypeOK
  <2> QED
    BY <1>3, <2>1, <2>2, LowerLocks
<1> QED
  BY <1>3, <1>4, QuietLocks

(* The word of the current entry is locked: on to the next.                *)
LEMMA NextEntryLocks ==
  ASSUME Inv1, TypeOK', Evolves, Inv3, NEW t \in Threads, Acts(t), depth[t] > 0,
         pc[t] \in {"rdcss", "rdcss_finish"}, NextEntry(t), depth'[t] = depth[t],
         NEW k, k = Top(t).tag, Undecided(k)' => mem'[CurrentEntry(t).addr] = k
  PROVE  LocksOK(t)'
<1>1. TypeOK
  BY DEF Inv1
<1>2. PICK f \in Frame : /\ f = Top(t) /\ f = frame[t][depth[t]]
                         /\ KIssued(f.tag) /\ LockOK(f, "loop")
                         /\ f.i >= 1 /\ f.i <= Len(f.entries)
  BY SMTT(30), TopAtEntry
<1>3. KIssued(f.tag) /\ LockOK(f, "loop") /\ f.i >= 1 /\ f.i <= Len(f.entries)
  BY <1>2
<1>4. f.i \in Nat /\ Len(f.entries) \in Nat
  BY DEF Frame
<1>5. PICK g : g = [f EXCEPT !.i = @ + 1]
  BY Zenon
<1>6. /\ g.i = f.i + 1 /\ g.tag = f.tag /\ g.entries = f.entries /\ g.state = f.state
      /\ g.helping = f.helping
  BY <1>5 DEF Frame
<1>7. frame' = [frame EXCEPT ![t] = [@ EXCEPT ![depth[t]] = g]]
  BY Zenon, <1>2, <1>5 DEF NextEntry
<1>8. PICK s : s = Stage(t, depth[t])'
  OBVIOUS
<1>9. pc'[t] = IF f.i + 1 > Len(f.entries) THEN "decide" ELSE "entry"
  BY <1>1, <1>2 DEF NextEntry, Goto, LoopHead, TypeOK
<1>10. s = IF f.i + 1 > Len(f.entries) THEN "decide" ELSE "loop"
  <2>1. ~ (depth[t] < depth[t])
    BY TopKnown
  <2> QED
    BY SMTT(30), <1>8, <1>9, <2>1 DEF Stage
<1>11. ASSUME Undecided(f.tag)'
       PROVE  \A j \in 1..(g.i - 1) : mem'[f.entries[j].addr] = f.tag
  <2>1. Undecided(f.tag)
    BY <1>1, <1>3, <1>11, UndecidedBefore
  <2>2. PICK n \in Int : n = f.i - 1 /\ n <= Len(f.entries)
    BY <1>3, <1>4
  <2>3. \A j \in 1..n : mem[f.entries[j].addr] = f.tag
    BY Zenon, <1>3, <2>1, <2>2 DEF LockOK
  <2>4. \A j \in 1..n : mem'[f.entries[j].addr] = f.tag
    BY <1>3, <1>11, <2>2, <2>3, PrefixStays
  <2>5. mem'[f.entries[f.i].addr] = f.tag
    <3>1. f.tag = k
      BY <1>2
    <3>2. Undecided(k)'
      BY <1>11, <3>1
    <3> QED
      BY Zenon, <1>2, <3>1, <3>2 DEF CurrentEntry
  <2>6. \A j \in 1..(g.i - 1) : j \in 1..n \/ j = f.i
    BY SMTT(30), <1>4, <1>6, <2>2
  <2> QED
    BY <2>4, <2>5, <2>6
<1>12. f.helping => FirstLocked(f.tag)'
  BY SMTT(30), <1>3, FirstLockedStays DEF LockOK
<1>13. LockOK(g, s)'
  <2>1. s \in {"loop", "decide"} /\ f.state = "SUCCEEDED"
    BY <1>3, <1>10 DEF LockOK
  <2>2. s = "decide" => g.i = Len(f.entries) + 1
    BY <1>3, <1>4, <1>6, <1>10
  <2> QED
    BY Zenon, <1>6, <1>11, <1>12, <2>1, <2>2
       DEF LockOK, FirstLocked, Undecided, FirstAddr, InState, Alive
<1>14. \A d \in 1..depth'[t] : LockOK(frame[t][d], Stage(t, d))'
  BY Zenon, <1>7, <1>8, <1>13, TopLocks
<1>15. pc'[t] \in {"decide", "entry"}
  BY SMTT(30), <1>9
<1> QED
  BY <1>14, <1>15, QuietLocks

LEMMA FoundLocks ==
  ASSUME Inv1, TypeOK', Evolves, Inv3, NEW t \in Threads, Acts(t), NEW a \in Addrs,
         isKcas(mem[a]), reg'[t].tag = mem[a]
  PROVE  FirstLocked(reg[t].tag)'
<1>1. PICK k : k = mem[a] /\ KIssued(k) /\ FirstLocked(k)
  BY DEF Inv1, WordsOK, Inv3, WordsLocked
<1>2. FirstLocked(k)'
  BY SMTT(30), <1>1, FirstLockedStays
<1> QED
  BY Zenon, <1>1, <1>2 DEF FirstLocked, Undecided, FirstAddr, InState, Alive

LEMMA FlatLocks ==
  ASSUME Inv1, TypeOK', Evolves, Inv3, NEW t \in Threads, Acts(t),
         \/ start(t) \/ add(t) \/ rdcssRead(t) \/ \E a \in ReadsOf[t] : readPtr(t, a)
  PROVE  LocksOK(t)'
<1>1. TypeOK /\ ThreadOK(t)
  BY DEF Inv1
<1>2. pc[t] \in {"idle", "read"} /\ depth' = depth
  BY Zenon DEF start, add, rdcssRead, readPtr
<1>3. depth'[t] = 0
  BY <1>1, <1>2 DEF ThreadOK, StackOK
<1>4. \A d \in 1..depth'[t] : LockOK(frame[t][d], Stage(t, d))'
  BY <1>3
<1>5. CASE start(t)
  BY Zenon, <1>1, <1>4, <1>5, QuietLocks DEF start, Goto, TypeOK
<1>6. CASE add(t)
  BY <1>1, <1>4, <1>6, QuietLocks DEF add
<1>7. CASE \E a \in ReadsOf[t] : readPtr(t, a)
  BY SMTT(30), <1>1, <1>4, <1>7, QuietLocks DEF readPtr, Goto, TypeOK
<1>8. CASE rdcssRead(t)
  <2>1. pc'[t] \in {"copy_rdcss", "copy_kcas", "idle"}
    BY SMTT(30), <1>1, <1>8 DEF rdcssRead, Goto, TypeOK
  <2>2. CASE pc'[t] = "copy_kcas"
    <3>1. isKcas(mem[reg[t].addr]) /\ reg' = [reg EXCEPT ![t].tag = mem[reg[t].addr]]
      BY Zenon, <1>1, <1>8, <2>2 DEF rdcssRead, Goto, TypeOK
    <3>2. reg[t].addr \in Addrs
      BY <1>1, <1>2, <1>3, <1>8 DEF ThreadOK, StackOK, rdcssRead
    <3>3. reg'[t].tag = mem[reg[t].addr]
      BY <1>1, <3>1 DEF TypeOK, Reg
    <3>4. FirstLocked(reg[t].tag)'
      BY <3>1, <3>2, <3>3, FoundLocks
    <3> QED
      BY <1>4, <2>2, <3>4 DEF LocksOK, FinishOK, Finishing
  <2>3. CASE pc'[t] # "copy_kcas"
    BY <1>4, <2>1, <2>3, QuietLocks
  <2> QED
    BY Zenon, <2>2, <2>3
<1> QED
  BY SMTT(30), <1>5, <1>6, <1>7, <1>8

LEMMA ExecuteLocks ==
  ASSUME Inv1, TypeOK', Evolves, Inv3, NEW t \in Threads, execute(t)
  PROVE  LocksOK(t)'
<1>1. TypeOK /\ depth[t] = 0 /\ pc'[t] = "help"
  BY DEF Inv1, execute, ThreadOK, StackOK, Goto, TypeOK
<1>2. PICK g : Push(t, g) /\ g.helping = FALSE /\ g.i = 1
  BY DEF execute
<1>3. depth'[t] = 1 /\ MaxDepth \in Nat /\ 1 \in 1..MaxDepth
  BY SMTT(30), <1>1, <1>2, ConstantsAssumption DEF Push, TypeOK
<1>4. frame'[t][1] = g
  BY Zenon, <1>1, <1>2, <1>3 DEF Push, TypeOK
<1>5. ASSUME NEW d \in 1..depth'[t] PROVE LockOK(frame[t][d], Stage(t, d))'
  <2>1. d = 1 /\ ~ (d < depth'[t])
    BY <1>3
  <2>2. Stage(t, d)' = "start"
    BY <1>1, <2>1 DEF Stage
  <2> QED
    BY <1>2, <1>4, <2>1, <2>2 DEF LockOK
<1> QED
  BY <1>1, <1>5, QuietLocks

(* The steps inside rdcssHelp, and those that prepare an RDCSS.            *)
LEMMA StillInLoop ==
  ASSUME Inv1, TypeOK', Evolves, Inv3, NEW t \in Threads, Acts(t), frame'[t] = frame[t],
         depth'[t] = depth[t],
         pc[t] \in RdcssPcs \cup {"entry", "fill", "rdcss"},
         pc'[t] \in RdcssPcs \cup {"entry", "fill", "rdcss", "read", "copy_kcas"}
  PROVE  \A d \in 1..depth'[t] : LockOK(frame[t][d], Stage(t, d))'
<1>1. Stage(t, depth[t]) = "loop"
  BY DEF Stage, RdcssPcs
<1>2. Stage(t, depth[t])' = "loop"
  BY DEF Stage, RdcssPcs
<1> QED
  BY <1>1, <1>2, StackLocks

LEMMA RetryLocks ==
  ASSUME Inv1, TypeOK', Evolves, Inv3, NEW t \in Threads, Acts(t), pc[t] \in RdcssPcs,
         Retry(t), UNCHANGED <<depth, frame>>
  PROVE  LocksOK(t)'
<1>1. pc'[t] \in {"rdcss", "read"}
  BY DEF Inv1, Retry, Goto, TypeOK
<1> QED
  BY SMTT(30), <1>1, StillInLoop, QuietLocks

LEMMA RdcssHelpingLocks ==
  ASSUME Inv1, TypeOK', Evolves, Inv3, NEW t \in Threads, Acts(t),
         rdcssCopy(t) \/ rdcssCheck(t) \/ rdcssNew(t) \/ rdcssInitialized(t)
  PROVE  LocksOK(t)'
<1>1. TypeOK /\ ThreadOK(t)
  BY SMTT(30) DEF Inv1
<1>2. CASE rdcssCopy(t)
  <2>1. pc[t] = "copy_rdcss" /\ pc'[t] = "check_rdcss" /\ UNCHANGED <<frame, depth>>
    BY SMTT(30), <1>1, <1>2 DEF rdcssCopy, Goto, TypeOK
  <2> QED
    BY <2>1, StillInLoop, QuietLocks DEF RdcssPcs
<1>3. CASE rdcssNew(t)
  <2>1. pc[t] = "entry" /\ pc'[t] = "fill" /\ UNCHANGED <<frame, depth>>
    BY SMTT(30), <1>1, <1>3 DEF rdcssNew, Goto, TypeOK
  <2> QED
    BY <2>1, StillInLoop, QuietLocks
<1>4. CASE rdcssInitialized(t)
  <2>1. pc[t] = "fill" /\ pc'[t] = "rdcss" /\ UNCHANGED <<frame, depth>>
    BY Zenon, <1>1, <1>4 DEF rdcssInitialized, Goto, TypeOK
  <2> QED
    BY <2>1, StillInLoop, QuietLocks
<1>5. CASE rdcssCheck(t)
  <2>1. pc[t] = "check_rdcss" /\ UNCHANGED <<frame, depth>> /\ pc[t] \in RdcssPcs
    BY Zenon, <1>5 DEF rdcssCheck, RdcssPcs
  <2>2. CASE rdesc[reg[t].tag.tid].seq = reg[t].tag.seq
    <3>1. pc'[t] = "rdcss_state" /\ reg' = reg
      BY SMTT(30), <1>1, <1>5, <2>2 DEF rdcssCheck, Goto, TypeOK
    <3>2. reg[t].helping
      BY Zenon, <1>1, <2>1 DEF ThreadOK, RegOK
    <3>3. \A d \in 1..depth'[t] : LockOK(frame[t][d], Stage(t, d))'
      BY SMTT(30), <2>1, <3>1, StillInLoop DEF RdcssPcs
    <3> QED
      BY Zenon, <3>1, <3>2, <3>3 DEF LocksOK, FinishOK, Finishing
  <2>3. CASE rdesc[reg[t].tag.tid].seq # reg[t].tag.seq
    BY Zenon, <1>5, <2>1, <2>3, RetryLocks DEF rdcssCheck
  <2> QED
    BY <2>2, <2>3
<1> QED
  BY <1>2, <1>3, <1>4, <1>5

LEMMA RdcssReadStateLocks ==
  ASSUME Inv1, TypeOK', Evolves, Inv3, NEW t \in Threads, Acts(t), rdcssReadState(t)
  PROVE  LocksOK(t)'
<1>1. TypeOK /\ ThreadOK(t) /\ LocksOK(t) /\ pc[t] = "rdcss_state" /\ pc'[t] = "rdcss_finish"
  BY SMTT(30) DEF Inv1, Inv3, rdcssReadState, Goto, TypeOK
<1>2. PICK c \in Rdcss : c = reg[t].copy /\ KIssued(c.ktag)
  BY Zenon, <1>1 DEF ThreadOK, RegOK
<1>3. /\ reg'[t].tag = reg[t].tag /\ reg'[t].helping = reg[t].helping /\ reg'[t].copy = c
      /\ reg'[t].ok = Undecided(c.ktag)
  BY <1>1, <1>2 DEF rdcssReadState, TypeOK, Reg, Undecided
<1>4. UNCHANGED <<mem, frame, depth>>
  BY SMTT(30) DEF rdcssReadState
<1>5. Undecided(c.ktag)' => Undecided(c.ktag)
  BY Zenon, <1>1, <1>2, UndecidedBefore
<1>6. Finishing(t)' => Finishing(t)
  BY SMTT(30), <1>1, <1>3 DEF Finishing
<1>7. Undecided(reg[t].copy.ktag)' = Undecided(c.ktag)'
  BY SMTT(30), <1>3 DEF Undecided, InState, Alive
<1>8. FinishOK(t)'
  <2>1. ASSUME ~ reg'[t].ok PROVE ~ Undecided(c.ktag)'
    BY Zenon, <1>3, <1>5, <2>1
  <2>2. ASSUME Finishing(t)', Undecided(c.ktag)'
        PROVE  mem'[c.addr] \in {reg'[t].tag, c.ktag}
    BY Zenon, <1>1, <1>2, <1>3, <1>4, <1>5, <1>6, <2>2 DEF LocksOK, FinishOK
  <2> QED
    BY SMTT(30), <1>3, <1>7, <2>1, <2>2 DEF FinishOK
<1>9. \A d \in 1..depth'[t] : LockOK(frame[t][d], Stage(t, d))'
  BY <1>1, <1>4, StillInLoop DEF RdcssPcs
<1> QED
  BY Zenon, <1>1, <1>8, <1>9 DEF LocksOK

LEMMA RdcssHelpLocks ==
  ASSUME Inv1, TypeOK', Evolves, Inv3, NEW t \in Threads, Acts(t), rdcssHelp(t)
  PROVE  LocksOK(t)'
<1>1. /\ TypeOK /\ LocksOK(t) /\ RegOK(t) /\ DescOK(t)
      /\ pc[t] = "rdcss_finish" /\ depth' = depth
  BY SMTT(30) DEF Inv1, Inv3, ThreadOK, rdcssHelp
<1>2. CASE reg[t].helping
  BY Zenon, <1>1, <1>2, RetryLocks DEF rdcssHelp, RdcssPcs
<1>3. CASE ~ reg[t].helping
  <2>1. Finishing(t) /\ depth[t] > 0
    BY <1>1, <1>3 DEF Finishing, RegOK
  <2>2. PICK c \in Rdcss : c = reg[t].copy /\ KIssued(c.ktag)
    BY Zenon, <1>1 DEF RegOK
  <2>3. c.ktag = Top(t).tag /\ c.addr = CurrentEntry(t).addr /\ c.addr \in Addrs
    <3>1. c = rdesc[t].body
      <4>1. reg[t].tag = RdcssTag(t, rdesc[t].seq)
        BY <1>1, <2>1 DEF RegOK
      <4>2. reg[t].tag.tid = t /\ reg[t].tag.seq = rdesc[t].seq
        BY ONLY SMTT(30), <4>1 DEF RdcssTag
      <4> QED
        BY ZenonT(30), <1>1, <2>2, <4>2 DEF RegOK
    <3>2. rdesc[t].body = RdcssFor(t)
      BY <1>1, <2>1 DEF DescOK, RdcssPcs
    <3>3. c.addr \in Addrs
      BY <2>2 DEF Rdcss
    <3> QED
      BY ONLY SMTT(30), <3>1, <3>2, <3>3 DEF RdcssFor
  <2>4. PICK k : k = c.ktag
    OBVIOUS
  <2>5. ASSUME Undecided(k)' PROVE mem'[c.addr] = k
    <3>1. Undecided(c.ktag)
      BY SMTT(30), <1>1, <2>2, <2>4, <2>5, UndecidedBefore
    <3>2. reg[t].ok /\ mem[c.addr] \in {reg[t].tag, c.ktag}
      <4>1. FinishOK(t)
        BY Zenon, <1>1 DEF LocksOK
      <4> QED
        BY Zenon, <1>1, <2>1, <2>2, <3>1, <4>1 DEF FinishOK
    <3>3. CASE mem[c.addr] = reg[t].tag
      BY Zenon, <1>1, <2>2, <2>3, <2>4, <3>2, <3>3 DEF rdcssHelp, BoolCas, TypeOK
    <3>4. CASE mem[c.addr] = c.ktag
      BY Zenon, <2>2, <2>3, <2>4, <2>5, <3>4, LockStays
    <3> QED
      BY Zenon, <3>2, <3>3, <3>4
  <2>6. NextEntry(t) /\ depth'[t] = depth[t]
    BY SMTT(30), <1>1, <1>3 DEF rdcssHelp
  <2> QED
    BY Zenon, <1>1, <2>1, <2>3, <2>4, <2>5, <2>6, NextEntryLocks
<1> QED
  BY SMTT(30), <1>2, <1>3

LEMMA KcasCopyLocks ==
  ASSUME Inv1, TypeOK', Evolves, Inv3, NEW t \in Threads, Acts(t), kcasCopy(t)
  PROVE  LocksOK(t)'
<1>1. TypeOK /\ ThreadOK(t) /\ LocksOK(t) /\ pc[t] = "copy_kcas" /\ pc'[t] = "check_kcas"
  <2>1. TypeOK /\ ThreadOK(t) /\ LocksOK(t)
    BY DEF Inv1, Inv3
  <2>2. pc \in [Threads -> Pcs]
    BY SMTT(30), <2>1 DEF TypeOK
  <2> QED
    BY <2>1, <2>2 DEF kcasCopy, Goto
<1>2. PICK k : k = reg[t].tag /\ KIssued(k) /\ FirstLocked(k)
  <2>1. RegOK(t)
    BY Zenon, <1>1 DEF ThreadOK
  <2> QED
    BY ZenonT(30), <1>1, <2>1 DEF RegOK, LocksOK
<1>3. PICK g : Push(t, g) /\ g.helping /\ g.i = 2 /\ g.tag = k
  <2> DEFINE d == kdesc[reg[t].tag.tid]
             g == [tag |-> reg[t].tag, seq |-> d.seq, entries |-> d.entries,
                   helping |-> TRUE, i |-> 2, state |-> "UNDECIDED"]
  <2>1. Push(t, g)
    BY SMTT(30) DEF kcasCopy
  <2>2. g.helping /\ g.i = 2 /\ g.tag = k
    BY SMTT(30), <1>2
  <2> HIDE DEF g
  <2> QED
    BY <2>1, <2>2
<1>4. depth[t] \in Nat /\ MaxDepth \in Nat /\ depth[t] < MaxDepth /\ depth'[t] = depth[t] + 1
  BY SMTT(30), <1>1, <1>3, DepthType DEF Push, TypeOK
<1>5. PICK n \in 1..MaxDepth : n = depth[t] + 1 /\ ~ (n < depth'[t])
  BY SMTT(30), <1>4
<1>6. frame'[t][n] = g /\ \A d \in 1..MaxDepth : d # n => frame'[t][d] = frame[t][d]
  BY SMTT(30), <1>1, <1>3, <1>5 DEF Push, TypeOK
<1>7. ASSUME NEW d \in 1..depth'[t] PROVE LockOK(frame[t][d], Stage(t, d))'
  <2>1. CASE d = n
    <3>1. Stage(t, d)' = "start" /\ frame'[t][d] = g
      BY <1>1, <1>5, <1>6, <2>1 DEF Stage
    <3>2. FirstLocked(k)'
      BY Zenon, <1>2, FirstLockedStays
    <3>3. LockOK(g, "start")'
      BY ONLY SMTT(30), <1>3, <3>2 DEF LockOK, FirstLocked, Undecided, FirstAddr, InState, Alive
    <3> QED
      BY ONLY Zenon, <3>1, <3>3 DEF LockOK, FirstLocked, Undecided, FirstAddr, InState, Alive
  <2>2. CASE d # n
    <3>1. d \in 1..depth[t] /\ d \in 1..MaxDepth /\ d < depth'[t]
      BY SMTT(30), <1>4, <1>5, <2>2
    <3>2. frame'[t][d] = frame[t][d]
      BY <1>6, <2>2, <3>1
    <3>3. Stage(t, d) = "loop" /\ Stage(t, d)' = "loop"
      BY <1>1, <3>1 DEF Stage
    <3> QED
      BY <3>1, <3>2, <3>3, FrameLocksKept
  <2> QED
    BY SMTT(30), <2>1, <2>2
<1> QED
  BY Zenon, <1>1, <1>7, QuietLocks

LEMMA KcasCheckLocks ==
  ASSUME Inv1, TypeOK', Evolves, Inv3, NEW t \in Threads, Acts(t), kcasCheck(t)
  PROVE  LocksOK(t)'
<1>1. TypeOK /\ pc[t] = "check_kcas" /\ depth[t] > 0
  BY SMTT(30) DEF Inv1, kcasCheck, ThreadOK, StackOK, HelpPcs
<1>2. CASE Alive(Top(t).tag)
  <2>1. pc'[t] = "help" /\ UNCHANGED <<depth, frame>>
    BY Zenon, <1>1, <1>2 DEF kcasCheck, Goto, TypeOK
  <2>2. ~ (depth[t] < depth[t])
    BY TopKnown, <1>1
  <2>3. Stage(t, depth[t]) = "start"
    BY <1>1, <2>2 DEF Stage
  <2>4. Stage(t, depth[t])' = "start"
    BY <2>1, <2>2 DEF Stage
  <2> QED
    BY SMTT(30), <2>1, <2>3, <2>4, StackLocks, QuietLocks
<1>3. CASE ~ Alive(Top(t).tag)
  BY Zenon, <1>1, <1>3, ReturnLocks DEF kcasCheck
<1> QED
  BY SMTT(30), <1>2, <1>3

(* helpReadState, when the request is undecided: the helper relies on the  *)
(* first word being locked.                                                *)
LEMMA EnterLoopLocks ==
  ASSUME Inv1, TypeOK', Evolves, Inv3, NEW t \in Threads, Acts(t), depth[t] > 0,
         pc[t] = "help", InState(Top(t).tag, "UNDECIDED"), helpReadState(t)
  PROVE  LocksOK(t)'
<1>1. TypeOK /\ Alive(Top(t).tag)
  BY Zenon DEF Inv1, InState
<1>2. PICK f \in Frame : f = Top(t) /\ f = frame[t][depth[t]]
  BY Zenon, TopKnown DEF Top
<1>3. ~ (depth[t] < depth[t])
  BY TopKnown
<1>4. KIssued(f.tag) /\ LockOK(f, "start") /\ CopyOK(f)
  <2>1. Stage(t, depth[t]) = "start"
    BY Zenon, <1>3 DEF Stage
  <2> QED
    BY Zenon, <1>2, <2>1, TopKnown
<1>5. f.entries # <<>> /\ f.entries \in Seq(Entry)
  <2>1. FrameOK(t, depth[t])
    BY TopKnown
  <2> QED
    BY Zenon, <1>2, <2>1 DEF FrameOK, Checked, Frame
<1>6. f.i \in {1, 2} /\ Len(f.entries) \in Nat /\ Len(f.entries) >= 1
  BY <1>4, <1>5 DEF LockOK
<1>7. PICK g : g = [f EXCEPT !.state = "SUCCEEDED"]
  BY Zenon
<1>8. /\ g.i = f.i /\ g.tag = f.tag /\ g.entries = f.entries /\ g.state = "SUCCEEDED"
      /\ g.helping = f.helping
  BY Zenon, <1>7 DEF Frame
<1>9. /\ frame' = [frame EXCEPT ![t] = [@ EXCEPT ![depth[t]] = g]]
      /\ Goto(t, LoopHead(f.entries, f.i)) /\ UNCHANGED <<depth, mem, kdesc>>
  BY SMTT(30), <1>1, <1>2, <1>7 DEF helpReadState
<1>10. pc'[t] = IF f.i > Len(f.entries) THEN "decide" ELSE "entry"
  BY Zenon, <1>1, <1>9 DEF Goto, LoopHead, TypeOK
<1>11. PICK s : s = Stage(t, depth[t])'
  OBVIOUS
<1>12. s = IF f.i > Len(f.entries) THEN "decide" ELSE "loop"
  BY Zenon, <1>3, <1>9, <1>10, <1>11 DEF Stage
<1>13. ASSUME Undecided(f.tag), NEW j \in 1..(f.i - 1)
       PROVE  mem[f.entries[j].addr] = f.tag
  <2>1. f.i = 2 /\ j = 1
    BY SMTT(30), <1>6
  <2>2. f.helping
    BY <1>4, <2>1 DEF LockOK
  <2>3. FirstAddr(f.tag) = f.entries[1].addr
    BY Zenon, <1>1, <1>2, <1>4 DEF CopyOK, FirstAddr
  <2> QED
    BY SMTT(30), <1>4, <1>13, <2>1, <2>2, <2>3 DEF LockOK, FirstLocked
<1>14. LockOK(g, s)'
  <2>1. s \in {"decide", "loop"} /\ (s = "decide" => f.i = Len(f.entries) + 1)
    BY SMTT(30), <1>6, <1>12
  <2>2. f.helping => FirstLocked(f.tag)
    BY <1>4 DEF LockOK
  <2> QED
    BY Zenon, <1>8, <1>9, <1>13, <2>1, <2>2
       DEF LockOK, FirstLocked, Undecided, FirstAddr, InState, Alive
<1>15. \A d \in 1..depth'[t] : LockOK(frame[t][d], Stage(t, d))'
  <2>1. depth'[t] = depth[t]
    BY <1>9
  <2> QED
    BY Zenon, <1>9, <1>11, <1>14, <2>1, TopLocks
<1>16. pc'[t] \in {"decide", "entry"}
  BY <1>10
<1> QED
  BY <1>15, <1>16, QuietLocks

(* A step to phase 2, of a thread that found the request decided.          *)
LEMMA ReleaseLocks ==
  ASSUME Inv1, TypeOK', Evolves, Inv3, NEW t \in Threads, Acts(t), depth[t] > 0,
         depth'[t] = depth[t], pc'[t] \in {"phase2", "unlock"}, NEW g,
         frame' = [frame EXCEPT ![t] = [@ EXCEPT ![depth[t]] = g]],
         g.tag = Top(t).tag, g.helping = Top(t).helping,
         NEW k, k = Top(t).tag, ~ Undecided(k)'
  PROVE  LocksOK(t)'
<1>1. ~ (depth[t] < depth[t]) /\ KIssued(k)
  BY TopKnown
<1>2. Stage(t, depth[t])' = "release"
  BY <1>1 DEF Stage
<1>3. g.helping => FirstLocked(k)'
  <2>1. LockOK(Top(t), Stage(t, depth[t]))
    BY TopKnown
  <2>2. g.helping => FirstLocked(k)
    BY <2>1 DEF LockOK
  <2> QED
    BY <1>1, <2>2, FirstLockedStays
<1>4. LockOK(g, "release")'
  BY Zenon, <1>3 DEF LockOK, FirstLocked, Undecided, FirstAddr, InState, Alive
<1>5. \A d \in 1..depth'[t] : LockOK(frame[t][d], Stage(t, d))'
  BY Zenon, <1>2, <1>4, TopLocks
<1> QED
  BY <1>5, QuietLocks

(* The frame stays as it is.                                               *)
LEMMA SameFrame ==
  ASSUME TypeOK, NEW t \in Threads, depth[t] > 0, UNCHANGED frame
  PROVE  frame' = [frame EXCEPT ![t] = [@ EXCEPT ![depth[t]] = Top(t)]]
<1>1. depth[t] \in 1..MaxDepth /\ Top(t) = frame[t][depth[t]]
  BY TopFrame
<1> QED
  BY <1>1 DEF TypeOK

LEMMA HelpReadStateLocks ==
  ASSUME Inv1, TypeOK', Evolves, Inv3, NEW t \in Threads, Acts(t), helpReadState(t)
  PROVE  LocksOK(t)'
<1>1. TypeOK /\ pc[t] = "help" /\ depth[t] > 0
  BY SMTT(30) DEF Inv1, helpReadState, ThreadOK, StackOK, HelpPcs
<1>2. PICK k : k = Top(t).tag /\ KIssued(k)
  BY <1>1, TopKnown
<1>3. CASE ~ Alive(k)
  <2>1. ~ InState(k, "UNDECIDED")
    BY <1>3 DEF InState
  <2>2. Return(t, FALSE)
    BY Zenon, <1>2, <1>3, <2>1 DEF helpReadState
  <2> QED
    BY Zenon, <1>1, <2>2, ReturnLocks
<1>4. CASE InState(k, "UNDECIDED")
  BY <1>1, <1>2, <1>4, EnterLoopLocks
<1>5. CASE Alive(k) /\ ~ InState(k, "UNDECIDED")
  <2>1. pc'[t] = "phase2" /\ UNCHANGED <<frame, depth>>
    BY Zenon, <1>1, <1>2, <1>5 DEF helpReadState, Goto, TypeOK
  <2>2. ~ Undecided(k)'
    BY <1>1, <1>2, <1>5, UndecidedBefore DEF Undecided
  <2>3. frame' = [frame EXCEPT ![t] = [@ EXCEPT ![depth[t]] = Top(t)]]
    BY <1>1, <2>1, SameFrame
  <2>4. PICK g : g = Top(t)
    OBVIOUS
  <2> QED
    BY Zenon, <1>1, <1>2, <2>1, <2>2, <2>3, <2>4, ReleaseLocks
<1> QED
  BY <1>3, <1>4, <1>5

LEMMA DecideLocks ==
  ASSUME Inv1, TypeOK', Evolves, Inv3, NEW t \in Threads, Acts(t), decide(t)
  PROVE  LocksOK(t)'
<1>1. /\ TypeOK /\ pc[t] = "decide" /\ depth[t] > 0
      /\ pc'[t] = "phase2" /\ UNCHANGED <<frame, depth>>
  BY Zenon DEF Inv1, decide, ThreadOK, StackOK, HelpPcs, Goto, TypeOK
<1>2. PICK f \in Frame : f = Top(t) /\ f = frame[t][depth[t]]
  BY <1>1, TopKnown DEF Top
<1>3. KIssued(f.tag) /\ f.tag.tid \in Threads /\ f.seq = f.tag.seq
  <2>1. FrameOK(t, depth[t]) /\ KIssued(Top(t).tag)
    BY Zenon, <1>1, TopKnown
  <2> QED
    BY ZenonT(30), <1>1, <1>2, <2>1 DEF FrameOK, Checked, KIssued, KcasTags
<1>4. f.state # "UNDECIDED"
  <2>1. ~ (depth[t] < depth[t])
    BY <1>1, TopKnown
  <2>2. Stage(t, depth[t]) = "decide"
    BY <1>1, <2>1 DEF Stage
  <2>3. LockOK(f, "decide")
    BY Zenon, <1>1, <1>2, <2>2, TopKnown
  <2> QED
    BY Zenon, <2>3 DEF LockOK
<1>5. ~ Undecided(f.tag)'
  <2>1. CASE kdesc[f.tag.tid].seq = f.seq /\ kdesc[f.tag.tid].state = "UNDECIDED"
    <3>1. kdesc' = [kdesc EXCEPT ![f.tag.tid].state = f.state]
      BY Zenon, <1>2, <2>1 DEF decide
    <3>2. kdesc'[f.tag.tid].state = f.state
      BY SMTT(30), <1>1, <1>3, <3>1 DEF TypeOK
    <3> QED
      BY <1>4, <3>2 DEF Undecided, InState
  <2>2. CASE ~ (kdesc[f.tag.tid].seq = f.seq /\ kdesc[f.tag.tid].state = "UNDECIDED")
    <3>1. ~ Undecided(f.tag)
      BY <1>3, <2>2 DEF Undecided, InState, Alive
    <3> QED
      BY SMTT(30), <1>1, <1>3, <3>1, UndecidedBefore
  <2> QED
    BY <2>1, <2>2
<1>6. frame' = [frame EXCEPT ![t] = [@ EXCEPT ![depth[t]] = f]]
  BY <1>1, <1>2, SameFrame
<1>7. PICK k : k = f.tag
  OBVIOUS
<1>8. ~ Undecided(k)'
  BY <1>5, <1>7
<1> QED
  BY Zenon, <1>1, <1>2, <1>6, <1>7, <1>8, ReleaseLocks

LEMMA Phase2Locks ==
  ASSUME Inv1, TypeOK', Evolves, Inv3, NEW t \in Threads, Acts(t), phase2(t) \/ unlock(t)
  PROVE  LocksOK(t)'
<1>1. TypeOK /\ pc[t] \in {"phase2", "unlock"} /\ depth[t] > 0
  BY Zenon DEF Inv1, phase2, unlock, ThreadOK, StackOK, HelpPcs
<1>2. PICK f \in Frame : f = Top(t) /\ f = frame[t][depth[t]]
  BY <1>1, TopKnown DEF Top
<1>3. PICK k : k = f.tag /\ KIssued(k)
  BY Zenon, <1>1, <1>2, TopKnown
<1>4. ~ Undecided(k)
  <2>1. ~ (depth[t] < depth[t])
    BY <1>1, TopKnown
  <2>2. Stage(t, depth[t]) = "release"
    BY <1>1, <2>1 DEF Stage
  <2>3. LockOK(f, "release")
    BY Zenon, <1>1, <1>2, <2>2, TopKnown
  <2> QED
    BY SMTT(30), <1>3, <2>3 DEF LockOK
<1>5. ~ Undecided(k)'
  BY SMTT(30), <1>1, <1>3, <1>4, UndecidedBefore
<1>6. CASE \E b : Return(t, b)
  BY <1>1, <1>6, ReturnLocks
<1>7. CASE phase2(t) /\ Alive(f.tag)
  <2>1. PICK g : g = [f EXCEPT !.i = 1, !.state = kdesc[f.tag.tid].state]
    OBVIOUS
  <2>2. g.tag = f.tag /\ g.helping = f.helping
    BY <2>1 DEF Frame
  <2>3. /\ frame' = [frame EXCEPT ![t] = [@ EXCEPT ![depth[t]] = g]]
        /\ pc'[t] = "unlock" /\ depth' = depth
    BY Zenon, <1>1, <1>2, <1>7, <2>1 DEF phase2, Goto, TypeOK
  <2> QED
    BY Zenon, <1>1, <1>2, <1>3, <1>5, <2>2, <2>3, ReleaseLocks
<1>8. CASE unlock(t) /\ f.i < Len(f.entries)
  <2>1. PICK g : g = [f EXCEPT !.i = @ + 1]
    BY Zenon
  <2>2. g.tag = f.tag /\ g.helping = f.helping
    BY Zenon, <2>1 DEF Frame
  <2>3. /\ frame' = [frame EXCEPT ![t] = [@ EXCEPT ![depth[t]] = g]]
        /\ pc'[t] = "unlock" /\ depth' = depth
    BY Zenon, <1>1, <1>2, <1>8, <2>1 DEF unlock
  <2> QED
    BY Zenon, <1>1, <1>2, <1>3, <1>5, <2>2, <2>3, ReleaseLocks
<1> QED
  BY Zenon, <1>2, <1>6, <1>7, <1>8 DEF phase2, unlock

LEMMA RdcssLocks ==
  ASSUME Inv1, TypeOK', Evolves, Inv3, NEW t \in Threads, Acts(t), rdcss(t)
  PROVE  LocksOK(t)'
<1>0. pc \in [Threads -> Pcs] /\ reg \in [Threads -> Reg] /\ mem \in [Addrs -> Word]
  BY DEF Inv1, TypeOK
<1>1. DescOK(t) /\ pc[t] = "rdcss" /\ depth[t] > 0 /\ depth' = depth
  BY Zenon DEF Inv1, rdcss, ThreadOK, StackOK, HelpPcs
<1>2. PICK f \in Frame : /\ f = Top(t) /\ f = frame[t][depth[t]]
                         /\ KIssued(f.tag) /\ LockOK(f, "loop")
                         /\ f.i >= 1 /\ f.i <= Len(f.entries)
  BY <1>1, TopAtEntry
<1>3. PICK e \in Entry : e = CurrentEntry(t) /\ e.addr \in Addrs
  BY <1>1, AtCurrentEntry DEF EntryPcs
<1>4. PICK w : w = mem[e.addr]
  OBVIOUS
<1>5. KIssued(f.tag) /\ LockOK(f, "loop") /\ f.i <= Len(f.entries)
  BY SMTT(30), <1>2
<1>6. CASE /\ mem' = [mem EXCEPT ![e.addr] = RdcssTag(t, rdesc[t].seq)]
           /\ reg' = [reg EXCEPT ![t].tag = RdcssTag(t, rdesc[t].seq),
                                 ![t].copy = rdesc[t].body]
           /\ Goto(t, "rdcss_state") /\ UNCHANGED frame
  <2>0. reg[t] \in Reg /\ pc'[t] = "rdcss_state"
    BY <1>0, <1>6 DEF Goto
  <2>1. reg'[t].tag = RdcssTag(t, rdesc[t].seq) /\ reg'[t].copy = rdesc[t].body
    BY ONLY Zenon, <1>0, <1>6, <2>0, t \in Threads DEF Reg
  <2>2. rdesc[t].body.addr = e.addr
    <3>1. rdesc[t].body = RdcssFor(t)
      BY <1>1 DEF DescOK
    <3> QED
      BY SMTT(30), <1>3, <3>1 DEF RdcssFor
  <2>3. mem'[e.addr] = RdcssTag(t, rdesc[t].seq)
    BY Zenon, <1>0, <1>3, <1>6
  <2>4. FinishOK(t)'
    BY <2>0, <2>1, <2>2, <2>3 DEF FinishOK
  <2>5. \A d \in 1..depth'[t] : LockOK(frame[t][d], Stage(t, d))'
    BY Zenon, <1>1, <1>6, <2>0, StillInLoop DEF RdcssPcs
  <2> QED
    BY <2>0, <2>4, <2>5 DEF LocksOK
<1>7. CASE Goto(t, "copy_rdcss") /\ UNCHANGED frame
  <2>1. pc'[t] = "copy_rdcss"
    BY Zenon, <1>0, <1>7 DEF Goto
  <2>2. \A d \in 1..depth'[t] : LockOK(frame[t][d], Stage(t, d))'
    BY Zenon, <1>1, <1>7, <2>1, StillInLoop DEF RdcssPcs
  <2> QED
    BY <2>1, <2>2, QuietLocks
<1>8. CASE isKcas(w) /\ reg' = [reg EXCEPT ![t].tag = w] /\ Goto(t, "copy_kcas")
           /\ UNCHANGED frame
  <2>1. pc'[t] = "copy_kcas" /\ reg'[t].tag = w
    <3>1. reg[t] \in Reg /\ pc'[t] = "copy_kcas"
      BY <1>0, <1>8 DEF Goto
    <3> QED
      BY ONLY <1>0, <1>8, <3>1, t \in Threads DEF Reg
  <2>2. FirstLocked(reg[t].tag)'
    BY <1>3, <1>4, <1>8, <2>1, FoundLocks
  <2>3. \A d \in 1..depth'[t] : LockOK(frame[t][d], Stage(t, d))'
    BY <1>1, <1>8, <2>1, StillInLoop
  <2> QED
    BY <2>1, <2>2, <2>3 DEF LocksOK, FinishOK, Finishing
<1>9. CASE w = f.tag /\ NextEntry(t) /\ UNCHANGED mem
  <2>1. PICK k : k = f.tag
    OBVIOUS
  <2>2. mem'[CurrentEntry(t).addr] = k
    BY Zenon, <1>3, <1>4, <1>9, <2>1
  <2> QED
    BY Zenon, <1>1, <1>2, <1>9, <2>1, <2>2, NextEntryLocks
<1>10. CASE frame' = [frame EXCEPT ![t][depth[t]].state = "FAILED"] /\ Goto(t, "decide")
            /\ UNCHANGED mem
  <2>1. pc'[t] = "decide"
    BY <1>0, <1>10 DEF Goto
  <2>2. PICK g : g = [f EXCEPT !.state = "FAILED"]
    BY Zenon
  <2>3. /\ g.i = f.i /\ g.tag = f.tag /\ g.entries = f.entries /\ g.state = "FAILED"
        /\ g.helping = f.helping
    BY <2>2 DEF Frame
  <2>4. frame' = [frame EXCEPT ![t] = [@ EXCEPT ![depth[t]] = g]]
    BY <1>2, <1>10, <2>2
  <2>5. Stage(t, depth[t])' = "decide"
    <3>1. ~ (depth[t] < depth[t])
      BY <1>1, TopKnown
    <3> QED
      BY Zenon, <1>1, <2>1, <3>1 DEF Stage
  <2>6. LockOK(f, "loop")'
    BY <1>5, LockOKStays
  <2>7. LockOK(g, "decide")'
    BY Zenon, <1>5, <2>3, <2>6 DEF LockOK, FirstLocked, Undecided, FirstAddr, InState, Alive
  <2>8. depth'[t] = depth[t]
    BY SMTT(30), <1>1
  <2> QED
    BY Zenon, <1>1, <2>1, <2>4, <2>5, <2>7, <2>8, TopLocks, QuietLocks
<1> QED
  BY Zenon, <1>2, <1>3, <1>4, <1>6, <1>7, <1>8, <1>9, <1>10 DEF rdcss

-----------------------------------------------------------------------------
(* The tags of RDCSS descriptors.                                          *)

LEMMA NotHelpingStep ==
  ASSUME Inv1, NotHelping, NEW t \in Threads, Acts(t)
  PROVE  NotHelping'
<1>1. TypeOK /\ (pc[t] \notin RdcssPcs => ~ reg[t].helping)
  BY Zenon DEF Inv1, NotHelping
<1>2. ASSUME NEW u \in Threads, u # t, pc'[u] \notin RdcssPcs PROVE ~ reg'[u].helping
  BY <1>1, <1>2, OthersKept DEF Acts, NotHelping
<1>3. ASSUME pc'[t] \notin RdcssPcs PROVE ~ reg'[t].helping
  <2> USE <1>1, <1>3 DEF TypeOK, Goto, RdcssPcs
  <2>1. CASE rdcssCheck(t)
    <3>1. CASE rdesc[reg[t].tag.tid].seq = reg[t].tag.seq
      BY <2>1, <3>1 DEF rdcssCheck
    <3>2. CASE rdesc[reg[t].tag.tid].seq # reg[t].tag.seq
      <4>1. reg' = [reg EXCEPT ![t] = [NoReg EXCEPT !.addr = reg[t].addr]]
        BY SMTT(30), <2>1, <3>2 DEF rdcssCheck, Retry, ForgetRdcss
      <4>2. [NoReg EXCEPT !.addr = reg[t].addr].helping = FALSE
        BY DEF NoReg
      <4> QED
        BY <4>1, <4>2
    <3> QED
      BY Zenon, <3>1, <3>2
  <2>2. CASE rdcssHelp(t)
    BY <2>2 DEF rdcssHelp, Retry, ForgetRdcss, NoReg
  <2>3. CASE rdcssCopy(t)
    BY <2>3 DEF rdcssCopy
  <2>4. CASE rdcssReadState(t)
    BY <2>4 DEF rdcssReadState
  <2>5. CASE rdcssRead(t)
    <3>1. ~ reg[t].helping
      BY <2>5 DEF rdcssRead
    <3>2. CASE pc' = [pc EXCEPT ![t] = "idle"] /\ reg' = [reg EXCEPT ![t].addr = NULL]
      BY <3>1, <3>2
    <3>3. CASE pc' = [pc EXCEPT ![t] = "copy_kcas"]
               /\ reg' = [reg EXCEPT ![t].tag = mem[reg[t].addr]]
      BY SMTT(30), <3>1, <3>3
    <3>4. CASE pc' = [pc EXCEPT ![t] = "copy_rdcss"]
      BY SMTT(30), <3>4
    <3> QED
      BY Zenon, <2>5, <3>2, <3>3, <3>4 DEF rdcssRead
  <2>6. CASE rdcss(t)
    <3>1. ~ reg[t].helping
      BY SMTT(30), <2>6 DEF rdcss
    <3>2. CASE reg' = reg
      BY <3>1, <3>2
    <3>3. CASE reg' = [reg EXCEPT ![t].tag = mem[CurrentEntry(t).addr]]
      BY SMTT(30), <3>1, <3>3
    <3>4. CASE pc' = [pc EXCEPT ![t] = "rdcss_state"] \/ pc' = [pc EXCEPT ![t] = "copy_rdcss"]
      BY <3>4
    <3> QED
      BY Zenon, <2>6, <3>2, <3>3, <3>4 DEF rdcss
  <2>7. CASE kcasCopy(t)
    BY <2>7 DEF kcasCopy
  <2>8. CASE \E a \in ReadsOf[t] : readPtr(t, a)
    BY <2>8 DEF readPtr
  <2>9. CASE /\ reg' = reg
             /\ pc[t] \notin RdcssPcs
    BY <2>9
  <2>10. start(t) \/ add(t) \/ execute(t) \/ kcasCheck(t) \/ helpReadState(t) \/ rdcssNew(t)
         \/ rdcssInitialized(t) \/ decide(t) \/ phase2(t) \/ unlock(t)
         => reg' = reg /\ pc[t] \notin RdcssPcs
    BY Zenon DEF start, add, execute, kcasCheck, helpReadState, rdcssNew, rdcssInitialized,
           decide, phase2, unlock
  <2> HIDE DEF TypeOK, Goto, RdcssPcs
  <2> QED
    BY Zenon, <2>1, <2>2, <2>3, <2>4, <2>5, <2>6, <2>7, <2>8, <2>9, <2>10 DEF Acts, Step
<1> QED
  BY Zenon, <1>2, <1>3 DEF NotHelping

LEMMA Inv2Step == Inv1 /\ Inv1' /\ Inv2 /\ [Next]_vars => Inv2'
<1> SUFFICES ASSUME Inv1, Inv1', Inv2, [Next]_vars PROVE Inv2'
  OBVIOUS
<1>1. CASE UNCHANGED vars
  BY ZenonT(30), <1>1 DEF Inv2, NotHelping, RdcssTagsLive, Finishing, vars
<1>2. ASSUME NEW t \in Threads, Acts(t) PROVE Inv2'
  <2>1. NotHelping'
    BY <1>2, NotHelpingStep DEF Inv2
  <2>2. TypeOK /\ ThreadOK(t)
    BY SMTT(30) DEF Inv1
  <2> SUFFICES ASSUME NEW a \in Addrs, isRdcss(mem'[a])
               PROVE  /\ rdesc'[mem'[a].tid].seq = mem'[a].seq
                      /\ rdesc'[mem'[a].tid].body.addr = a
                      /\ Finishing(mem[a].tid)'
    BY SMTT(30), <2>1 DEF Inv2, RdcssTagsLive, isRdcss
  <2>3. CASE mem'[a] # mem[a]
    <3>1. ~ RdcssCompletes(t, a)
      <4>1. RdcssCompletes(t, a) => reg[t].copy \in Rdcss
        BY Zenon, <2>2 DEF RdcssCompletes, ThreadOK, RegOK, rdcssHelp
      <4> QED
        BY SMTT(30), <4>1 DEF RdcssCompletes, isRdcss, Rdcss, KcasTags, Val
    <3>2. ~ Unlocks(t, a)
      <4>1. \A v : Val(v).kind = "val"
        BY SMTT(30) DEF Val
      <4> QED
        BY <4>1 DEF Unlocks, isRdcss
    <3>3. RdcssInstalls(t, a)
      BY SMTT(30), <1>2, <2>2, <2>3, <3>1, <3>2, WordChange
    <3>4. mem'[a].tid = t /\ mem'[a].seq = rdesc[t].seq /\ rdesc' = rdesc
      BY <3>3 DEF RdcssInstalls, RdcssTag, rdcss
    <3>5. rdesc[t].body.addr = a /\ ~ reg[t].helping
      BY SMTT(30), <2>2, <3>3 DEF RdcssInstalls, rdcss, ThreadOK, DescOK, RdcssFor, Inv2, NotHelping,
                        RdcssPcs
    <3>6. Finishing(t)'
      BY Zenon, <3>3, <3>5 DEF RdcssInstalls, Finishing
    <3> QED
      BY Zenon, <3>4, <3>5, <3>6
  <2>4. CASE mem'[a] = mem[a]
    <3>1. PICK o \in Threads : o = mem[a].tid
      BY Zenon, <2>2, <2>4 DEF TypeOK, Word, Plain, KcasTags, RdcssTags, isRdcss
    <3>2. rdesc[o].seq = mem[a].seq /\ rdesc[o].body.addr = a /\ Finishing(o)
      BY Zenon, <2>4, <3>1 DEF Inv2, RdcssTagsLive, isRdcss
    <3>3. CASE o # t
      <4>1. pc'[o] = pc[o] /\ reg'[o] = reg[o] /\ rdesc'[o] = rdesc[o]
        BY Zenon, <1>2, <2>2, <3>3, OthersKept DEF Acts
      <4> QED
        BY <2>4, <3>1, <3>2, <4>1 DEF Finishing
    <3>4. CASE o = t
      <4>1. rdcssReadState(t) \/ rdcssHelp(t)
        BY Zenon, <1>2, <3>2, <3>4 DEF Acts, Step, Finishing, start, add, execute, readPtr,
           rdcssRead, rdcssCopy, rdcssCheck, kcasCopy, kcasCheck, helpReadState, rdcssNew,
           rdcssInitialized, rdcss, decide, phase2, unlock
      <4>2. ~ rdcssHelp(t)
        <5> SUFFICES ASSUME rdcssHelp(t) PROVE FALSE
          OBVIOUS
        <5>1. PICK c \in Rdcss : c = reg[t].copy
          BY Zenon, <2>2 DEF ThreadOK, RegOK, rdcssHelp
        <5>2. reg[t].tag = RdcssTag(t, rdesc[t].seq) /\ c = rdesc[t].body
          BY Zenon, <2>2, <3>2, <3>4, <5>1 DEF ThreadOK, RegOK
        <5>3. mem[a] = reg[t].tag
          BY ZenonT(30), <2>2, <2>4, <3>1, <3>2, <3>4, <5>2
             DEF TypeOK, Word, Plain, KcasTags, RdcssTags, isRdcss, RdcssTag
        <5>4. mem'[a] = IF reg[t].ok THEN c.ktag ELSE Val(c.old)
          BY Zenon, <2>2, <3>2, <3>4, <5>1, <5>2, <5>3 DEF rdcssHelp, BoolCas, TypeOK
        <5> QED
          BY <5>4 DEF isRdcss, Rdcss, KcasTags, Val
      <4>3. pc'[t] = "rdcss_finish" /\ reg'[t].helping = reg[t].helping /\ rdesc' = rdesc
        BY SMTT(30), <2>2, <4>1, <4>2 DEF rdcssReadState, Goto, TypeOK, Reg
      <4> QED
        BY Zenon, <2>4, <3>1, <3>2, <3>4, <4>3 DEF Finishing
    <3> QED
      BY <3>3, <3>4
  <2> QED
    BY Zenon, <2>3, <2>4
<1> QED
  BY <1>1, <1>2, ActsOrNot

-----------------------------------------------------------------------------
(* The locks of requests.                                                  *)
LEMMA Inv3Step == Inv1 /\ Inv1' /\ Evolves /\ Inv2 /\ Inv3 /\ [Next]_vars => Inv3'
<1> SUFFICES ASSUME Inv1, Inv1', Evolves, Inv2, Inv3, [Next]_vars PROVE Inv3'
  OBVIOUS
<1>1. TypeOK' /\ Evolves
  BY DEF Inv1
<1>2. CASE UNCHANGED vars
  <2> USE <1>2 DEF vars
  <2>1. WordsLocked'
    BY Zenon DEF Inv3, WordsLocked, FirstLocked, FirstAddr, Undecided, InState, Alive, isKcas
  <2>2. ASSUME NEW t \in Threads PROVE LocksOK(t)'
    <3>1. LocksOK(t)
      BY DEF Inv3
    <3>2. FinishOK(t)'
      BY Zenon, <3>1 DEF LocksOK, FinishOK, Finishing, Undecided, InState, Alive
    <3>3. pc'[t] = "copy_kcas" => FirstLocked(reg[t].tag)'
      BY Zenon, <3>1 DEF LocksOK, FirstLocked, FirstAddr, Undecided, InState, Alive
    <3>4. ASSUME NEW d \in 1..depth'[t] PROVE LockOK(frame[t][d], Stage(t, d))'
      <4>1. LockOK(frame[t][d], Stage(t, d))
        BY <3>1 DEF LocksOK
      <4>2. Stage(t, d)' = Stage(t, d)
        BY DEF Stage
      <4> QED
        BY ZenonT(30), <4>1, <4>2 DEF LockOK, FirstLocked, FirstAddr, Undecided, InState, Alive
    <3> QED
      BY <3>2, <3>3, <3>4 DEF LocksOK
  <2> QED
    BY <2>1, <2>2 DEF Inv3
<1>3. ASSUME NEW t \in Threads, Acts(t) PROVE Inv3'
  <2>1. WordsLocked'
    BY <1>1, <1>3, WordsLockedStep
  <2>2. ASSUME NEW u \in Threads, u # t PROVE LocksOK(u)'
    BY SMTT(30), <1>1, <1>3, <2>2, OtherLocks
  <2>3. LocksOK(t)'
    <3>1. CASE start(t) \/ add(t) \/ rdcssRead(t) \/ \E a \in ReadsOf[t] : readPtr(t, a)
      BY <1>1, <1>3, <3>1, FlatLocks
    <3>2. CASE execute(t)
      BY <1>1, <3>2, ExecuteLocks
    <3>3. CASE rdcssCopy(t) \/ rdcssCheck(t) \/ rdcssNew(t) \/ rdcssInitialized(t)
      BY <1>1, <1>3, <3>3, RdcssHelpingLocks
    <3>4. CASE rdcssReadState(t)
      BY <1>1, <1>3, <3>4, RdcssReadStateLocks
    <3>5. CASE rdcssHelp(t)
      BY Zenon, <1>1, <1>3, <3>5, RdcssHelpLocks
    <3>6. CASE kcasCopy(t)
      BY <1>1, <1>3, <3>6, KcasCopyLocks
    <3>7. CASE kcasCheck(t)
      BY <1>1, <1>3, <3>7, KcasCheckLocks
    <3>8. CASE helpReadState(t)
      BY <1>1, <1>3, <3>8, HelpReadStateLocks
    <3>9. CASE rdcss(t)
      BY <1>1, <1>3, <3>9, RdcssLocks
    <3>10. CASE decide(t)
      BY <1>1, <1>3, <3>10, DecideLocks
    <3>11. CASE phase2(t) \/ unlock(t)
      BY <1>1, <1>3, <3>11, Phase2Locks
    <3> QED
      BY ZenonT(30), <1>3, <3>1, <3>2, <3>3, <3>4, <3>5, <3>6, <3>7, <3>8, <3>9, <3>10, <3>11
         DEF Acts, Step
  <2> QED
    BY <2>1, <2>2, <2>3 DEF Inv3
<1> QED
  BY <1>2, <1>3, ActsOrNot

-----------------------------------------------------------------------------
LEMMA LocksInit == Init => Inv2 /\ Inv3
<1> SUFFICES ASSUME Init PROVE Inv2 /\ Inv3
  OBVIOUS
<1>1. \A a \in Addrs : mem[a].kind = "val"
  BY DEF Init, Plain
<1>2. \A t \in Threads : pc[t] = "idle" /\ depth[t] = 0 /\ ~ reg[t].helping
  BY Zenon DEF Init, NoReg
<1>3. Inv2
  BY Zenon, <1>1, <1>2 DEF Inv2, NotHelping, RdcssTagsLive, isRdcss
<1>4. Inv3
  BY SMTT(30), <1>1, <1>2 DEF Inv3, WordsLocked, LocksOK, FinishOK, Finishing, isKcas
<1> QED
  BY <1>3, <1>4

-----------------------------------------------------------------------------
(* What the locals and descriptors are made of.                            *)

LEMMA RegType ==
  ASSUME TypeOK, NEW t \in Threads
  PROVE  reg[t] \in Reg /\ reg[t].addr \in Addrs \cup {NULL}
<1>1. reg[t] \in Reg
  BY Zenon DEF TypeOK
<1> QED
  BY <1>1 DEF Reg

(* The kinds of words.                                                     *)
LEMMA WordKinds ==
  ASSUME NEW w \in Word
  PROVE  /\ isRdcss(w) => w \in RdcssTags
         /\ isKcas(w) => w \in KcasTags
         /\ ~ isRdcss(w) /\ ~ isKcas(w) => w \in Plain
  BY DEF Word, Plain, KcasTags, RdcssTags, isRdcss, isKcas

-----------------------------------------------------------------------------
(* Types are kept by the parts that the actions are made of.               *)

LEMMA ExceptType ==
  ASSUME NEW S, NEW T, NEW f \in [S -> T], NEW x \in S, NEW v \in T
  PROVE  [f EXCEPT ![x] = v] \in [S -> T]
  OBVIOUS

LEMMA PcType ==
  ASSUME TypeOK, NEW t \in Threads, NEW l \in Pcs, Goto(t, l)
  PROVE  pc' \in [Threads -> Pcs] /\ pc'[t] = l
<1>1. pc \in [Threads -> Pcs]
  BY DEF TypeOK
<1> QED
  BY <1>1, ExceptType DEF Goto

LEMMA FrameUpdate ==
  ASSUME TypeOK, NEW t \in Threads, NEW d \in 1..MaxDepth, NEW f \in Frame,
         frame' = [frame EXCEPT ![t] = [@ EXCEPT ![d] = f]]
  PROVE  frame' \in [Threads -> [1..MaxDepth -> Frame]]
<1>1. frame \in [Threads -> [1..MaxDepth -> Frame]]
  BY DEF TypeOK
<1>2. [frame[t] EXCEPT ![d] = f] \in [1..MaxDepth -> Frame]
  BY <1>1, ExceptType
<1>3. frame' = [frame EXCEPT ![t] = [frame[t] EXCEPT ![d] = f]]
  OBVIOUS
<1> QED
  BY <1>1, <1>2, <1>3, ExceptType

LEMMA DepthUpdate ==
  ASSUME TypeOK, NEW t \in Threads, NEW d \in 0..MaxDepth,
         depth' = [depth EXCEPT ![t] = d]
  PROVE  depth' \in [Threads -> 0..MaxDepth]
<1>1. depth \in [Threads -> 0..MaxDepth]
  BY DEF TypeOK
<1> QED
  BY <1>1, ExceptType

LEMMA RegUpdate ==
  ASSUME TypeOK, NEW t \in Threads, NEW g \in Reg, reg' = [reg EXCEPT ![t] = g]
  PROVE  reg' \in [Threads -> Reg]
<1>1. reg \in [Threads -> Reg]
  BY DEF TypeOK
<1> QED
  BY <1>1, ExceptType

LEMMA RetUpdate ==
  ASSUME TypeOK, NEW t \in Threads, NEW v \in Result, ret' = [ret EXCEPT ![t] = v]
  PROVE  ret' \in [Threads -> Result]
<1>1. ret \in [Threads -> Result]
  BY DEF TypeOK
<1> QED
  BY <1>1, ExceptType

LEMMA KdescUpdate ==
  ASSUME TypeOK, NEW t \in Threads, NEW d \in KcasDesc, kdesc' = [kdesc EXCEPT ![t] = d]
  PROVE  kdesc' \in [Threads -> KcasDesc]
<1>1. kdesc \in [Threads -> KcasDesc]
  BY DEF TypeOK
<1> QED
  BY <1>1, ExceptType

LEMMA RdescUpdate ==
  ASSUME TypeOK, NEW t \in Threads, NEW d \in RdcssDesc, rdesc' = [rdesc EXCEPT ![t] = d]
  PROVE  rdesc' \in [Threads -> RdcssDesc]
<1>1. rdesc \in [Threads -> RdcssDesc]
  BY DEF TypeOK
<1> QED
  BY <1>1, ExceptType

LEMMA MemUpdate ==
  ASSUME TypeOK, NEW a \in Addrs, NEW w \in Word, mem' = [mem EXCEPT ![a] = w]
  PROVE  mem' \in [Addrs -> Word]
<1>1. mem \in [Addrs -> Word]
  BY DEF TypeOK
<1> QED
  BY <1>1, ExceptType

LEMMA CasType ==
  ASSUME TypeOK, NEW a \in Addrs, NEW old, NEW new \in Word, BoolCas(a, old, new)
  PROVE  mem' \in [Addrs -> Word]
<1>1. CASE mem' = mem
  BY <1>1 DEF TypeOK
<1>2. CASE mem' = [mem EXCEPT ![a] = new]
  BY Zenon, <1>2, MemUpdate
<1> QED
  BY <1>1, <1>2 DEF BoolCas

(* The counter and the verdict of a frame.                                 *)
LEMMA FrameWith ==
  ASSUME NEW f \in Frame, NEW n \in Nat, NEW st \in States
  PROVE  /\ [f EXCEPT !.i = n] \in Frame
         /\ [f EXCEPT !.state = st] \in Frame
         /\ [f EXCEPT !.i = n, !.state = st] \in Frame
  BY Zenon DEF Frame

LEMMA FrameCounter ==
  ASSUME NEW f \in Frame
  PROVE  f.i \in Nat /\ f.i + 1 \in Nat /\ f.state \in States
  BY DEF Frame

LEMMA PushType ==
  ASSUME TypeOK, NEW t \in Threads, NEW f \in Frame, Push(t, f)
  PROVE  /\ depth' \in [Threads -> 0..MaxDepth]
         /\ frame' \in [Threads -> [1..MaxDepth -> Frame]]
<1>1. depth[t] + 1 \in 0..MaxDepth /\ depth[t] + 1 \in 1..MaxDepth
  BY DepthType DEF Push
<1>2. depth' = [depth EXCEPT ![t] = depth[t] + 1]
  BY DEF Push
<1>3. frame' = [frame EXCEPT ![t] = [@ EXCEPT ![depth[t] + 1] = f]]
  BY DEF Push
<1> QED
  BY Zenon, <1>1, <1>2, <1>3, DepthUpdate, FrameUpdate

LEMMA SwappedType ==
  ASSUME NEW b \in BOOLEAN
  PROVE  Swapped(b) \in Result
  BY DEF Swapped, Result

LEMMA ReturnType ==
  ASSUME TypeOK, NEW t \in Threads, depth[t] > 0, NEW b \in BOOLEAN, Return(t, b)
  PROVE  /\ pc' \in [Threads -> Pcs]
         /\ depth' \in [Threads -> 0..MaxDepth]
         /\ frame' \in [Threads -> [1..MaxDepth -> Frame]]
         /\ ret' \in [Threads -> Result]
<1>1. depth[t] - 1 \in 0..MaxDepth /\ depth[t] \in 1..MaxDepth
  BY SMTT(30), DepthType
<1>2. NoFrame \in Frame
  BY DEF NoFrame, Frame, States
<1>3. depth' \in [Threads -> 0..MaxDepth]
  <2>1. depth' = [depth EXCEPT ![t] = depth[t] - 1]
    BY DEF Return
  <2> QED
    BY Zenon, <1>1, <2>1, DepthUpdate
<1>4. frame' \in [Threads -> [1..MaxDepth -> Frame]]
  <2>1. frame' = [frame EXCEPT ![t] = [@ EXCEPT ![depth[t]] = NoFrame]]
    BY DEF Return
  <2> QED
    BY Zenon, <1>1, <1>2, <2>1, FrameUpdate
<1>5. Goto(t, "entry") \/ Goto(t, "read") \/ Goto(t, "idle")
  BY DEF Return
<1>6. {"entry", "read", "idle"} \subseteq Pcs
  BY DEF Pcs
<1>7. pc' \in [Threads -> Pcs]
  BY <1>5, <1>6, PcType
<1>8. ret' \in [Threads -> Result]
  <2>1. ret' = ret \/ ret' = [ret EXCEPT ![t] = Swapped(b)]
    BY DEF Return
  <2>2. ret' = ret => ret' \in [Threads -> Result]
    BY DEF TypeOK
  <2> QED
    BY <2>1, <2>2, SwappedType, RetUpdate
<1> QED
  BY <1>3, <1>4, <1>7, <1>8

LEMMA ForgetType ==
  ASSUME TypeOK, NEW t \in Threads, ForgetRdcss(t)
  PROVE  reg' \in [Threads -> Reg]
<1>1. [NoReg EXCEPT !.addr = reg[t].addr] \in Reg
  BY Zenon, RegType DEF NoReg, Reg
<1> QED
  BY Zenon, <1>1, RegUpdate DEF ForgetRdcss

LEMMA NextEntryType ==
  ASSUME TypeOK, NEW t \in Threads, depth[t] > 0, NextEntry(t)
  PROVE  /\ pc' \in [Threads -> Pcs]
         /\ frame' \in [Threads -> [1..MaxDepth -> Frame]]
<1>1. Top(t) \in Frame /\ depth[t] \in 1..MaxDepth
  BY TopFrame
<1>2. [Top(t) EXCEPT !.i = Top(t).i + 1] \in Frame
  BY Zenon, <1>1, FrameCounter, FrameWith
<1>3. frame' = [frame EXCEPT ![t] = [@ EXCEPT ![depth[t]] = [Top(t) EXCEPT !.i = Top(t).i + 1]]]
  BY DEF NextEntry, Top
<1>4. frame' \in [Threads -> [1..MaxDepth -> Frame]]
  BY Zenon, <1>1, <1>2, <1>3, FrameUpdate
<1>5. Goto(t, "decide") \/ Goto(t, "entry")
  BY DEF NextEntry, LoopHead
<1>6. {"decide", "entry"} \subseteq Pcs
  BY DEF Pcs
<1> QED
  BY <1>4, <1>5, <1>6, PcType

(* The record updates of rdcssRead, rdcssHelp and rdcss.                   *)
LEMMA RegWithAddr ==
  ASSUME NEW g \in Reg, NEW a \in Addrs \cup {NULL}
  PROVE  [g EXCEPT !.addr = a] \in Reg
  BY DEF Reg

LEMMA RegWithTag ==
  ASSUME NEW g \in Reg, NEW tg \in KcasTags \cup RdcssTags \cup {NoTag}
  PROVE  /\ [g EXCEPT !.tag = tg] \in Reg
         /\ [g EXCEPT !.tag = tg, !.helping = TRUE] \in Reg
<1>1. [g EXCEPT !.tag = tg] \in Reg
  BY DEF Reg
<1>2. [g EXCEPT !.tag = tg, !.helping = TRUE] \in Reg
  BY Zenon DEF Reg
<1> QED
  BY <1>1, <1>2

LEMMA RegWithCopy ==
  ASSUME NEW g \in Reg, NEW c \in Rdcss \cup {NoRdcss}
  PROVE  [g EXCEPT !.copy = c] \in Reg
  BY DEF Reg

LEMMA RegWithOk ==
  ASSUME NEW g \in Reg, NEW b \in BOOLEAN
  PROVE  [g EXCEPT !.ok = b] \in Reg
  BY DEF Reg

LEMMA TypeStart ==
  ASSUME TypeOK, NEW t \in Threads, start(t)
  PROVE  TypeOK'
<1> DEFINE d == [seq |-> kdesc[t].seq + 1, state |-> "UNDECIDED", entries |-> <<>>]
<1>1. d \in KcasDesc
  BY KdescType DEF KcasDesc, States
<1>2. kdesc' = [kdesc EXCEPT ![t] = d]
  BY DEF start
<1> HIDE DEF d
<1>3. kdesc' \in [Threads -> KcasDesc]
  BY Zenon, <1>1, <1>2, KdescUpdate
<1>4. building' \subseteq Threads
  BY Zenon DEF start, TypeOK
<1>5. UNCHANGED <<mem, rdesc, pc, depth, frame, reg, ret>>
  BY DEF start
<1> QED
  BY Zenon, <1>3, <1>4, <1>5 DEF TypeOK

(* What a caller adds is an entry.                                         *)
LEMMA AddedEntry ==
  ASSUME TypeOK, NEW t \in Threads, add(t), DescOK(t)
  PROVE  \E e \in Entry : kdesc' = [kdesc EXCEPT ![t] = [kdesc[t] EXCEPT !.entries = Append(@, e)]]
<1>1. PICK e \in EntriesOf[t][kdesc[t].seq] :
        kdesc' = [kdesc EXCEPT ![t].entries = Append(@, e)]
  BY Zenon DEF add
<1>2. EntriesOf[t] \in Seq(SUBSET Entry)
  BY ConstantsAssumption
<1>3. kdesc[t].seq \in 1..Len(EntriesOf[t])
  BY <1>2, KdescType DEF add, DescOK
<1>4. EntriesOf[t][kdesc[t].seq] \in SUBSET Entry
  BY <1>2, <1>3
<1> QED
  BY Zenon, <1>1, <1>4

LEMMA TypeAdd ==
  ASSUME TypeOK, NEW t \in Threads, add(t), DescOK(t)
  PROVE  TypeOK'
<1>1. PICK e \in Entry : kdesc' = [kdesc EXCEPT ![t] = [kdesc[t] EXCEPT !.entries = Append(@, e)]]
  BY AddedEntry
<1>2. Append(kdesc[t].entries, e) \in Seq(Entry)
  BY KdescType
<1>3. [kdesc[t] EXCEPT !.entries = Append(@, e)] \in KcasDesc
  BY Zenon, <1>2, KdescType DEF KcasDesc
<1>4. kdesc' \in [Threads -> KcasDesc]
  BY Zenon, <1>1, <1>3, KdescUpdate
<1>5. UNCHANGED <<building, mem, rdesc, pc, depth, frame, reg, ret>>
  BY DEF add
<1> QED
  BY <1>4, <1>5 DEF TypeOK

LEMMA TypeExecute ==
  ASSUME TypeOK, NEW t \in Threads, execute(t)
  PROVE  TypeOK'
<1> DEFINE s == kdesc[t].seq + 1
<1>1. PICK es \in SortedEntries(kdesc[t].entries) :
        /\ kdesc' = [kdesc EXCEPT ![t].seq = s, ![t].entries = es]
        /\ Push(t, [tag |-> KcasTag(t, s), seq |-> s, entries |-> es,
                    helping |-> FALSE, i |-> 1, state |-> "UNDECIDED"])
  BY Zenon DEF execute
<1>2. es \in Seq(Entry)
  BY Zenon, <1>1, KdescType, SortedType
<1>3. s \in Nat
  BY KdescType
<1> HIDE DEF s
<1>4. [kdesc[t] EXCEPT !.seq = s, !.entries = es] \in KcasDesc
  BY Zenon, <1>2, <1>3, KdescType DEF KcasDesc
<1>5. kdesc' = [kdesc EXCEPT ![t] = [kdesc[t] EXCEPT !.seq = s, !.entries = es]]
  BY Zenon, <1>1
<1>6. kdesc' \in [Threads -> KcasDesc]
  BY Zenon, <1>4, <1>5, KdescUpdate
<1>7. KcasTag(t, s) \in KcasTags
  BY Zenon, <1>3 DEF KcasTag, KcasTags
<1>8. [tag |-> KcasTag(t, s), seq |-> s, entries |-> es,
       helping |-> FALSE, i |-> 1, state |-> "UNDECIDED"] \in Frame
  BY <1>2, <1>3, <1>7 DEF Frame, States
<1>9. /\ depth' \in [Threads -> 0..MaxDepth]
      /\ frame' \in [Threads -> [1..MaxDepth -> Frame]]
  BY <1>1, <1>8, PushType
<1>10. pc' \in [Threads -> Pcs]
  BY PcType DEF execute, Pcs
<1>11. ret' \in [Threads -> Result]
  BY Zenon, RetUpdate DEF execute, Result
<1>12. building' \subseteq Threads
  BY DEF execute, TypeOK
<1>13. UNCHANGED <<mem, rdesc, reg>>
  BY Zenon DEF execute
<1> QED
  BY Zenon, <1>6, <1>9, <1>10, <1>11, <1>12, <1>13 DEF TypeOK

LEMMA TypeReadPtr ==
  ASSUME TypeOK, NEW t \in Threads, NEW a \in ReadsOf[t], readPtr(t, a)
  PROVE  TypeOK'
<1>1. a \in Addrs
  BY ConstantsAssumption
<1>2. reg' = [reg EXCEPT ![t] = [reg[t] EXCEPT !.addr = a]]
  BY DEF readPtr
<1>3. reg' \in [Threads -> Reg]
  BY Zenon, <1>1, <1>2, RegType, RegWithAddr, RegUpdate
<1>4. pc' \in [Threads -> Pcs]
  BY PcType DEF readPtr, Pcs
<1>5. ret' \in [Threads -> Result]
  BY Zenon, RetUpdate DEF readPtr, Result
<1>6. UNCHANGED <<building, mem, kdesc, rdesc, depth, frame>>
  BY DEF readPtr
<1> QED
  BY ZenonT(30), <1>3, <1>4, <1>5, <1>6 DEF TypeOK

LEMMA TypeRead ==
  ASSUME TypeOK, NEW t \in Threads, rdcssRead(t), reg[t].addr \in Addrs
  PROVE  TypeOK'
<1> DEFINE w == mem[reg[t].addr]
<1>1. w \in Word
  BY DEF TypeOK
<1>2. /\ pc' \in [Threads -> Pcs]
      /\ reg' \in [Threads -> Reg]
      /\ ret' \in [Threads -> Result]
  <2>1. CASE /\ isRdcss(w) /\ Goto(t, "copy_rdcss") /\ UNCHANGED ret
             /\ reg' = [reg EXCEPT ![t].tag = w, ![t].helping = TRUE]
    <3>1. reg' = [reg EXCEPT ![t] = [reg[t] EXCEPT !.tag = w, !.helping = TRUE]]
      BY Zenon, <2>1
    <3>2. w \in RdcssTags
      BY <1>1, <2>1, WordKinds
    <3> HIDE DEF w
    <3>3. reg' \in [Threads -> Reg]
      BY Zenon, <3>1, <3>2, RegType, RegWithTag, RegUpdate
    <3>4. pc' \in [Threads -> Pcs]
      BY <2>1, PcType DEF Pcs
    <3> QED
      BY <2>1, <3>3, <3>4 DEF TypeOK
  <2>2. CASE /\ isKcas(w) /\ Goto(t, "copy_kcas") /\ UNCHANGED ret
             /\ reg' = [reg EXCEPT ![t].tag = w]
    <3>1. reg' = [reg EXCEPT ![t] = [reg[t] EXCEPT !.tag = w]]
      BY <2>2
    <3>2. w \in KcasTags
      BY <1>1, <2>2, WordKinds
    <3> HIDE DEF w
    <3>3. reg' \in [Threads -> Reg]
      BY Zenon, <3>1, <3>2, RegType, RegWithTag, RegUpdate
    <3>4. pc' \in [Threads -> Pcs]
      BY <2>2, PcType DEF Pcs
    <3> QED
      BY Zenon, <2>2, <3>3, <3>4 DEF TypeOK
  <2>3. CASE /\ ~ isRdcss(w) /\ ~ isKcas(w) /\ Goto(t, "idle")
             /\ reg' = [reg EXCEPT ![t].addr = NULL]
             /\ ret' = [ret EXCEPT ![t] = Got(w.val)]
    <3>1. reg' = [reg EXCEPT ![t] = [reg[t] EXCEPT !.addr = NULL]]
      BY <2>3
    <3>2. w \in Plain
      BY Zenon, <1>1, <2>3, WordKinds
    <3>3. Got(w.val) \in Result
      BY <3>2 DEF Plain, Got, Result
    <3> HIDE DEF w
    <3>4. reg' \in [Threads -> Reg]
      BY Zenon, <3>1, RegType, RegWithAddr, RegUpdate
    <3>5. pc' \in [Threads -> Pcs]
      BY <2>3, PcType DEF Pcs
    <3>6. ret' \in [Threads -> Result]
      BY Zenon, <2>3, <3>3, RetUpdate
    <3> QED
      BY <3>4, <3>5, <3>6
  <2> QED
    BY <2>1, <2>2, <2>3 DEF rdcssRead
<1>3. UNCHANGED <<building, mem, kdesc, rdesc, depth, frame>>
  BY DEF rdcssRead
<1> QED
  BY Zenon, <1>2, <1>3 DEF TypeOK

LEMMA TypeRdcssCopy ==
  ASSUME TypeOK, NEW t \in Threads, rdcssCopy(t), reg[t].tag \in RdcssTags
  PROVE  TypeOK'
<1>1. reg[t].tag.tid \in Threads
  BY DEF RdcssTags
<1>2. reg' = [reg EXCEPT ![t] = [reg[t] EXCEPT !.copy = rdesc[reg[t].tag.tid].body]]
  BY DEF rdcssCopy
<1>3. reg' \in [Threads -> Reg]
  BY Zenon, <1>1, <1>2, RegType, RdescType, RegWithCopy, RegUpdate
<1>4. pc' \in [Threads -> Pcs]
  BY PcType DEF rdcssCopy, Pcs
<1>5. UNCHANGED <<building, mem, kdesc, rdesc, depth, frame, ret>>
  BY DEF rdcssCopy
<1> QED
  BY Zenon, <1>3, <1>4, <1>5 DEF TypeOK

LEMMA RetryType ==
  ASSUME TypeOK, NEW t \in Threads, Retry(t)
  PROVE  pc' \in [Threads -> Pcs] /\ reg' \in [Threads -> Reg]
<1>1. Goto(t, "rdcss") \/ Goto(t, "read")
  BY DEF Retry
<1>2. {"rdcss", "read"} \subseteq Pcs
  BY DEF Pcs
<1> QED
  BY <1>1, <1>2, PcType, ForgetType DEF Retry

LEMMA TypeRdcssCheck ==
  ASSUME TypeOK, NEW t \in Threads, rdcssCheck(t)
  PROVE  TypeOK'
<1>1. CASE Retry(t)
  BY Zenon, <1>1, RetryType DEF rdcssCheck, TypeOK
<1>2. CASE Goto(t, "rdcss_state") /\ UNCHANGED reg
  <2>1. pc' \in [Threads -> Pcs]
    BY <1>2, PcType DEF Pcs
  <2> QED
    BY <1>2, <2>1 DEF rdcssCheck, TypeOK
<1> QED
  BY Zenon, <1>1, <1>2 DEF rdcssCheck

LEMMA TypeRdcssState ==
  ASSUME TypeOK, NEW t \in Threads, rdcssReadState(t)
  PROVE  TypeOK'
<1> DEFINE b == InState(reg[t].copy.ktag, "UNDECIDED")
<1>1. b \in BOOLEAN
  BY DEF InState
<1>2. reg' = [reg EXCEPT ![t] = [reg[t] EXCEPT !.ok = b]]
  BY DEF rdcssReadState
<1> HIDE DEF b
<1>3. reg' \in [Threads -> Reg]
  BY Zenon, <1>1, <1>2, RegType, RegWithOk, RegUpdate
<1>4. pc' \in [Threads -> Pcs]
  BY PcType DEF rdcssReadState, Pcs
<1>5. UNCHANGED <<building, mem, kdesc, rdesc, depth, frame, ret>>
  BY Zenon DEF rdcssReadState
<1> QED
  BY Zenon, <1>3, <1>4, <1>5 DEF TypeOK

LEMMA TypeRdcssHelp ==
  ASSUME TypeOK, NEW t \in Threads, rdcssHelp(t), reg[t].copy \in Rdcss,
         ~ reg[t].helping => depth[t] > 0
  PROVE  TypeOK'
<1>1. PICK w : /\ w \in {reg[t].copy.ktag, Val(reg[t].copy.old)}
               /\ BoolCas(reg[t].copy.addr, reg[t].tag, w)
  BY Zenon DEF rdcssHelp
<1>2. reg[t].copy.addr \in Addrs /\ w \in Word
  BY <1>1 DEF Rdcss, Word, Plain, Val
<1>3. mem' \in [Addrs -> Word]
  BY Zenon, <1>1, <1>2, CasType
<1>4. UNCHANGED <<building, kdesc, rdesc, depth, ret>>
  BY Zenon DEF rdcssHelp
<1>5. CASE Retry(t) /\ UNCHANGED frame
  BY Zenon, <1>3, <1>4, <1>5, RetryType DEF TypeOK
<1>6. CASE ~ reg[t].helping /\ NextEntry(t) /\ ForgetRdcss(t)
  BY Zenon, <1>3, <1>4, <1>6, NextEntryType, ForgetType DEF TypeOK
<1> QED
  BY Zenon, <1>5, <1>6 DEF rdcssHelp

LEMMA TypeKcasCopy ==
  ASSUME TypeOK, NEW t \in Threads, kcasCopy(t), reg[t].tag \in KcasTags
  PROVE  TypeOK'
<1> DEFINE d == kdesc[reg[t].tag.tid]
           f == [tag |-> reg[t].tag, seq |-> d.seq, entries |-> d.entries,
                 helping |-> TRUE, i |-> 2, state |-> "UNDECIDED"]
<1>1. reg[t].tag.tid \in Threads
  BY Zenon DEF KcasTags
<1>2. f \in Frame
  BY <1>1, KdescType DEF Frame, States
<1>3. Push(t, f)
  BY DEF kcasCopy
<1> HIDE DEF f
<1>4. /\ depth' \in [Threads -> 0..MaxDepth]
      /\ frame' \in [Threads -> [1..MaxDepth -> Frame]]
  BY <1>2, <1>3, PushType
<1>5. reg' = [reg EXCEPT ![t] = [reg[t] EXCEPT !.tag = NoTag]]
  BY DEF kcasCopy
<1>6. reg' \in [Threads -> Reg]
  BY Zenon, <1>5, RegType, RegWithTag, RegUpdate
<1>7. pc' \in [Threads -> Pcs]
  BY PcType DEF kcasCopy, Pcs
<1>8. UNCHANGED <<building, mem, kdesc, rdesc, ret>>
  BY DEF kcasCopy
<1> QED
  BY Zenon, <1>4, <1>6, <1>7, <1>8 DEF TypeOK

LEMMA TypeKcasCheck ==
  ASSUME TypeOK, NEW t \in Threads, kcasCheck(t), depth[t] > 0
  PROVE  TypeOK'
<1>1. UNCHANGED <<building, mem, kdesc, rdesc, reg>>
  BY DEF kcasCheck
<1>2. CASE Goto(t, "help") /\ UNCHANGED <<depth, frame, ret>>
  <2>1. pc' \in [Threads -> Pcs]
    BY <1>2, PcType DEF Pcs
  <2> QED
    BY Zenon, <1>1, <1>2, <2>1 DEF TypeOK
<1>3. CASE Return(t, FALSE)
  BY Zenon, <1>1, <1>3, ReturnType DEF TypeOK
<1> QED
  BY Zenon, <1>2, <1>3 DEF kcasCheck

LEMMA TypeHelp ==
  ASSUME TypeOK, NEW t \in Threads, helpReadState(t), depth[t] > 0
  PROVE  TypeOK'
<1>1. UNCHANGED <<building, mem, kdesc, rdesc, reg>>
  BY Zenon DEF helpReadState
<1>2. CASE Return(t, FALSE)
  BY Zenon, <1>1, <1>2, ReturnType DEF TypeOK
<1>3. CASE /\ frame' = [frame EXCEPT ![t][depth[t]].state = "SUCCEEDED"]
           /\ Goto(t, LoopHead(Top(t).entries, Top(t).i))
           /\ UNCHANGED <<depth, ret>>
  <2>1. Top(t) \in Frame /\ depth[t] \in 1..MaxDepth /\ "SUCCEEDED" \in States
    BY TopFrame DEF States
  <2>2. [Top(t) EXCEPT !.state = "SUCCEEDED"] \in Frame
    BY Zenon, <2>1, FrameCounter, FrameWith
  <2>3. frame' = [frame EXCEPT ![t] = [@ EXCEPT ![depth[t]] =
                                          [Top(t) EXCEPT !.state = "SUCCEEDED"]]]
    BY <1>3 DEF Top
  <2>4. frame' \in [Threads -> [1..MaxDepth -> Frame]]
    BY Zenon, <2>1, <2>2, <2>3, FrameUpdate
  <2>5. Goto(t, "decide") \/ Goto(t, "entry")
    BY <1>3 DEF LoopHead
  <2>6. pc' \in [Threads -> Pcs]
    BY Zenon, <2>5, PcType DEF Pcs
  <2> QED
    BY Zenon, <1>1, <1>3, <2>4, <2>6 DEF TypeOK
<1>4. CASE Goto(t, "phase2") /\ UNCHANGED <<frame, depth, ret>>
  <2>1. pc' \in [Threads -> Pcs]
    BY Zenon, <1>4, PcType DEF Pcs
  <2> QED
    BY Zenon, <1>1, <1>4, <2>1 DEF TypeOK
<1> QED
  BY Zenon, <1>2, <1>3, <1>4 DEF helpReadState

LEMMA TypeRdcssNew ==
  ASSUME TypeOK, NEW t \in Threads, rdcssNew(t)
  PROVE  TypeOK'
<1>1. [rdesc[t] EXCEPT !.seq = rdesc[t].seq + 1] \in RdcssDesc
  BY RdescType DEF RdcssDesc
<1>2. rdesc' = [rdesc EXCEPT ![t] = [rdesc[t] EXCEPT !.seq = rdesc[t].seq + 1]]
  BY DEF rdcssNew
<1>3. rdesc' \in [Threads -> RdcssDesc]
  BY Zenon, <1>1, <1>2, RdescUpdate
<1>4. pc' \in [Threads -> Pcs]
  BY PcType DEF rdcssNew, Pcs
<1>5. UNCHANGED <<building, mem, kdesc, depth, frame, reg, ret>>
  BY DEF rdcssNew
<1> QED
  BY <1>3, <1>4, <1>5 DEF TypeOK

LEMMA TypeRdcssInitialized ==
  ASSUME TypeOK, NEW t \in Threads, rdcssInitialized(t),
         CurrentEntry(t) \in Entry, Top(t).tag \in KcasTags
  PROVE  TypeOK'
<1>1. RdcssFor(t) \in Rdcss
  BY Zenon DEF RdcssFor, Rdcss, Entry
<1>2. rdesc' = [rdesc EXCEPT ![t] = [seq |-> rdesc[t].seq + 1, body |-> RdcssFor(t)]]
  BY Zenon DEF rdcssInitialized, RdcssFor
<1>3. [seq |-> rdesc[t].seq + 1, body |-> RdcssFor(t)] \in RdcssDesc
  BY <1>1, RdescType DEF RdcssDesc
<1>4. rdesc' \in [Threads -> RdcssDesc]
  BY Zenon, <1>2, <1>3, RdescUpdate
<1>5. pc' \in [Threads -> Pcs]
  BY Zenon, PcType DEF rdcssInitialized, Pcs
<1>6. UNCHANGED <<building, mem, kdesc, depth, frame, reg, ret>>
  BY DEF rdcssInitialized
<1> QED
  BY Zenon, <1>4, <1>5, <1>6 DEF TypeOK

LEMMA TypeRdcss ==
  ASSUME TypeOK, NEW t \in Threads, rdcss(t), depth[t] > 0, CurrentEntry(t) \in Entry
  PROVE  TypeOK'
<1> DEFINE a == CurrentEntry(t).addr
           w == mem[a]
           mine == RdcssTag(t, rdesc[t].seq)
<1>1. a \in Addrs
  BY DEF Entry
<1>2. w \in Word
  BY Zenon, <1>1 DEF TypeOK
<1>3. mine \in RdcssTags /\ mine \in Word
  BY Zenon, RdescType DEF RdcssTag, RdcssTags, Word
<1>4. UNCHANGED <<building, kdesc, rdesc, depth, ret>>
  BY DEF rdcss
<1>5. CASE /\ mem' = [mem EXCEPT ![a] = mine]
           /\ reg' = [reg EXCEPT ![t].tag = mine, ![t].copy = rdesc[t].body]
           /\ Goto(t, "rdcss_state") /\ UNCHANGED frame
  <2>1. reg' = [reg EXCEPT ![t] = [[reg[t] EXCEPT !.tag = mine] EXCEPT !.copy = rdesc[t].body]]
    BY Zenon, <1>5
  <2>2. [reg[t] EXCEPT !.tag = mine] \in Reg
    BY Zenon, <1>3, RegType, RegWithTag
  <2>3. [[reg[t] EXCEPT !.tag = mine] EXCEPT !.copy = rdesc[t].body] \in Reg
    BY Zenon, <2>2, RdescType, RegWithCopy
  <2>4. reg' \in [Threads -> Reg]
    BY Zenon, <2>1, <2>3, RegUpdate
  <2>5. mem' \in [Addrs -> Word]
    BY Zenon, <1>1, <1>3, <1>5, MemUpdate
  <2>6. pc' \in [Threads -> Pcs]
    BY <1>5, PcType DEF Pcs
  <2> QED
    BY Zenon, <1>4, <1>5, <2>4, <2>5, <2>6 DEF TypeOK
<1>6. CASE /\ isRdcss(w) /\ Goto(t, "copy_rdcss") /\ UNCHANGED <<mem, frame>>
           /\ reg' = [reg EXCEPT ![t].tag = w, ![t].helping = TRUE]
  <2>1. reg' = [reg EXCEPT ![t] = [reg[t] EXCEPT !.tag = w, !.helping = TRUE]]
    BY Zenon, <1>6
  <2>2. w \in RdcssTags
    BY <1>2, <1>6, WordKinds
  <2> HIDE DEF w
  <2>3. reg' \in [Threads -> Reg]
    BY Zenon, <2>1, <2>2, RegType, RegWithTag, RegUpdate
  <2>4. pc' \in [Threads -> Pcs]
    BY <1>6, PcType DEF Pcs
  <2> QED
    BY Zenon, <1>4, <1>6, <2>3, <2>4 DEF TypeOK
<1>7. CASE /\ isKcas(w) /\ Goto(t, "copy_kcas") /\ UNCHANGED <<mem, frame>>
           /\ reg' = [reg EXCEPT ![t].tag = w]
  <2>1. reg' = [reg EXCEPT ![t] = [reg[t] EXCEPT !.tag = w]]
    BY <1>7
  <2>2. w \in KcasTags
    BY <1>2, <1>7, WordKinds
  <2> HIDE DEF w
  <2>3. reg' \in [Threads -> Reg]
    BY Zenon, <2>1, <2>2, RegType, RegWithTag, RegUpdate
  <2>4. pc' \in [Threads -> Pcs]
    BY Zenon, <1>7, PcType DEF Pcs
  <2> QED
    BY Zenon, <1>4, <1>7, <2>3, <2>4 DEF TypeOK
<1>8. CASE NextEntry(t) /\ UNCHANGED <<mem, reg>>
  BY Zenon, <1>4, <1>8, NextEntryType DEF TypeOK
<1>9. CASE /\ frame' = [frame EXCEPT ![t][depth[t]].state = "FAILED"]
           /\ Goto(t, "decide") /\ UNCHANGED <<mem, reg>>
  <2>1. Top(t) \in Frame /\ depth[t] \in 1..MaxDepth /\ "FAILED" \in States
    BY Zenon, TopFrame DEF States
  <2>2. [Top(t) EXCEPT !.state = "FAILED"] \in Frame
    BY Zenon, <2>1, FrameCounter, FrameWith
  <2>3. frame' = [frame EXCEPT ![t] = [@ EXCEPT ![depth[t]] =
                                          [Top(t) EXCEPT !.state = "FAILED"]]]
    BY <1>9 DEF Top
  <2>4. frame' \in [Threads -> [1..MaxDepth -> Frame]]
    BY Zenon, <2>1, <2>2, <2>3, FrameUpdate
  <2>5. pc' \in [Threads -> Pcs]
    BY Zenon, <1>9, PcType DEF Pcs
  <2> QED
    BY Zenon, <1>4, <1>9, <2>4, <2>5 DEF TypeOK
<1> QED
  BY <1>5, <1>6, <1>7, <1>8, <1>9 DEF rdcss

LEMMA TypeDecide ==
  ASSUME TypeOK, NEW t \in Threads, decide(t), depth[t] > 0, Top(t).tag \in KcasTags
  PROVE  TypeOK'
<1> DEFINE o == Top(t).tag.tid
<1>1. o \in Threads /\ Top(t).state \in States
  BY Zenon, TopFrame, FrameCounter DEF KcasTags
<1>2. kdesc' \in [Threads -> KcasDesc]
  <2>1. CASE kdesc' = kdesc
    BY <2>1 DEF TypeOK
  <2>2. CASE kdesc' = [kdesc EXCEPT ![o].state = Top(t).state]
    <3>1. kdesc' = [kdesc EXCEPT ![o] = [kdesc[o] EXCEPT !.state = Top(t).state]]
      BY <2>2
    <3> HIDE DEF o
    <3>2. [kdesc[o] EXCEPT !.state = Top(t).state] \in KcasDesc
      BY <1>1, KdescType DEF KcasDesc
    <3> QED
      BY Zenon, <1>1, <3>1, <3>2, KdescUpdate
  <2> QED
    BY <2>1, <2>2 DEF decide
<1>3. pc' \in [Threads -> Pcs]
  BY PcType DEF decide, Pcs
<1>4. UNCHANGED <<building, mem, rdesc, depth, frame, reg, ret>>
  BY DEF decide
<1> QED
  BY Zenon, <1>2, <1>3, <1>4 DEF TypeOK

LEMMA TypePhase2 ==
  ASSUME TypeOK, NEW t \in Threads, phase2(t), depth[t] > 0, Top(t).tag \in KcasTags
  PROVE  TypeOK'
<1>1. UNCHANGED <<building, mem, kdesc, rdesc, reg>>
  BY DEF phase2
<1>2. CASE Return(t, FALSE)
  BY Zenon, <1>1, <1>2, ReturnType DEF TypeOK
<1>3. CASE /\ frame' = [frame EXCEPT ![t][depth[t]] =
                          [Top(t) EXCEPT !.i = 1, !.state = kdesc[Top(t).tag.tid].state]]
           /\ Goto(t, "unlock") /\ UNCHANGED <<depth, ret>>
  <2>1. Top(t).tag.tid \in Threads /\ Top(t) \in Frame /\ depth[t] \in 1..MaxDepth
    BY Zenon, TopFrame DEF KcasTags
  <2>2. kdesc[Top(t).tag.tid].state \in States /\ 1 \in Nat
    BY <2>1, KdescType
  <2>3. [Top(t) EXCEPT !.i = 1, !.state = kdesc[Top(t).tag.tid].state] \in Frame
    BY Zenon, <2>1, <2>2, FrameWith
  <2>4. frame' \in [Threads -> [1..MaxDepth -> Frame]]
    BY Zenon, <1>3, <2>1, <2>3, FrameUpdate
  <2>5. pc' \in [Threads -> Pcs]
    BY <1>3, PcType DEF Pcs
  <2> QED
    BY Zenon, <1>1, <1>3, <2>4, <2>5 DEF TypeOK
<1> QED
  BY Zenon, <1>2, <1>3 DEF phase2

LEMMA TypeUnlock ==
  ASSUME TypeOK, NEW t \in Threads, unlock(t), depth[t] > 0, CurrentEntry(t) \in Entry
  PROVE  TypeOK'
<1>1. PICK w \in {Val(CurrentEntry(t).new), Val(CurrentEntry(t).old)} :
        BoolCas(CurrentEntry(t).addr, Top(t).tag, w)
  BY DEF unlock
<1>2. w \in Word /\ CurrentEntry(t).addr \in Addrs
  BY SMTT(30), <1>1 DEF Entry, Word, Plain, Val
<1>3. mem' \in [Addrs -> Word]
  BY <1>1, <1>2, CasType
<1>4. UNCHANGED <<building, kdesc, rdesc, reg>>
  BY Zenon DEF unlock
<1>5. CASE Return(t, Top(t).state = "SUCCEEDED")
  <2>1. PICK b \in BOOLEAN : Return(t, b)
    BY Zenon, <1>5
  <2> QED
    BY ZenonT(30), <1>3, <1>4, <2>1, ReturnType DEF TypeOK
<1>6. CASE frame' = [frame EXCEPT ![t][depth[t]].i = @ + 1] /\ UNCHANGED <<pc, depth, ret>>
  <2>1. Top(t) \in Frame /\ depth[t] \in 1..MaxDepth
    BY TopFrame
  <2>2. [Top(t) EXCEPT !.i = Top(t).i + 1] \in Frame
    BY Zenon, <2>1, FrameCounter, FrameWith
  <2>3. frame' = [frame EXCEPT ![t] = [@ EXCEPT ![depth[t]] =
                                          [Top(t) EXCEPT !.i = Top(t).i + 1]]]
    BY <1>6 DEF Top
  <2>4. frame' \in [Threads -> [1..MaxDepth -> Frame]]
    BY ZenonT(30), <2>1, <2>2, <2>3, FrameUpdate
  <2> QED
    BY Zenon, <1>3, <1>4, <1>6, <2>4 DEF TypeOK
<1> QED
  BY <1>5, <1>6 DEF unlock

(* What the invariant says of a thread inside help.                        *)
LEMMA InHelp ==
  ASSUME TypeOK, NEW t \in Threads, ThreadOK(t), pc[t] \in HelpPcs
  PROVE  /\ depth[t] > 0
         /\ FrameOK(t, depth[t])
         /\ Top(t).tag \in KcasTags
         /\ pc[t] \in EntryPcs => CurrentEntry(t) \in Entry
<1>1. depth[t] > 0
  BY DEF ThreadOK, StackOK
<1>2. depth[t] \in 1..depth[t]
  BY <1>1, DepthType
<1>3. FrameOK(t, depth[t])
  BY <1>2 DEF ThreadOK
<1>4. Top(t).tag \in KcasTags
  BY Zenon, <1>3 DEF FrameOK, CopyOK, KIssued, Top
<1>5. Top(t).i >= 1 /\ (pc[t] \in EntryPcs => Top(t).i <= Len(Top(t).entries))
  BY Zenon, <1>3 DEF FrameOK, AtEntry, Top
<1> QED
  BY ZenonT(30), <1>1, <1>3, <1>4, <1>5, CurrentEntryType

LEMMA TypeStep == Inv1 /\ [Next]_vars => TypeOK'
<1> SUFFICES ASSUME Inv1, [Next]_vars PROVE TypeOK'
  OBVIOUS
<1>0. TypeOK /\ \A t \in Threads : ThreadOK(t)
  BY DEF Inv1
<1>1. ASSUME NEW t \in Threads, start(t) PROVE TypeOK'
  BY <1>0, <1>1, TypeStart
<1>2. ASSUME NEW t \in Threads, add(t) PROVE TypeOK'
  BY Zenon, <1>0, <1>2, TypeAdd DEF ThreadOK
<1>3. ASSUME NEW t \in Threads, execute(t) PROVE TypeOK'
  BY <1>0, <1>3, TypeExecute
<1>4. ASSUME NEW t \in Threads, NEW a \in ReadsOf[t], readPtr(t, a) PROVE TypeOK'
  BY <1>0, <1>4, TypeReadPtr
<1>5. ASSUME NEW t \in Threads, rdcssRead(t) PROVE TypeOK'
  <2>1. reg[t].addr \in Addrs
    BY <1>0, <1>5 DEF ThreadOK, StackOK, rdcssRead
  <2> QED
    BY Zenon, <1>0, <1>5, <2>1, TypeRead
<1>6. ASSUME NEW t \in Threads, rdcssCopy(t) PROVE TypeOK'
  <2>1. RegOK(t) /\ pc[t] = "copy_rdcss"
    BY Zenon, <1>0, <1>6 DEF ThreadOK, rdcssCopy
  <2>2. reg[t].tag \in RdcssTags
    BY ONLY Zenon, <2>1 DEF RegOK, RIssued, RdcssPcs
  <2> QED
    BY <1>0, <1>6, <2>2, TypeRdcssCopy
<1>7. ASSUME NEW t \in Threads, rdcssCheck(t) PROVE TypeOK'
  BY <1>0, <1>7, TypeRdcssCheck
<1>8. ASSUME NEW t \in Threads, rdcssReadState(t) PROVE TypeOK'
  BY <1>0, <1>8, TypeRdcssState
<1>9. ASSUME NEW t \in Threads, rdcssHelp(t) PROVE TypeOK'
  <2>1. RegOK(t) /\ pc[t] = "rdcss_finish"
    BY ZenonT(30), <1>0, <1>9 DEF ThreadOK, rdcssHelp
  <2>2. reg[t].copy \in Rdcss /\ (~ reg[t].helping => depth[t] > 0)
    BY ONLY Zenon, <2>1 DEF RegOK, Finishing
  <2> QED
    BY Zenon, <1>0, <1>9, <2>2, TypeRdcssHelp
<1>10. ASSUME NEW t \in Threads, kcasCopy(t) PROVE TypeOK'
  <2>1. RegOK(t) /\ pc[t] = "copy_kcas"
    BY Zenon, <1>0, <1>10 DEF ThreadOK, kcasCopy
  <2>2. reg[t].tag \in KcasTags
    BY ONLY ZenonT(30), <2>1 DEF RegOK, KIssued
  <2> QED
    BY <1>0, <1>10, <2>2, TypeKcasCopy
<1>11. ASSUME NEW t \in Threads, kcasCheck(t) PROVE TypeOK'
  <2>1. pc[t] \in HelpPcs
    BY Zenon, <1>11 DEF kcasCheck, HelpPcs
  <2> QED
    BY Zenon, <1>0, <1>11, <2>1, InHelp, TypeKcasCheck
<1>12. ASSUME NEW t \in Threads, helpReadState(t) PROVE TypeOK'
  <2>1. pc[t] \in HelpPcs
    BY Zenon, <1>12 DEF helpReadState, HelpPcs
  <2> QED
    BY <1>0, <1>12, <2>1, InHelp, TypeHelp
<1>13. ASSUME NEW t \in Threads, rdcssNew(t) PROVE TypeOK'
  BY <1>0, <1>13, TypeRdcssNew
<1>14. ASSUME NEW t \in Threads, rdcssInitialized(t) PROVE TypeOK'
  <2>1. pc[t] \in HelpPcs /\ pc[t] \in EntryPcs
    BY Zenon, <1>14 DEF rdcssInitialized, HelpPcs, EntryPcs
  <2> QED
    BY Zenon, <1>0, <1>14, <2>1, InHelp, TypeRdcssInitialized
<1>15. ASSUME NEW t \in Threads, rdcss(t) PROVE TypeOK'
  <2>1. pc[t] \in HelpPcs /\ pc[t] \in EntryPcs
    BY Zenon, <1>15 DEF rdcss, HelpPcs, EntryPcs
  <2> QED
    BY Zenon, <1>0, <1>15, <2>1, InHelp, TypeRdcss
<1>16. ASSUME NEW t \in Threads, decide(t) PROVE TypeOK'
  <2>1. pc[t] \in HelpPcs
    BY <1>16 DEF decide, HelpPcs
  <2> QED
    BY Zenon, <1>0, <1>16, <2>1, InHelp, TypeDecide
<1>17. ASSUME NEW t \in Threads, phase2(t) PROVE TypeOK'
  <2>1. pc[t] \in HelpPcs
    BY Zenon, <1>17 DEF phase2, HelpPcs
  <2> QED
    BY <1>0, <1>17, <2>1, InHelp, TypePhase2
<1>18. ASSUME NEW t \in Threads, unlock(t) PROVE TypeOK'
  <2>1. pc[t] \in HelpPcs /\ pc[t] \in EntryPcs
    BY Zenon, <1>18 DEF unlock, HelpPcs, EntryPcs
  <2> QED
    BY <1>0, <1>18, <2>1, InHelp, TypeUnlock
<1>19. CASE UNCHANGED vars
  BY Zenon, <1>0, <1>19 DEF vars, TypeOK
<1> QED
  BY Zenon, <1>1, <1>2, <1>3, <1>4, <1>5, <1>6, <1>7, <1>8, <1>9, <1>10, <1>11, <1>12, <1>13,
     <1>14, <1>15, <1>16, <1>17, <1>18, <1>19 DEF Next, Step

LEMMA QuietEvolves ==
  ASSUME TypeOK, UNCHANGED <<kdesc, rdesc, building>>
  PROVE  Evolves
<1>1. \A v \in Threads : kdesc[v].seq \in Nat /\ rdesc[v].seq \in Nat
  BY Zenon, KdescType, RdescType
<1> QED
  BY <1>1 DEF Evolves

LEMMA EvolvesStep == Inv1 /\ TypeOK' /\ [Next]_vars => Evolves
<1> SUFFICES ASSUME Inv1, TypeOK', [Next]_vars PROVE Evolves
  OBVIOUS
<1>0. TypeOK
  BY Zenon DEF Inv1
<1>1. ASSUME NEW t \in Threads, start(t) PROVE Evolves
  <2>1. /\ kdesc' = [kdesc EXCEPT ![t] = [seq |-> kdesc[t].seq + 1, state |-> "UNDECIDED",
                                          entries |-> <<>>]]
        /\ rdesc' = rdesc /\ building' = building \cup {t}
    BY Zenon, <1>1 DEF start
  <2>2. \A v \in Threads : v # t => kdesc'[v] = kdesc[v]
    BY Zenon, <1>0, <2>1 DEF TypeOK
  <2>3. kdesc'[t].seq = kdesc[t].seq + 1
    BY Zenon, <1>0, <2>1 DEF TypeOK
  <2> QED
    BY SMTT(30), <1>0, <2>1, <2>2, <2>3, KdescType, RdescType DEF Evolves
<1>2. ASSUME NEW t \in Threads, add(t) PROVE Evolves
  <2>1. PICK e : kdesc' = [kdesc EXCEPT ![t].entries = Append(@, e)]
    BY Zenon, <1>2 DEF add
  <2>2. \A v \in Threads : /\ kdesc'[v].seq = kdesc[v].seq
                           /\ v # t => kdesc'[v] = kdesc[v]
    BY Zenon, <1>0, <2>1, KdescType DEF TypeOK, KcasDesc
  <2>3. UNCHANGED <<rdesc, building>> /\ t \in building
    BY Zenon, <1>2 DEF add
  <2> QED
    BY <1>0, <2>2, <2>3, KdescType, RdescType DEF Evolves
<1>3. ASSUME NEW t \in Threads, execute(t) PROVE Evolves
  <2>1. PICK es : kdesc' = [kdesc EXCEPT ![t].seq = kdesc[t].seq + 1, ![t].entries = es]
    BY Zenon, <1>3 DEF execute
  <2>2. \A v \in Threads : v # t => kdesc'[v] = kdesc[v]
    BY Zenon, <1>0, <2>1 DEF TypeOK
  <2>3. kdesc'[t].seq = kdesc[t].seq + 1
    BY <1>0, <2>1 DEF TypeOK, KcasDesc
  <2>4. rdesc' = rdesc /\ building' = building \ {t}
    BY Zenon, <1>3 DEF execute
  <2> QED
    BY SMTT(30), <1>0, <2>2, <2>3, <2>4, KdescType, RdescType DEF Evolves
<1>4. ASSUME NEW t \in Threads, rdcssNew(t) \/ rdcssInitialized(t) PROVE Evolves
  <2>1. UNCHANGED <<kdesc, building>>
    BY <1>4 DEF rdcssNew, rdcssInitialized
  <2>2. \A v \in Threads : v # t => rdesc'[v] = rdesc[v]
    BY Zenon, <1>0, <1>4 DEF rdcssNew, rdcssInitialized, TypeOK
  <2>3. rdesc'[t].seq = rdesc[t].seq + 1
    BY SMTT(30), <1>0, <1>4 DEF rdcssNew, rdcssInitialized, TypeOK, RdcssDesc
  <2> QED
    BY <1>0, <2>1, <2>2, <2>3, KdescType, RdescType DEF Evolves
<1>5. ASSUME NEW t \in Threads, decide(t) PROVE Evolves
  <2> DEFINE f == Top(t)
             o == f.tag.tid
  <2>1. UNCHANGED <<rdesc, building>>
    BY <1>5 DEF decide
  <2>2. CASE UNCHANGED kdesc
    BY <1>0, <2>1, <2>2, QuietEvolves
  <2>3. CASE /\ kdesc' = [kdesc EXCEPT ![o].state = f.state]
             /\ kdesc[o].state = "UNDECIDED"
    <3>1. \A v \in Threads : /\ kdesc'[v].seq = kdesc[v].seq
                             /\ kdesc'[v].entries = kdesc[v].entries
                             /\ v # o => kdesc'[v] = kdesc[v]
      BY Zenon, <1>0, <2>3 DEF TypeOK, KcasDesc
    <3> HIDE DEF o
    <3> QED
      BY SMTT(30), <1>0, <2>1, <2>3, <3>1, KdescType, RdescType DEF Evolves
  <2> QED
    BY <1>5, <2>2, <2>3 DEF decide
<1>6. ASSUME NEW t \in Threads, (\E a \in ReadsOf[t] : readPtr(t, a)) \/ rdcssRead(t)
               \/ rdcssCopy(t) \/ rdcssCheck(t) \/ rdcssReadState(t) \/ rdcssHelp(t)
      PROVE  Evolves
  <2>1. UNCHANGED <<kdesc, rdesc, building>>
    BY <1>6 DEF readPtr, rdcssRead, rdcssCopy, rdcssCheck, rdcssReadState, rdcssHelp
  <2> QED
    BY <1>0, <2>1, QuietEvolves
<1>7. ASSUME NEW t \in Threads, kcasCopy(t) \/ kcasCheck(t) \/ helpReadState(t)
               \/ rdcss(t) \/ phase2(t) \/ unlock(t)
      PROVE  Evolves
  <2>1. UNCHANGED <<kdesc, rdesc, building>>
    BY Zenon, <1>7 DEF kcasCopy, kcasCheck, helpReadState, rdcss, phase2, unlock
  <2> QED
    BY <1>0, <2>1, QuietEvolves
<1>8. CASE UNCHANGED vars
  BY <1>0, <1>8, QuietEvolves DEF vars
<1> QED
  BY ZenonT(30), <1>1, <1>2, <1>3, <1>4, <1>5, <1>6, <1>7, <1>8 DEF Next, Step

-----------------------------------------------------------------------------
(* What Inv1 to Inv3 and the way descriptors evolve amount to.             *)

LEMMA PrefixKnown == Inv3 => LockedPrefix
<1> SUFFICES ASSUME Inv3, NEW t \in Threads, NEW d \in 1..depth[t], InLoop(t, d),
                    InState(frame[t][d].tag, "UNDECIDED"),
                    NEW j \in 1..(frame[t][d].i - 1)
             PROVE  mem[frame[t][d].entries[j].addr] = frame[t][d].tag
  BY DEF LockedPrefix
<1>1. LockOK(frame[t][d], Stage(t, d))
  BY DEF Inv3, LocksOK
<1>2. Stage(t, d) \in {"loop", "decide"}
  BY DEF InLoop, Stage
<1> QED
  BY Zenon, <1>1, <1>2 DEF LockOK, Undecided

LEMMA SuccessLocked ==
  ASSUME Inv1, Inv3, TypeOK', Evolves, [Next]_vars, NEW t \in Threads,
         kdesc[t].state = "UNDECIDED", kdesc'[t].state = "SUCCEEDED",
         NEW i \in DOMAIN kdesc[t].entries
  PROVE  mem[kdesc[t].entries[i].addr] = KcasTag(t, kdesc[t].seq)
<1>1. PICK u \in Threads : Acts(u)
  BY ActsOrNot DEF vars
<1>2. /\ pc[u] = "decide" /\ t = Top(u).tag.tid /\ kdesc[t].seq = Top(u).seq
      /\ Top(u).state = "SUCCEEDED"
  BY SMTT(30), <1>1, StateStep
<1>3. depth[u] > 0
  BY <1>2 DEF Inv1, ThreadOK, StackOK, HelpPcs
<1>4. PICK f \in Frame : f = Top(u) /\ f = frame[u][depth[u]]
  BY <1>3, TopKnown DEF Top
<1>5. FrameOK(u, depth[u]) /\ CopyOK(f)
  BY Zenon, <1>3, <1>4, TopKnown
<1>6. f.seq = f.tag.seq /\ f.tag = KcasTag(t, kdesc[t].seq)
  <2>1. f.seq = f.tag.seq /\ f.tag \in KcasTags
    BY Zenon, <1>2, <1>4, <1>5 DEF FrameOK, Checked, CopyOK, KIssued
  <2>2. f.tag.tid = t /\ f.tag.seq = kdesc[t].seq
    BY Zenon, <1>2, <1>4, <2>1
  <2> QED
    BY <2>1, <2>2 DEF KcasTags, KcasTag
<1>7. Undecided(f.tag) /\ f.entries = kdesc[t].entries
  BY Zenon, <1>2, <1>4, <1>5, <1>6 DEF CopyOK, Undecided, InState, Alive
<1>8. LockOK(f, "decide")
  <2>1. ~ (depth[u] < depth[u])
    BY <1>3, TopKnown
  <2>2. Stage(u, depth[u]) = "decide"
    BY <1>2, <2>1 DEF Stage
  <2> QED
    BY ZenonT(30), <1>3, <1>4, <2>2, TopKnown
<1>9. f.i = Len(f.entries) + 1 /\ f.entries \in Seq(Entry)
  BY Zenon, <1>2, <1>4, <1>8 DEF LockOK, Frame
<1>10. i \in 1..(f.i - 1)
  BY <1>7, <1>9
<1> QED
  BY <1>6, <1>7, <1>8, <1>10 DEF LockOK

LEMMA DecisionKept ==
  ASSUME Inv1, TypeOK', Evolves, [Next]_vars, NEW t \in Threads,
         kdesc[t].state # "UNDECIDED", kdesc'[t].seq = kdesc[t].seq
  PROVE  kdesc'[t].state = kdesc[t].state
<1>1. CASE UNCHANGED vars
  BY <1>1 DEF vars
<1>2. ASSUME NEW u \in Threads, Acts(u) PROVE kdesc'[t].state = kdesc[t].state
  BY <1>2, StateStep DEF Inv1
<1> QED
  BY <1>1, <1>2, ActsOrNot
=============================================================================
