-------------------------- MODULE KCASHistoryProofs --------------------------
(***************************************************************************)
(* When the callers keep to the versions, KCAS implements AtomicKCAS: the  *)
(* step that decides a request is the abstract one, whoever takes it.      *)
(***************************************************************************)
EXTENDS KCASHistory, KCASTagsProofs

(* A request has at most MAX_KCAS entries, and nobody decides one that is  *)
(* being built.                                                            *)
DraftOK(t) ==
  /\ Len(kdesc[t].entries) <= MaxK
  /\ t \in building => kdesc[t].state = "UNDECIDED"

(* The history variables say what the state of the thread stands for; a    *)
(* word that differs now is known to have differed, and a reader has seen  *)
(* the word as it is now.                                                  *)
Agrees(t) ==
  /\ IsReading(t) =>
       \E s : val[reg[t].addr] \in s /\ call[t] = Strong!Reading(reg[t].addr, s)
  /\ ~ IsReading(t) /\ ~ Executing(t) => call[t] = Strong!Returned(ret[t])
  /\ Executing(t) /\ kdesc[t].state = "UNDECIDED" =>
       \E m \in BOOLEAN : /\ ~ Strong!Matches(val, Request(t)) => m
                          /\ call[t] = Strong!Pending(Request(t), m)
  /\ Executing(t) /\ kdesc[t].state # "UNDECIDED" =>
       call[t] = Strong!Decided(kdesc[t].state = "SUCCEEDED")

HInv ==
  /\ val = Words
  /\ call = [t \in Threads |-> call[t]]
  /\ \A t \in Threads : Agrees(t) /\ DraftOK(t)

-----------------------------------------------------------------------------
LEMMA DraftStep ==
  ASSUME Inv1, TypeOK', Evolves, Inv3, NEW t \in Threads, Acts(t), NEW u \in Threads,
         DraftOK(u)
  PROVE  DraftOK(u)'
<1>1. TypeOK /\ DOMAIN kdesc = Threads
  BY DEF Inv1, TypeOK
<1>2. Len(kdesc'[u].entries) <= MaxK
  <2>1. CASE kdesc'[u].entries = kdesc[u].entries
    BY <2>1 DEF DraftOK
  <2>2. CASE u = t /\ start(t)
    <3>1. kdesc'[u].entries = <<>>
      BY <1>1, <2>2 DEF start
    <3> QED
      BY <3>1, ConstantsAssumption
  <2>3. CASE u = t /\ add(t)
    <3>1. PICK e \in EntriesOf[t][kdesc[t].seq] :
             kdesc' = [kdesc EXCEPT ![t].entries = Append(kdesc[t].entries, e)]
      BY Zenon, <2>3 DEF add
    <3>2. kdesc[t] \in KcasDesc /\ kdesc[t].entries \in Seq(Entry)
      BY <1>1, KdescType
    <3>3. kdesc'[t].entries = Append(kdesc[t].entries, e)
      BY <1>1, <3>1, <3>2 DEF KcasDesc
    <3>4. Len(kdesc'[t].entries) = Len(kdesc[t].entries) + 1 /\ Len(kdesc[t].entries) \in Nat
      BY <3>2, <3>3
    <3> QED
      BY <2>3, <3>4, ConstantsAssumption DEF add
  <2>4. CASE u = t /\ execute(t)
    <3>1. PICK es \in SortedEntries(kdesc[t].entries) :
            kdesc'[t].entries = es /\ kdesc[t].entries \in Seq(Entry)
      BY <2>4, Executes
    <3>2. Len(es) = Len(kdesc[t].entries)
      BY <3>1, SortedType
    <3> QED
      BY <2>4, <3>1, <3>2 DEF DraftOK
  <2>5. u # t => kdesc'[u].entries = kdesc[u].entries
    BY <1>1, OthersKept DEF Acts
  <2>6. pc[t] # "idle" => kdesc'[t].entries = kdesc[t].entries
    BY BusyKept
  <2>7. pc[t] = "idle" => \/ start(t) \/ add(t) \/ execute(t)
                          \/ kdesc' = kdesc
    BY Zenon DEF Acts, Step, readPtr,
         rdcssRead, rdcssCopy, rdcssCheck, rdcssReadState, rdcssHelp, kcasCopy, kcasCheck,
         helpReadState, rdcssNew, rdcssInitialized, rdcss, decide, phase2, unlock
  <2> QED
    BY <2>1, <2>2, <2>3, <2>4, <2>5, <2>6, <2>7
<1>3. ASSUME u \in building' PROVE kdesc'[u].state = "UNDECIDED"
  <2>1. CASE kdesc'[u].seq # kdesc[u].seq
    <3>1. u = t /\ (start(t) \/ execute(t))
      BY <2>1, NewLife
    <3>2. ~ execute(t)
      BY <1>3, <3>1 DEF execute
    <3> QED
      BY <1>1, <3>1, <3>2 DEF start
  <2>2. CASE kdesc'[u].seq = kdesc[u].seq
    <3>1. u \in building /\ kdesc[u].state = "UNDECIDED"
      BY <1>3, <2>2 DEF Evolves, DraftOK
    <3>2. ASSUME kdesc'[u].state # kdesc[u].state PROVE FALSE
      <4>1. pc[t] = "decide" /\ u = Top(t).tag.tid /\ kdesc[u].seq = Top(t).seq
        BY <2>2, <3>2, StateStep
      <4>2. PICK f \in Frame : f = Top(t) /\ KIssued(f.tag) /\ f.seq = f.tag.seq
        BY <4>1, DecidingFrame
      <4>3. kdesc[u].seq \in Nat /\ f.tag.seq < kdesc[u].seq
        BY <1>1, <3>1, <4>1, <4>2, KdescType DEF KIssued
      <4> QED
        BY <4>1, <4>2, <4>3
    <3> QED
      BY <3>1, <3>2
  <2> QED
    BY <2>1, <2>2
<1> QED
  BY <1>2, <1>3 DEF DraftOK

-----------------------------------------------------------------------------
(* The history variables after a step.                                     *)

LEMMA CallIs ==
  ASSUME HNext, NEW t \in Threads
  PROVE  /\ IsReading(t)' =>
              call'[t] = Strong!Reading(reg'[t].addr, SeenBy(t) \cup {val'[reg'[t].addr]})
         /\ ~ IsReading(t)' /\ ~ Executing(t)' => call'[t] = Strong!Returned(ret'[t])
         /\ Executing(t)' /\ kdesc'[t].state = "UNDECIDED" =>
              call'[t] = Strong!Pending(Request(t)',
                                        MissedBy(t) \/ ~ Strong!Matches(val', Request(t)'))
         /\ Executing(t)' /\ kdesc'[t].state # "UNDECIDED" =>
              call'[t] = Strong!Decided(kdesc'[t].state = "SUCCEEDED")
<1>1. call'[t] = CallAfter(t, kdesc'[t].state)
  BY DEF HNext
<1>2. Executing(t)' => ~ IsReading(t)'
  BY DEF Executing
<1> QED
  BY Zenon, <1>1, <1>2 DEF CallAfter

LEMMA AgreesNext ==
  ASSUME HNext, NEW t \in Threads
  PROVE  Agrees(t)'
<1>1. IsReading(t)' =>
        \E s : val'[reg'[t].addr] \in s /\ call'[t] = Strong!Reading(reg'[t].addr, s)
  <2>1. val'[reg'[t].addr] \in SeenBy(t) \cup {val'[reg'[t].addr]}
    OBVIOUS
  <2> QED
    BY Zenon, <2>1, CallIs
<1>2. Executing(t)' /\ kdesc'[t].state = "UNDECIDED" =>
        \E m \in BOOLEAN : /\ ~ Strong!Matches(val', Request(t)') => m
                           /\ call'[t] = Strong!Pending(Request(t)', m)
  <2>1. PICK m \in BOOLEAN : m = (MissedBy(t) \/ ~ Strong!Matches(val', Request(t)'))
    BY Zenon
  <2>2. ~ Strong!Matches(val', Request(t)') => m
    BY Zenon, <2>1
  <2> QED
    BY Zenon, <2>1, <2>2, CallIs
<1>3. ~ IsReading(t)' /\ ~ Executing(t)' => call'[t] = Strong!Returned(ret'[t])
  BY Zenon, CallIs
<1>4. Executing(t)' /\ kdesc'[t].state # "UNDECIDED" =>
        call'[t] = Strong!Decided(kdesc'[t].state = "SUCCEEDED")
  BY Zenon, CallIs
<1> QED
  BY Zenon, <1>1, <1>2, <1>3, <1>4 DEF Agrees, Request, Strong!Matches

(* An operation whose own steps say nothing new to the caller.             *)
LEMMA SameCall ==
  ASSUME HInv, HNext, NEW t \in Threads, val' = val, reg'[t].addr = reg[t].addr,
         pc'[t] = "idle" <=> pc[t] = "idle",
         ~ IsReading(t) /\ ~ Executing(t) => ret'[t] = ret[t],
         Executing(t) => /\ kdesc'[t].entries = kdesc[t].entries
                         /\ kdesc'[t].state = kdesc[t].state
  PROVE  call'[t] = call[t]
<1>1. Agrees(t)
  BY DEF HInv
<1>2. (IsReading(t)' <=> IsReading(t)) /\ (Executing(t)' <=> Executing(t))
  BY DEF IsReading, Executing
<1>3. CASE IsReading(t)
  <2>1. PICK s : val[reg[t].addr] \in s /\ call[t] = Strong!Reading(reg[t].addr, s)
    BY <1>1, <1>3 DEF Agrees
  <2>2. SeenBy(t) = s
    BY <2>1 DEF SeenBy, Strong!Reading
  <2>3. SeenBy(t) \cup {val'[reg'[t].addr]} = s
    BY <2>1, <2>2
  <2> QED
    BY <1>2, <1>3, <2>1, <2>3, CallIs
<1>4. CASE ~ IsReading(t) /\ ~ Executing(t)
  BY Zenon, <1>1, <1>2, <1>4, CallIs DEF Agrees
<1>5. CASE Executing(t) /\ kdesc[t].state = "UNDECIDED"
  <2>1. PICK m \in BOOLEAN : /\ ~ Strong!Matches(val, Request(t)) => m
                             /\ call[t] = Strong!Pending(Request(t), m)
    BY <1>1, <1>5 DEF Agrees
  <2>2. MissedBy(t) = m
    BY <2>1 DEF MissedBy, Strong!Pending
  <2>3. Request(t)' = Request(t)
    BY <1>5 DEF Request
  <2>4. (MissedBy(t) \/ ~ Strong!Matches(val', Request(t)')) = m
    BY Zenon, <2>1, <2>2, <2>3
  <2> QED
    BY Zenon, <1>2, <1>5, <2>1, <2>3, <2>4, CallIs
<1>6. CASE Executing(t) /\ kdesc[t].state # "UNDECIDED"
  BY Zenon, <1>1, <1>2, <1>6, CallIs DEF Agrees
<1> QED
  BY <1>3, <1>4, <1>5, <1>6

(* The result of an operation is set by its own thread, when it starts and *)
(* when it ends.                                                           *)
LEMMA ResultKept ==
  ASSUME TypeOK, NEW t \in Threads, Acts(t), NEW u \in Threads, u # t
  PROVE  ret'[u] = ret[u]
<1>1. DOMAIN ret = Threads
  BY DEF TypeOK
<1>2. ret' = ret \/ \E r : ret' = [ret EXCEPT ![t] = r]
  BY ZenonT(30) DEF Acts, Step, start, add, execute, readPtr, Return,
     rdcssRead, rdcssCopy, rdcssCheck, rdcssReadState, rdcssHelp, kcasCopy, kcasCheck,
     helpReadState, rdcssNew, rdcssInitialized, rdcss, decide, phase2, unlock
<1> QED
  BY <1>1, <1>2

(* A step that decides a request.                                          *)
Decides(t) == pc[t] = "decide" /\ Undecided(Top(t).tag)

(* Any other leaves the values of the words and the decisions alone.       *)
LEMMA NothingDecided ==
  ASSUME Inv1, TypeOK', Evolves, Inv2, Inv3, Inv4, NEW t \in Threads, Acts(t), ~ Decides(t),
         HInv, HNext
  PROVE  /\ val' = val
         /\ \A u \in Threads : pc[u] # "idle" => kdesc'[u].state = kdesc[u].state
<1>1. ASSUME NEW a \in Addrs PROVE Logical(a)' = Logical(a)
  BY Zenon, LogicalStep DEF Effect, Decides
<1>2. val' = val
  BY Zenon, <1>1 DEF HInv, HNext, Words
<1>3. ASSUME NEW u \in Threads, pc[u] # "idle", kdesc'[u].state # kdesc[u].state PROVE FALSE
  <2>1. kdesc'[u].seq = kdesc[u].seq
    BY <1>3, BusyKept
  <2>2. /\ pc[t] = "decide" /\ u = Top(t).tag.tid /\ kdesc[u].seq = Top(t).seq
        /\ kdesc[u].state = "UNDECIDED"
    BY <1>3, <2>1, StateStep
  <2>3. Top(t).seq = Top(t).tag.seq
    BY <2>2, DecidingFrame
  <2> QED
    BY <2>2, <2>3 DEF Decides, Undecided, InState, Alive
<1> QED
  BY <1>2, <1>3

LEMMA OthersCall ==
  ASSUME Inv1, TypeOK', Evolves, Inv2, Inv3, Inv4, NEW t \in Threads, Acts(t), ~ Decides(t),
         HInv, HNext, NEW u \in Threads, u # t
  PROVE  call'[u] = call[u]
<1>1. TypeOK
  BY DEF Inv1
<1>2. /\ pc'[u] = pc[u] /\ reg'[u] = reg[u] /\ ret'[u] = ret[u]
      /\ kdesc'[u].entries = kdesc[u].entries
  BY <1>1, OthersKept, ResultKept DEF Acts
<1>3. val' = val /\ (Executing(u) => kdesc'[u].state = kdesc[u].state)
  BY NothingDecided DEF Executing
<1> QED
  BY <1>2, <1>3, SameCall

(* The step changes the operation of its own thread only.                  *)
LEMMA OwnCall ==
  ASSUME Inv1, TypeOK', Evolves, Inv2, Inv3, Inv4, NEW t \in Threads, Acts(t), ~ Decides(t),
         HInv, HNext
  PROVE  /\ val' = val
         /\ \A c : call'[t] = c => call' = [call EXCEPT ![t] = c]
         /\ call'[t] = call[t] => call' = call
<1>1. val' = val
  BY NothingDecided
<1>2. \A u \in Threads : u # t => call'[u] = call[u]
  BY OthersCall
<1>3. call = [u \in Threads |-> call[u]] /\ call' = [u \in Threads |-> call'[u]]
  BY Zenon DEF HInv, HNext
<1>4. ASSUME NEW c, call'[t] = c PROVE call' = [call EXCEPT ![t] = c]
  BY <1>2, <1>3, <1>4
<1>5. call'[t] = call[t] => call' = call
  BY <1>2, <1>3
<1> QED
  BY <1>1, <1>4, <1>5

(* start, add, execute and readPtr.                                        *)
LEMMA InvokeStep ==
  ASSUME Inv1, TypeOK', Evolves, Inv2, Inv3, Inv4, Inv4', NEW t \in Threads, Acts(t),
         HInv, HNext, pc[t] = "idle", execute(t) => Request(t)' \in Strong!Requests
  PROVE  Strong!Next \/ UNCHANGED <<val, call>>
<1>1. /\ TypeOK /\ ~ Decides(t) /\ ~ Executing(t) /\ ~ IsReading(t)
      /\ DOMAIN pc = Threads /\ DOMAIN reg = Threads
  BY DEF Inv1, TypeOK, Decides, Executing, IsReading, ThreadOK, StackOK
<1>2. val' = val /\ call[t] = Strong!Returned(ret[t]) /\ call[t].op = "returned" /\ DraftOK(t)
  BY <1>1, OwnCall DEF HInv, Agrees, Strong!Returned
<1>3. CASE start(t) \/ add(t)
  <2>1. pc' = pc /\ reg' = reg /\ ret' = ret
    BY <1>3 DEF start, add
  <2>2. call'[t] = call[t]
    BY <1>1, <1>2, <2>1, SameCall
  <2> QED
    BY <1>1, <1>2, <2>2, OwnCall
<1>4. CASE execute(t)
  <2>1. PICK es \in SortedEntries(kdesc[t].entries) :
           /\ kdesc'[t].entries = es /\ kdesc'[t].seq = kdesc[t].seq + 1
           /\ es \in Seq(Entry) /\ kdesc[t].entries \in Seq(Entry) /\ t \notin building'
           /\ depth'[t] = 1 /\ pc'[t] = "help" /\ reg'[t].addr = NULL
           /\ frame'[t][1].tag = KcasTag(t, kdesc'[t].seq)
    BY <1>4, Executes
  <2>4. PICK R : R = Request(t)' /\ R \in Strong!Requests
    BY <1>4
  <2>5. kdesc'[t].state = "UNDECIDED"
    <3>1. kdesc[t].state = "UNDECIDED"
      BY <1>2, <1>4 DEF execute, DraftOK
    <3>2. kdesc[t] \in KcasDesc /\ DOMAIN kdesc = Threads
      BY <1>1, KdescType DEF TypeOK
    <3>3. \E ss : kdesc' = [kdesc EXCEPT ![t].seq = kdesc[t].seq + 1, ![t].entries = ss]
      BY Zenon, <1>4 DEF execute
    <3> QED
      BY <3>1, <3>2, <3>3 DEF KcasDesc
  <2>6. Executing(t)'
    BY <2>1 DEF Executing, IsReading
  <2>7. call'[t] = Strong!Pending(R, ~ Strong!Matches(val, R))
    <3>1. call'[t] = Strong!Pending(R, MissedBy(t) \/ ~ Strong!Matches(val', R))
      BY Zenon, <2>4, <2>5, <2>6, CallIs
    <3>2. ~ MissedBy(t)
      BY <1>2 DEF MissedBy
    <3>3. (MissedBy(t) \/ ~ Strong!Matches(val', R)) = ~ Strong!Matches(val, R)
      BY Zenon, <1>2, <3>2
    <3> QED
      BY Zenon, <3>1, <3>3
  <2>8. call' = [call EXCEPT ![t] = Strong!Pending(R, ~ Strong!Matches(val, R))]
    BY <1>1, <2>7, OwnCall
  <2>9. call'[t].op = "kcas" /\ call'[t].entries = R
    BY <2>7 DEF Strong!Pending
  <2>10. Strong!InvokeKCAS(t)
    BY Zenon, <1>2, <2>4, <2>8, <2>9 DEF Strong!InvokeKCAS
  <2> QED
    BY <2>10 DEF Strong!Next
<1>5. CASE \E a \in ReadsOf[t] : readPtr(t, a)
  <2>1. PICK a \in ReadsOf[t] : readPtr(t, a)
    BY <1>5
  <2>2. a \in Addrs /\ a # NULL
    BY ConstantsAssumption DEF NULL
  <2>3. reg'[t].addr = a
    BY <1>1, <2>1 DEF readPtr, TypeOK, Reg
  <2>4. SeenBy(t) = {}
    BY <1>2 DEF SeenBy
  <2>5. SeenBy(t) \cup {val'[reg'[t].addr]} = {val[a]} /\ IsReading(t)'
    BY <1>2, <2>2, <2>3, <2>4 DEF IsReading
  <2>6. call'[t] = Strong!Reading(a, {val[a]})
    BY Zenon, <2>3, <2>5, CallIs
  <2>7. Strong!InvokeRead(t, a)
    BY Zenon, <1>1, <1>2, <2>6, OwnCall DEF Strong!InvokeRead
  <2> QED
    BY <2>2, <2>7 DEF Strong!Next
<1>6. ~ Step(t)
  BY Zenon, <1>1 DEF Step, rdcssRead, rdcssCopy, rdcssCheck, rdcssReadState, rdcssHelp, kcasCopy,
     kcasCheck, helpReadState, rdcssNew, rdcssInitialized, rdcss, decide, phase2, unlock
<1> QED
  BY <1>3, <1>4, <1>5, <1>6 DEF Acts

(* A read ends in rdcssRead, with the value of the word.                   *)
LEMMA ReadReturns ==
  ASSUME Inv1, NEW t \in Threads, Acts(t), pc[t] # "idle", IsReading(t), pc'[t] = "idle"
  PROVE  /\ reg[t].addr \in Addrs /\ reg'[t].addr = NULL
         /\ \E v : mem[reg[t].addr] = Val(v) /\ ret'[t] = Got(v)
<1>1. TypeOK /\ ThreadOK(t) /\ DOMAIN pc = Threads /\ DOMAIN ret = Threads /\ reg[t] \in Reg
             /\ DOMAIN reg = Threads
  BY DEF Inv1, TypeOK
<1>2. ASSUME NEW b, Return(t, b), depth[t] > 0 PROVE FALSE
  <2>1. depth[t] \in Nat /\ depth[t] = 1 /\ ~ Top(t).helping
    BY <1>1, <1>2, DepthType DEF Return, Goto
  <2> QED
    BY <1>1, <2>1 DEF ThreadOK, FrameOK, Top, IsReading
<1>3. \A es, i : LoopHead(es, i) # "idle"
  BY Zenon DEF LoopHead
<1>4. pc[t] \in HelpPcs => depth[t] > 0
  BY <1>1 DEF ThreadOK, StackOK
<1>5. ~ (kcasCheck(t) \/ phase2(t))
  BY Zenon, <1>1, <1>2, <1>4 DEF kcasCheck, phase2, Goto, HelpPcs
<1>6. ASSUME helpReadState(t) PROVE FALSE
  <2>1. CASE Return(t, FALSE)
    BY Zenon, <1>2, <1>4, <1>6, <2>1 DEF helpReadState, HelpPcs
  <2>2. CASE Goto(t, LoopHead(Top(t).entries, Top(t).i)) \/ Goto(t, "phase2")
    BY <1>1, <1>3, <2>2 DEF Goto
  <2> QED
    BY Zenon, <1>6, <2>1, <2>2 DEF helpReadState
<1>7. ~ (rdcssCheck(t) \/ rdcssHelp(t) \/ rdcss(t))
  BY <1>1, <1>3 DEF rdcssCheck, rdcssHelp, rdcss, Retry, NextEntry, Goto
<1>8. ~ (rdcssCopy(t) \/ rdcssReadState(t) \/ kcasCopy(t) \/ rdcssNew(t) \/ rdcssInitialized(t)
         \/ decide(t))
  BY Zenon, <1>1 DEF rdcssCopy, rdcssReadState, kcasCopy, rdcssNew, rdcssInitialized, decide, Goto
<1>9. ~ unlock(t)
  BY <1>1, <1>2, <1>4 DEF unlock, HelpPcs
<1>10. rdcssRead(t)
  BY Zenon, <1>5, <1>6, <1>7, <1>8, <1>9 DEF Acts, Step, start, add, execute, readPtr
<1>11. PICK a : a = reg[t].addr
  OBVIOUS
<1>12. a \in Addrs
  BY Zenon, <1>1, <1>10, <1>11 DEF rdcssRead, ThreadOK, StackOK
<1>13. /\ ~ isRdcss(mem[a]) /\ ~ isKcas(mem[a])
       /\ reg' = [reg EXCEPT ![t].addr = NULL]
       /\ ret' = [ret EXCEPT ![t] = Got(mem[a].val)]
  <2>1. ~ (Goto(t, "copy_rdcss") \/ Goto(t, "copy_kcas"))
    BY <1>1 DEF Goto
  <2> QED
    BY Zenon, <1>10, <1>11, <2>1 DEF rdcssRead
<1>14. mem[a] = Val(mem[a].val)
  BY <1>1, <1>12, <1>13 DEF TypeOK, Word, Plain, KcasTags, RdcssTags, isRdcss, isKcas, Val
<1>15. reg'[t].addr = NULL /\ ret'[t] = Got(mem[a].val)
  BY <1>1, <1>13 DEF Reg
<1> QED
  BY <1>11, <1>12, <1>14, <1>15

(* The steps of a running operation that decide nothing.                   *)
LEMMA RunningStep ==
  ASSUME Inv1, TypeOK', Evolves, Inv2, Inv3, Inv4, NEW t \in Threads, Acts(t), ~ Decides(t),
         HInv, HNext, pc[t] # "idle"
  PROVE  Strong!Next \/ UNCHANGED <<val, call>>
<1>1. val' = val /\ kdesc'[t].state = kdesc[t].state /\ Agrees(t)
  BY NothingDecided DEF HInv
<1>2. CASE pc'[t] # "idle"
  <2>1. reg'[t].addr = reg[t].addr /\ kdesc'[t].entries = kdesc[t].entries
    BY Zenon, <1>2, AddrKept, BusyKept
  <2>2. IsReading(t) \/ Executing(t)
    BY DEF Executing
  <2>3. call'[t] = call[t]
    BY <1>1, <1>2, <2>1, <2>2, SameCall
  <2> QED
    BY <1>1, <2>3, OwnCall
<1>3. CASE pc'[t] = "idle" /\ IsReading(t)
  <2>1. PICK v : mem[reg[t].addr] = Val(v) /\ ret'[t] = Got(v)
    BY Zenon, <1>3, ReadReturns
  <2>2. reg[t].addr \in Addrs /\ reg'[t].addr = NULL
    BY <1>3, ReadReturns
  <2>3. PICK s : val[reg[t].addr] \in s /\ call[t] = Strong!Reading(reg[t].addr, s)
    BY Zenon, <1>1, <1>3 DEF Agrees
  <2>4. val[reg[t].addr] = v
    <3>1. Logical(reg[t].addr) = v
      BY <2>1, LogicalVal
    <3> QED
      BY <2>2, <3>1 DEF HInv, Words
  <2>5. call[t].op = "read" /\ v \in call[t].seen
    BY <2>3, <2>4 DEF Strong!Reading
  <2>6. call'[t] = Strong!Returned(Strong!Got(v))
    <3>1. ~ IsReading(t)' /\ ~ Executing(t)'
      BY Zenon, <1>3, <2>2 DEF IsReading, Executing
    <3>2. call'[t] = Strong!Returned(ret'[t])
      BY Zenon, <3>1, CallIs
    <3> QED
      BY <2>1, <3>2 DEF Got, Strong!Got
  <2>7. Strong!ReturnRead(t)
    BY Zenon, <2>5, <2>6, OwnCall DEF Strong!ReturnRead
  <2> QED
    BY <2>7 DEF Strong!Next
<1>4. CASE pc'[t] = "idle" /\ Executing(t)
  <2>1. kdesc[t].state # "UNDECIDED"
    BY <1>4, Returns
  <2>2. call[t] = Strong!Decided(kdesc[t].state = "SUCCEEDED")
    BY Zenon, <1>1, <1>4, <2>1 DEF Agrees
  <2>3. /\ unlock(t) /\ depth[t] = 1 /\ ~ (Top(t).i < Len(Top(t).entries))
    BY <1>4, ToIdle
  <2>4. Top(t).state = kdesc[t].state
    <3>1. Top(t).tag = KcasTag(t, kdesc[t].seq) /\ Alive(Top(t).tag) /\ pc[t] = "unlock"
      BY <1>4, <2>3, OwnFrame DEF Top, unlock
    <3> QED
      BY <3>1 DEF Inv4, CallOK, ReleaseOK, KcasTag
  <2>5. ret' = [ret EXCEPT ![t] = Swapped(Top(t).state = "SUCCEEDED")]
    <3>1. ~ Top(t).helping
      <4>1. Top(t) = frame[t][1] /\ FrameOK(t, 1) /\ reg[t].addr = NULL
        BY Zenon, <1>4, <2>3, OwnFrame DEF Top, Inv1, ThreadOK
      <4> QED
        BY <4>1 DEF FrameOK
    <3>2. Return(t, Top(t).state = "SUCCEEDED")
      BY Zenon, <2>3 DEF unlock
    <3>3. ~ (depth[t] > 1)
      BY <2>3
    <3> QED
      BY Zenon, <3>1, <3>2, <3>3 DEF Return
  <2>6. reg' = reg
    BY <2>3 DEF unlock
  <2>7. ret'[t] = Swapped(kdesc[t].state = "SUCCEEDED")
    <3>1. DOMAIN ret = Threads
      BY DEF Inv1, TypeOK
    <3> QED
      BY Zenon, <2>4, <2>5, <3>1
  <2>8. call'[t] = Strong!Returned(Strong!Swapped(call[t].result))
    <3>1. ~ IsReading(t)' /\ ~ Executing(t)'
      BY <1>4, <2>6 DEF IsReading, Executing
    <3>2. call'[t] = Strong!Returned(ret'[t])
      BY Zenon, <3>1, CallIs
    <3>3. call[t].result = (kdesc[t].state = "SUCCEEDED")
      BY <2>2 DEF Strong!Decided
    <3>4. ret'[t] = Strong!Swapped(call[t].result)
      BY <2>7, <3>3 DEF Swapped, Strong!Swapped
    <3> QED
      BY <3>2, <3>4
  <2>9. call[t].op = "decided"
    BY <2>2 DEF Strong!Decided
  <2>10. Strong!ReturnKCAS(t)
    BY <2>8, <2>9, OwnCall DEF Strong!ReturnKCAS
  <2> QED
    BY <2>10 DEF Strong!Next
<1> QED
  BY <1>2, <1>3, <1>4 DEF Executing

(* The step that decides: what it finds and what it changes.               *)
LEMMA Deciding ==
  ASSUME Inv1, Inv3, Inv4, HInv, NEW t \in Threads, Acts(t), Decides(t)
  PROVE  \E o \in Threads, es \in Seq(Entry), m \in BOOLEAN :
           /\ o = Top(t).tag.tid /\ Top(t).tag = KcasTag(o, kdesc[o].seq)
           /\ es = kdesc[o].entries /\ IsSorted(es) /\ es = Top(t).entries
           /\ KIssued(Top(t).tag) /\ Alive(Top(t).tag) /\ RequestOK(o)
           /\ kdesc[o].state = "UNDECIDED" /\ Executing(o)
           /\ \/ Top(t).state = "FAILED" /\ Top(t).i \in DOMAIN es
              \/ Top(t).state = "SUCCEEDED"
           /\ kdesc' = [kdesc EXCEPT ![o].state = Top(t).state]
           /\ pc' = [pc EXCEPT ![t] = "phase2"] /\ reg' = reg /\ ret' = ret
           /\ ~ Strong!Matches(val, Request(o)) => m
           /\ call[o] = Strong!Pending(Request(o), m)
<1>1. PICK f \in Frame : /\ f = Top(t) /\ CopyOK(f) /\ KIssued(f.tag) /\ LockOK(f, "decide")
                         /\ f.seq = f.tag.seq /\ f.i >= 1
  BY DecidingFrame DEF Decides
<1>2. Alive(f.tag) /\ kdesc[f.tag.tid].state = "UNDECIDED"
  BY <1>1 DEF Decides, Undecided, InState
<1>3. PICK o \in Threads : /\ o = f.tag.tid /\ Published(o) /\ f.tag = KcasTag(o, kdesc[o].seq)
                           /\ kdesc[o].entries \in Seq(Entry)
  BY <1>1, <1>2, LiveTag
<1>4. PICK es \in Seq(Entry) : es = kdesc[o].entries /\ es = f.entries
  BY Zenon, <1>1, <1>2, <1>3 DEF CopyOK
<1>5. RequestOK(o) /\ IsSorted(es) /\ Executing(o)
  BY Zenon, <1>2, <1>3, <1>4 DEF Inv4, CallOK, RequestOK, OwnerOK
<1>6. \/ f.state = "FAILED" /\ f.i \in DOMAIN es
      \/ f.state = "SUCCEEDED"
  <2>1. \/ f.state = "FAILED" /\ f.i <= Len(f.entries)
        \/ f.state = "SUCCEEDED"
    BY <1>1 DEF LockOK
  <2>2. f.i \in Nat
    BY DEF Frame
  <2> QED
    BY <1>1, <1>4, <2>1, <2>2
<1>7. decide(t)
  BY Zenon DEF Decides, Acts, Step, start, add, execute, readPtr, rdcssRead, rdcssCopy,
     rdcssCheck, rdcssReadState, rdcssHelp, kcasCopy, kcasCheck, helpReadState, rdcssNew,
     rdcssInitialized, rdcss, phase2, unlock
<1>8. kdesc' = [kdesc EXCEPT ![o].state = f.state]
  BY Zenon, <1>1, <1>2, <1>3, <1>7 DEF decide, Alive
<1>9. pc' = [pc EXCEPT ![t] = "phase2"] /\ reg' = reg /\ ret' = ret
  BY <1>7 DEF decide, Goto
<1>10. PICK m \in BOOLEAN : /\ ~ Strong!Matches(val, Request(o)) => m
                            /\ call[o] = Strong!Pending(Request(o), m)
  BY Zenon, <1>2, <1>3, <1>5 DEF HInv, Agrees
<1> QED
  BY Zenon, <1>1, <1>2, <1>3, <1>4, <1>5, <1>6, <1>8, <1>9, <1>10

(* What the decision of a request is to everyone else.                     *)
LEMMA Observed ==
  ASSUME HInv, HNext, NEW u \in Threads, reg' = reg, ret' = ret,
         pc'[u] = "idle" <=> pc[u] = "idle", kdesc'[u] = kdesc[u]
  PROVE  call'[u] = Strong!Observe(call[u], val')
<1>1. Agrees(u)
  BY DEF HInv
<1>2. (IsReading(u)' <=> IsReading(u)) /\ (Executing(u)' <=> Executing(u))
  BY DEF IsReading, Executing
<1>3. CASE IsReading(u)
  <2>1. PICK s : call[u] = Strong!Reading(reg[u].addr, s)
    BY Zenon, <1>1, <1>3 DEF Agrees
  <2>2. SeenBy(u) = s
    BY <2>1 DEF SeenBy, Strong!Reading
  <2>3. call'[u] = Strong!Reading(reg[u].addr, s \cup {val'[reg[u].addr]})
    BY <1>2, <1>3, <2>2, CallIs
  <2> QED
    BY <2>1, <2>3 DEF Strong!Observe, Strong!Reading
<1>4. CASE ~ IsReading(u) /\ ~ Executing(u)
  <2>1. call[u] = Strong!Returned(ret[u]) /\ call'[u] = Strong!Returned(ret[u])
    BY Zenon, <1>1, <1>2, <1>4, CallIs DEF Agrees
  <2> QED
    BY <2>1 DEF Strong!Observe, Strong!Returned
<1>5. CASE Executing(u) /\ kdesc[u].state = "UNDECIDED"
  <2>1. PICK m \in BOOLEAN : call[u] = Strong!Pending(Request(u), m)
    BY <1>1, <1>5 DEF Agrees
  <2>2. MissedBy(u) = m
    BY <2>1 DEF MissedBy, Strong!Pending
  <2>3. PICK R : R = Request(u) /\ R = Request(u)'
    BY Zenon DEF Request
  <2>4. PICK n : n = (m \/ ~ Strong!Matches(val', R))
    OBVIOUS
  <2>5. call'[u] = Strong!Pending(R, n)
    <3>1. call'[u] = Strong!Pending(R, MissedBy(u) \/ ~ Strong!Matches(val', R))
      BY Zenon, <1>2, <1>5, <2>3, CallIs
    <3> QED
      BY <2>2, <2>4, <3>1
  <2>6. call[u] = [op |-> "kcas", entries |-> R, missed |-> m]
    BY <2>1, <2>3 DEF Strong!Pending
  <2>7. Strong!Observe(call[u], val') = [call[u] EXCEPT !.missed = n]
    BY <2>4, <2>6 DEF Strong!Observe
  <2> QED
    BY <2>5, <2>6, <2>7 DEF Strong!Pending
<1>6. CASE Executing(u) /\ kdesc[u].state # "UNDECIDED"
  <2>1. /\ call[u] = Strong!Decided(kdesc[u].state = "SUCCEEDED")
        /\ call'[u] = Strong!Decided(kdesc[u].state = "SUCCEEDED")
    BY Zenon, <1>1, <1>2, <1>6, CallIs DEF Agrees
  <2> QED
    BY <2>1 DEF Strong!Observe, Strong!Decided
<1> QED
  BY Zenon, <1>3, <1>4, <1>5, <1>6

(* All the words of the request change at once for every reader.           *)
LEMMA Applied ==
  ASSUME Inv1, TypeOK', Evolves, Inv2, Inv3, Inv4, NEW t \in Threads, Acts(t),
         HInv, HNext, Decides(t), Top(t).state = "SUCCEEDED",
         NEW o \in Threads, o = Top(t).tag.tid
  PROVE  /\ Strong!Matches(val, Request(o))
         /\ val' = Strong!Apply(val, Request(o))
<1>1. PICK es \in Seq(Entry) :
        /\ es = kdesc[o].entries /\ IsSorted(es) /\ RequestOK(o)
        /\ KIssued(Top(t).tag) /\ Alive(Top(t).tag)
        /\ kdesc[o].state = "UNDECIDED" /\ Executing(o)
        /\ kdesc' = [kdesc EXCEPT ![o].state = Top(t).state] /\ mem' = mem
  <2>1. decide(t)
    BY Zenon DEF Decides, Acts, Step, start, add, execute, readPtr, rdcssRead, rdcssCopy,
       rdcssCheck, rdcssReadState, rdcssHelp, kcasCopy, kcasCheck, helpReadState, rdcssNew,
       rdcssInitialized, rdcss, phase2, unlock
  <2>2. mem' = mem
    BY <2>1 DEF decide
  <2>3. PICK p \in Threads, es \in Seq(Entry), m \in BOOLEAN :
           /\ p = Top(t).tag.tid /\ Top(t).tag = KcasTag(p, kdesc[p].seq)
           /\ es = kdesc[p].entries /\ IsSorted(es) /\ es = Top(t).entries
           /\ KIssued(Top(t).tag) /\ Alive(Top(t).tag) /\ RequestOK(p)
           /\ kdesc[p].state = "UNDECIDED" /\ Executing(p)
           /\ \/ Top(t).state = "FAILED" /\ Top(t).i \in DOMAIN es
              \/ Top(t).state = "SUCCEEDED"
           /\ kdesc' = [kdesc EXCEPT ![p].state = Top(t).state]
           /\ pc' = [pc EXCEPT ![t] = "phase2"] /\ reg' = reg /\ ret' = ret
           /\ ~ Strong!Matches(val, Request(p)) => m
           /\ call[p] = Strong!Pending(Request(p), m)
    BY Zenon, Deciding
  <2> QED
    BY Zenon, <2>2, <2>3
<1>2. PICK k : k = Top(t).tag /\ k.tid = o /\ Undecided(k) /\ pc[t] = "decide"
  BY DEF Decides
<1>3. kdesc[o] \in KcasDesc /\ DOMAIN kdesc = Threads
  BY KdescType DEF Inv1, TypeOK
<1>4. /\ kdesc'[o].entries = es /\ kdesc'[o].state = "SUCCEEDED"
      /\ kdesc'[o].seq = kdesc[o].seq
  BY <1>1, <1>3 DEF KcasDesc
<1>5. ASSUME NEW i \in DOMAIN es
      PROVE  /\ es[i].addr \in Addrs /\ mem[es[i].addr] = k
             /\ val[es[i].addr] = es[i].old /\ val'[es[i].addr] = es[i].new
  <2>1. mem[es[i].addr] = k /\ es[i].addr \in Addrs
    BY Zenon, <1>1, <1>2, SuccessHolds, EntryAt
  <2>2. Logical(es[i].addr) = es[i].old
    <3>1. KIssued(k) /\ Alive(k) /\ RequestOK(k.tid) /\ es = kdesc[k.tid].entries
      BY <1>1, <1>2
    <3>2. Logical(es[i].addr) = IF kdesc[k.tid].state = "SUCCEEDED" THEN es[i].new
                                ELSE es[i].old
      BY Zenon, <2>1, <3>1, LockedValue
    <3> QED
      BY <1>1, <1>2, <3>2
  <2>3. Logical(es[i].addr)' = es[i].new
    <3>1. mem'[es[i].addr] = k /\ k.kind = "kcas"
      BY Zenon, <1>1, <1>2, <2>1 DEF KIssued, KcasTags
    <3>2. EntryFor(kdesc'[k.tid].entries, es[i].addr) = es[i]
      BY <1>1, <1>2, <1>4, EntryForIs
    <3> QED
      BY <1>2, <1>4, <3>1, <3>2 DEF Logical, KcasValue
  <2> QED
    BY <2>1, <2>2, <2>3 DEF HInv, HNext, Words
<1>6. PICK R : R = Request(o) /\ R = {es[i] : i \in DOMAIN es}
  BY Zenon, <1>1 DEF Request
<1>7. Strong!Matches(val, R)
  BY <1>5, <1>6 DEF Strong!Matches
<1>8. ASSUME NEW a \in Addrs PROVE val'[a] = Strong!Apply(val, R)[a]
  <2>1. CASE \E e \in R : e.addr = a
    <3>1. PICK e \in R : e = CHOOSE x \in R : x.addr = a
      BY <2>1
    <3>2. e.addr = a
      BY <2>1, <3>1
    <3>3. PICK i \in DOMAIN es : e = es[i]
      BY <1>6
    <3>4. val'[a] = e.new
      BY <1>5, <3>2, <3>3
    <3> QED
      BY <2>1, <3>1, <3>4 DEF Strong!Apply
  <2>2. CASE ~ \E e \in R : e.addr = a
    <3>1. ~ Effect(t, a)
      <4> SUFFICES ASSUME Effect(t, a) PROVE FALSE
        OBVIOUS
      <4>1. mem[a] = k
        BY <1>2 DEF Effect
      <4>2. \E i \in DOMAIN es : es[i].addr = a
        BY Zenon, <1>1, <1>2, <4>1 DEF Effect
      <4> QED
        BY <1>6, <2>2, <4>2
    <3>2. Logical(a)' = Logical(a)
      BY <3>1, LogicalStep
    <3>3. val'[a] = val[a]
      BY <3>2 DEF HInv, HNext, Words
    <3> QED
      BY <2>2, <3>3 DEF Strong!Apply
  <2> QED
    BY <2>1, <2>2
<1>9. /\ val' = [a \in Addrs |-> val'[a]]
      /\ Strong!Apply(val, R) = [a \in Addrs |-> Strong!Apply(val, R)[a]]
  BY Zenon DEF HNext, Words, Strong!Apply
<1>10. val' = Strong!Apply(val, R)
  BY Zenon, <1>8, <1>9
<1> QED
  BY <1>6, <1>7, <1>10

LEMMA DecideStep ==
  ASSUME Inv1, TypeOK', Evolves, Inv2, Inv3, Inv4, NEW t \in Threads, Acts(t),
         HInv, HNext, Decides(t)
  PROVE  Strong!Next
<1>1. PICK o \in Threads, es \in Seq(Entry), m \in BOOLEAN :
           /\ o = Top(t).tag.tid /\ Top(t).tag = KcasTag(o, kdesc[o].seq)
           /\ es = kdesc[o].entries /\ IsSorted(es) /\ es = Top(t).entries
           /\ KIssued(Top(t).tag) /\ Alive(Top(t).tag) /\ RequestOK(o)
           /\ kdesc[o].state = "UNDECIDED" /\ Executing(o)
           /\ \/ Top(t).state = "FAILED" /\ Top(t).i \in DOMAIN es
              \/ Top(t).state = "SUCCEEDED"
           /\ kdesc' = [kdesc EXCEPT ![o].state = Top(t).state]
           /\ pc' = [pc EXCEPT ![t] = "phase2"] /\ reg' = reg /\ ret' = ret
           /\ ~ Strong!Matches(val, Request(o)) => m
           /\ call[o] = Strong!Pending(Request(o), m)
  BY Zenon, Deciding
<1>2. call[o].op = "kcas" /\ call[o].entries = Request(o)
  <2>1. call[o] = Strong!Pending(Request(o), m)
    BY Zenon, <1>1
  <2> QED
    BY <2>1 DEF Strong!Pending
<1>3. DOMAIN kdesc = Threads /\ DOMAIN pc = Threads /\ kdesc[o] \in KcasDesc
  BY KdescType DEF Inv1, TypeOK
<1>4. \A u \in Threads : pc'[u] = "idle" <=> pc[u] = "idle"
  BY Zenon, <1>1, <1>3 DEF Decides
<1>5. \A u \in Threads : u # o => kdesc'[u] = kdesc[u]
  BY Zenon, <1>1, <1>3
<1>6. kdesc'[o].state = Top(t).state /\ kdesc'[o].state # "UNDECIDED"
  BY Zenon, <1>1, <1>3 DEF KcasDesc
<1>7. call'[o] = Strong!Decided(Top(t).state = "SUCCEEDED")
  <2>1. Executing(o)'
    BY Zenon, <1>1, <1>4 DEF Executing, IsReading
  <2> QED
    BY Zenon, <1>6, <2>1, CallIs
<1>8. call' = [u \in Threads |-> call'[u]] /\ call = [u \in Threads |-> call[u]]
  BY Zenon DEF HInv, HNext
<1>9. CASE Top(t).state = "SUCCEEDED"
  <2>1. call'[o] = Strong!Decided(TRUE)
    BY Zenon, <1>7, <1>9
  <2>2. \A u \in Threads : u # o => call'[u] = Strong!Observe(call[u], val')
    BY Zenon, <1>1, <1>4, <1>5, Observed
  <2>3. call' = [u \in Threads |-> IF u = o THEN Strong!Decided(TRUE)
                                   ELSE Strong!Observe(call[u], val')]
    BY Zenon, <1>8, <2>1, <2>2
  <2>4. Strong!Matches(val, Request(o)) /\ val' = Strong!Apply(val, Request(o))
    BY Zenon, <1>1, <1>9, Applied
  <2>5. Strong!Succeed(o)
    BY Zenon, <1>2, <2>3, <2>4 DEF Strong!Succeed
  <2> QED
    BY <2>5 DEF Strong!Next
<1>10. CASE Top(t).state = "FAILED" /\ Top(t).i \in DOMAIN es
  <2>1. val' = val
    <3>1. ASSUME NEW a \in Addrs PROVE Logical(a)' = Logical(a)
      BY Zenon, <1>10, LogicalStep DEF Effect
    <3> QED
      BY Zenon, <3>1 DEF HInv, HNext, Words
  <2>2. ~ Strong!Matches(val, Request(o))
    <3>1. PICK e : e = es[Top(t).i] /\ e.addr \in Addrs
      BY <1>10, EntryAt
    <3>2. Logical(e.addr) # e.old
      BY Zenon, <1>1, <1>10, <3>1 DEF Inv4, CallOK, MismatchOK, CurrentEntry, Decides
    <3>3. val[e.addr] # e.old
      BY <3>1, <3>2 DEF HInv, Words
    <3>4. e \in Request(o)
      BY Zenon, <1>1, <1>10, <3>1 DEF Request
    <3> QED
      BY <3>3, <3>4 DEF Strong!Matches
  <2>3. call'[o] = Strong!Decided(FALSE)
    BY Zenon, <1>7, <1>10
  <2>4. ASSUME NEW u \in Threads, u # o PROVE call'[u] = call[u]
    BY Zenon, <1>1, <1>4, <1>5, <2>1, <2>4, SameCall
  <2>5. call' = [call EXCEPT ![o] = Strong!Decided(FALSE)]
    BY <1>8, <2>3, <2>4
  <2>6. call[o].missed
    <3>1. call[o] = Strong!Pending(Request(o), TRUE)
      BY Zenon, <1>1, <2>2
    <3> QED
      BY <3>1 DEF Strong!Pending
  <2>7. Strong!Fail(o)
    BY <1>2, <2>1, <2>5, <2>6 DEF Strong!Fail
  <2> QED
    BY <2>7 DEF Strong!Next
<1> QED
  BY Zenon, <1>1, <1>9, <1>10

-----------------------------------------------------------------------------
LEMMA HInvInit == HInit => HInv /\ Strong!Init
<1> SUFFICES ASSUME HInit PROVE HInv /\ Strong!Init
  OBVIOUS
<1>1. Init /\ val = Words /\ call = [t \in Threads |-> Strong!Returned(ret[t])]
  BY DEF HInit
<1>2. \A t \in Threads : /\ ret[t] = Swapped(TRUE) /\ ~ IsReading(t) /\ ~ Executing(t)
                         /\ kdesc[t].entries = <<>> /\ t \notin building
  BY Zenon, <1>1 DEF Init, IsReading, Executing, NoReg
<1>3. \A t \in Threads : Agrees(t) /\ DraftOK(t)
  <2>1. ASSUME NEW t \in Threads PROVE Agrees(t)
    BY Zenon, <1>1, <1>2 DEF Agrees
  <2>2. ASSUME NEW t \in Threads PROVE DraftOK(t)
    <3>1. kdesc[t].entries = <<>> /\ t \notin building
      BY Zenon, <1>2
    <3>2. Len(kdesc[t].entries) <= MaxK
      BY <3>1, ConstantsAssumption
    <3> QED
      BY <3>1, <3>2 DEF DraftOK
  <2> QED
    BY Zenon, <2>1, <2>2
<1>4. val \in [Addrs -> Values]
  <2>1. ASSUME NEW a \in Addrs PROVE Logical(a) \in Values
    <3>1. mem[a] \in Plain
      BY <1>1 DEF Init
    <3> QED
      BY <3>1 DEF Plain, Logical
  <2> QED
    BY <1>1, <2>1 DEF Words
<1>5. call = [t \in Threads |-> Strong!Returned(Strong!Swapped(TRUE))]
  BY <1>1, <1>2 DEF Swapped, Strong!Swapped
<1>6. call = [t \in Threads |-> call[t]]
  BY <1>1
<1> QED
  BY Zenon, <1>1, <1>3, <1>4, <1>5, <1>6 DEF HInv, Strong!Init

LEMMA HInvStep ==
  ASSUME Inv1, Inv3, TypeOK', Evolves, HInv, [HNext]_hvars
  PROVE  HInv'
<1>1. CASE HNext
  <2>1. PICK t \in Threads : Acts(t)
    BY <1>1, ActsOrNot DEF HNext, Next, Acts
  <2>2. \A u \in Threads : DraftOK(u)'
    BY <2>1, DraftStep DEF HInv
  <2>3. \A u \in Threads : Agrees(u)'
    BY <1>1, AgreesNext
  <2>4. val' = Words' /\ call' = [u \in Threads |-> call'[u]]
    BY Zenon, <1>1 DEF HNext
  <2> QED
    BY <2>2, <2>3, <2>4 DEF HInv
<1>2. CASE UNCHANGED hvars
  <2> USE <1>2 DEF hvars, vars
  <2>1. Words' = Words
    BY DEF Words, Logical, KcasValue
  <2>2. ASSUME NEW t \in Threads PROVE Agrees(t)' /\ DraftOK(t)'
    <3>1. Agrees(t) /\ DraftOK(t)
      BY DEF HInv
    <3>2. /\ Request(t)' = Request(t) /\ (IsReading(t)' <=> IsReading(t))
          /\ (Executing(t)' <=> Executing(t))
      BY DEF Request, IsReading, Executing
    <3>3. Agrees(t)'
      BY Zenon, <3>1, <3>2 DEF Agrees, Strong!Matches
    <3> QED
      BY Zenon, <3>1, <3>3 DEF DraftOK
  <2> QED
    BY <2>1, <2>2 DEF HInv
<1> QED
  BY <1>1, <1>2

LEMMA HStep ==
  ASSUME Inv1, TypeOK', Evolves, Inv2, Inv3, Inv4, Inv4', HInv, [HNext]_hvars,
         \A t \in Threads : execute(t) => Request(t)' \in Strong!Requests
  PROVE  [Strong!Next]_(Strong!vars)
<1> SUFFICES Strong!Next \/ UNCHANGED <<val, call>>
  BY DEF Strong!vars
<1>1. CASE HNext
  <2>1. PICK t \in Threads : Acts(t)
    BY <1>1, ActsOrNot DEF HNext, Next, Acts
  <2>2. CASE Decides(t)
    BY <1>1, <2>1, <2>2, DecideStep
  <2>3. CASE ~ Decides(t) /\ pc[t] = "idle"
    BY <1>1, <2>1, <2>3, InvokeStep
  <2>4. CASE ~ Decides(t) /\ pc[t] # "idle"
    BY <1>1, <2>1, <2>4, RunningStep
  <2> QED
    BY <2>2, <2>3, <2>4
<1>2. CASE UNCHANGED hvars
  BY <1>2 DEF hvars
<1> QED
  BY <1>1, <1>2
=============================================================================
