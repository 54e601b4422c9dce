-------------------------------- MODULE KCAS --------------------------------
(***************************************************************************)
(* The lock-free k-word compare-and-swap with reusable descriptors of      *)
(* src/cpp/common/kcas (class KCASLockFree), the primitive under the AVL   *)
(* tree of src/cpp/ds/sigouin_int_bst_kcas.                                *)
(*                                                                         *)
(* A thread owns one k-CAS descriptor and one RDCSS descriptor for life.   *)
(* It builds a request in the former (start, add), publishes it (execute)  *)
(* and then, like everyone who meets its tag in a word, runs help: phase 1 *)
(* installs the tag in every word, each time through an RDCSS that is only *)
(* to take effect while the request is undecided; the state field then     *)
(* decides; phase 2 replaces the tags by the new or by the old values.     *)
(* Sequence numbers tell the lives of a reused descriptor apart: start and *)
(* execute each take the next one, so that a request has one number while  *)
(* it is built and another once it is published. Between start and execute *)
(* a caller may read other words, and it may start over.                   *)
(*                                                                         *)
(* One action per access to shared memory.                                 *)
(***************************************************************************)
EXTENDS Integers, Sequences

CONSTANTS
  Threads,      \* the threads, each with its TIDGenerator slot
  Addrs,        \* addresses of the caswords: integers, for the sort
  Values,       \* plain contents of a casword: integers
  MaxK,         \* MAX_KCAS
  EntriesOf,    \* EntriesOf[t][s]: the entries that a request of t built under
                \* sequence number s draws on; bound: the last s is the length
  ReadsOf,      \* ReadsOf[t]: the words t may read
  MaxDepth,     \* bound: nesting of helpOther calls
  Guard,        \* Guard[a]: the version word that protects word a
  Disciplined   \* callers change a word only together with its version word

Entry == [addr : Addrs, old : Values, new : Values]

ASSUME ConstantsAssumption ==
  /\ Addrs \subseteq Nat \ {0}
  /\ Values \subseteq Int
  /\ MaxK \in Nat \ {0}
  /\ EntriesOf \in [Threads -> Seq(SUBSET Entry)]
  /\ ReadsOf \in [Threads -> SUBSET Addrs]
  /\ MaxDepth \in Nat \ {0}
  /\ Guard \in [Addrs -> Addrs]
  /\ \A a \in Addrs : Guard[a] <= a /\ Guard[Guard[a]] = Guard[a]
  /\ Disciplined \in BOOLEAN

VARIABLES
  mem,     \* mem[a]: the bits of casword a
  kdesc,   \* kcasDescriptors
  rdesc,   \* rdcssDescriptors
  building,\* the threads between start and execute
  pc,      \* control point of each thread
  depth,   \* number of help calls on the stack of each thread
  frame,   \* frame[t][d]: the locals of the d-th of them
  reg,     \* the locals of rdcssRead, rdcssHelp and of the call in progress
  ret      \* what the last operation of each thread returned

vars == <<mem, kdesc, rdesc, building, pc, depth, frame, reg, ret>>

-----------------------------------------------------------------------------
(* A word is a plain value or a tag <seq, tid, tagbit> (TAGPTR_NEW).       *)

Val(v) == [kind |-> "val", val |-> v]
KcasTag(t, s) == [kind |-> "kcas", tid |-> t, seq |-> s]
RdcssTag(t, s) == [kind |-> "rdcss", tid |-> t, seq |-> s]

isRdcss(w) == w.kind = "rdcss"
isKcas(w) == w.kind = "kcas"

Plain == [kind : {"val"}, val : Values]
KcasTags == [kind : {"kcas"}, tid : Threads, seq : Nat]
RdcssTags == [kind : {"rdcss"}, tid : Threads, seq : Nat]
Word == Plain \cup KcasTags \cup RdcssTags

States == {"UNDECIDED", "SUCCEEDED", "FAILED"}

(* An RDCSS replaces value old of word addr by ktag, provided the request  *)
(* that ktag names is undecided (addr1, old1 and new2 all come from ktag). *)
Rdcss == [ktag : KcasTags, addr : Addrs, old : Values]

NULL == 0
NoTag == [kind |-> "none"]
NoRdcss == [ktag |-> NoTag]
NoFrame == [tag |-> NoTag, seq |-> 0, entries |-> <<>>, helping |-> FALSE, i |-> 0,
            state |-> "UNDECIDED"]
NoReg == [addr |-> NULL, tag |-> NoTag, copy |-> NoRdcss, helping |-> FALSE, ok |-> FALSE]

Swapped(b) == [op |-> "kcas", ok |-> b]
Got(v) == [op |-> "read", value |-> v]
NoResult == [op |-> "none"]

(* DESC_READ_FIELD on a k-CAS descriptor: is it still in the life that the *)
(* tag names, and if so is it in that state.                               *)
Alive(tag) == kdesc[tag.tid].seq = tag.seq
InState(tag, st) == Alive(tag) /\ kdesc[tag.tid].state = st

(* The value a reader obtains from a word, now: that of the word before an *)
(* undecided or failed request, after a successful one.                    *)
EntryFor(es, a) == es[CHOOSE i \in DOMAIN es : es[i].addr = a]
KcasValue(a, tag) ==
  LET e == EntryFor(kdesc[tag.tid].entries, a)
  IN  IF kdesc[tag.tid].state = "SUCCEEDED" THEN e.new ELSE e.old
Logical(a) ==
  CASE mem[a].kind = "val"   -> mem[a].val
    [] mem[a].kind = "rdcss" -> rdesc[mem[a].tid].body.old
    [] mem[a].kind = "kcas"  -> KcasValue(a, mem[a])

-----------------------------------------------------------------------------
Goto(t, l) == pc' = [pc EXCEPT ![t] = l]

Top(t) == frame[t][depth[t]]
CurrentEntry(t) == Top(t).entries[Top(t).i]

Push(t, f) ==
  /\ depth[t] < MaxDepth
  /\ depth' = [depth EXCEPT ![t] = @ + 1]
  /\ frame' = [frame EXCEPT ![t][depth[t] + 1] = f]

(* help or helpOther returns. Its caller was execute, which returns what   *)
(* help returned; or readPtr, which reads again; or an outer help, which   *)
(* goes to retry_entry.                                                    *)
Return(t, result) ==
  /\ depth' = [depth EXCEPT ![t] = @ - 1]
  /\ frame' = [frame EXCEPT ![t][depth[t]] = NoFrame]
  /\ IF depth[t] > 1 THEN Goto(t, "entry") /\ UNCHANGED ret
     ELSE IF Top(t).helping THEN Goto(t, "read") /\ UNCHANGED ret
     ELSE Goto(t, "idle") /\ ret' = [ret EXCEPT ![t] = Swapped(result)]

(* Fault: the last entry is not locked.                                    *)
LoopHeadShort(es, i) == IF i >= Len(es) THEN "decide" ELSE "entry"

(* The head of the loop over the entries: the next one, or the decision.   *)
LoopHead(es, i) == IF i > Len(es) THEN "decide" ELSE "entry"

(* The locals of rdcssHelp go out of scope.                                *)
ForgetRdcss(t) ==
  reg' = [reg EXCEPT ![t] = [NoReg EXCEPT !.addr = reg[t].addr]]

(* rdcssHelpOther was called by rdcss or by rdcssRead, which try again.    *)
Retry(t) ==
  /\ Goto(t, IF depth[t] > 0 THEN "rdcss" ELSE "read")
  /\ ForgetRdcss(t)

-----------------------------------------------------------------------------
(* The caller's side: start, add, execute; readPtr and readVal.            *)

start(t) ==
  /\ pc[t] = "idle"
  /\ kdesc[t].seq < Len(EntriesOf[t])
  /\ kdesc' = [kdesc EXCEPT ![t] = [seq |-> @.seq + 1, state |-> "UNDECIDED",
                                    entries |-> <<>>]]
  /\ building' = building \cup {t}
  /\ UNCHANGED <<mem, rdesc, pc, depth, frame, reg, ret>>

(* No word is added twice: an assumption on the callers. The trees keep to *)
(* it but for one race of AVLTree (see RequestsGuarded there).             *)
add(t) ==
  /\ pc[t] = "idle" /\ t \in building
  /\ Len(kdesc[t].entries) < MaxK
  /\ \E e \in EntriesOf[t][kdesc[t].seq] :
       /\ \A i \in DOMAIN kdesc[t].entries : kdesc[t].entries[i].addr # e.addr
       /\ kdesc' = [kdesc EXCEPT ![t].entries = Append(@, e)]
  /\ UNCHANGED <<building, mem, rdesc, pc, depth, frame, reg, ret>>

(* What the trees of this repository keep to, but for the same race. A     *)
(* word that only grows (a node's vNumMark, and its key) guards itself,    *)
(* and what is expected of it was read from it. Any other word is compared *)
(* along with its version word, and only changes when the version does.    *)
FollowsDiscipline(es) ==
  \A i \in DOMAIN es :
    LET e == es[i]
        g == Guard[e.addr]
    IN  IF g = e.addr
        THEN e.old <= Logical(g) /\ e.old <= e.new
        ELSE \E j \in DOMAIN es :
               /\ es[j].addr = g
               /\ e.new # e.old => es[j].new > es[j].old

(* Fault: the entries stay in the order of the add calls.                  *)
UnsortedEntries(es) == {es}

(* kcasdesc_sort: the same entries by increasing address.                  *)
IsSorted(es) == \A i, j \in DOMAIN es : i < j => es[i].addr < es[j].addr
SortedEntries(es) ==
  {ss \in [DOMAIN es -> {es[i] : i \in DOMAIN es}] : IsSorted(ss)}

execute(t) ==
  /\ pc[t] = "idle" /\ t \in building
  /\ kdesc[t].entries # <<>>
  /\ Disciplined => FollowsDiscipline(kdesc[t].entries)
  /\ \E es \in SortedEntries(kdesc[t].entries) :
       LET s == kdesc[t].seq + 1 IN
       /\ kdesc' = [kdesc EXCEPT ![t].seq = s, ![t].entries = es]
       /\ Push(t, [tag |-> KcasTag(t, s), seq |-> s, entries |-> es,
                   helping |-> FALSE, i |-> 1, state |-> "UNDECIDED"])
  /\ building' = building \ {t}
  /\ ret' = [ret EXCEPT ![t] = NoResult]
  /\ Goto(t, "help")
  /\ UNCHANGED <<mem, rdesc, reg>>

readPtr(t, a) ==
  /\ pc[t] = "idle"
  /\ reg' = [reg EXCEPT ![t].addr = a]
  /\ ret' = [ret EXCEPT ![t] = NoResult]
  /\ Goto(t, "read")
  /\ UNCHANGED <<building, mem, kdesc, rdesc, depth, frame>>

(* One round of rdcssRead: the word is returned, or its descriptor helped. *)
rdcssRead(t) ==
  /\ pc[t] = "read"
  /\ LET w == mem[reg[t].addr] IN
     \/ /\ isRdcss(w)
        /\ reg' = [reg EXCEPT ![t].tag = w, ![t].helping = TRUE]
        /\ Goto(t, "copy_rdcss")
        /\ UNCHANGED ret
     \/ /\ isKcas(w)
        /\ reg' = [reg EXCEPT ![t].tag = w]
        /\ Goto(t, "copy_kcas")
        /\ UNCHANGED ret
     \/ /\ ~ isRdcss(w) /\ ~ isKcas(w)
        /\ reg' = [reg EXCEPT ![t].addr = NULL]
        /\ ret' = [ret EXCEPT ![t] = Got(w.val)]
        /\ Goto(t, "idle")
  /\ UNCHANGED <<building, mem, kdesc, rdesc, depth, frame>>

-----------------------------------------------------------------------------
(* rdcssHelpOther and rdcssHelp.                                           *)

(* DESC_SNAPSHOT: copy the descriptor, then ...                            *)
rdcssCopy(t) ==
  /\ pc[t] = "copy_rdcss"
  /\ reg' = [reg EXCEPT ![t].copy = rdesc[reg[t].tag.tid].body]
  /\ Goto(t, "check_rdcss")
  /\ UNCHANGED <<building, mem, kdesc, rdesc, depth, frame, ret>>

(* ... give up unless the sequence number is still the one of the tag.     *)
rdcssCheck(t) ==
  /\ pc[t] = "check_rdcss"
  /\ IF rdesc[reg[t].tag.tid].seq = reg[t].tag.seq
     THEN Goto(t, "rdcss_state") /\ UNCHANGED reg
     ELSE Retry(t)
  /\ UNCHANGED <<building, mem, kdesc, rdesc, depth, frame, ret>>

(* Fault: a plain compare-and-swap, whatever became of the request.        *)
rdcssStateIgnored(t) ==
  /\ pc[t] = "rdcss_state"
  /\ reg' = [reg EXCEPT ![t].ok = TRUE]
  /\ Goto(t, "rdcss_finish")
  /\ UNCHANGED <<building, mem, kdesc, rdesc, depth, frame, ret>>

rdcssReadState(t) ==
  /\ pc[t] = "rdcss_state"
  /\ reg' = [reg EXCEPT ![t].ok = InState(reg[t].copy.ktag, "UNDECIDED")]
  /\ Goto(t, "rdcss_finish")
  /\ UNCHANGED <<building, mem, kdesc, rdesc, depth, frame, ret>>

(* Advance the loop of the innermost help.                                 *)
NextEntry(t) ==
  /\ frame' = [frame EXCEPT ![t][depth[t]].i = @ + 1]
  /\ Goto(t, LoopHead(Top(t).entries, Top(t).i + 1))

BoolCas(a, old, new) ==
  mem' = IF mem[a] = old THEN [mem EXCEPT ![a] = new] ELSE mem

(* Fault: the old value is not put back when the request is decided.       *)
rdcssNotUndone(t) ==
  /\ pc[t] = "rdcss_finish"
  /\ LET c == reg[t].copy IN
     BoolCas(c.addr, reg[t].tag, IF reg[t].ok THEN c.ktag ELSE reg[t].tag)
  /\ IF reg[t].helping
     THEN Retry(t) /\ UNCHANGED frame
     ELSE NextEntry(t) /\ ForgetRdcss(t)
  /\ UNCHANGED <<building, kdesc, rdesc, depth, ret>>

rdcssHelp(t) ==
  /\ pc[t] = "rdcss_finish"
  /\ LET c == reg[t].copy IN
     BoolCas(c.addr, reg[t].tag, IF reg[t].ok THEN c.ktag ELSE Val(c.old))
  /\ IF reg[t].helping
     THEN Retry(t) /\ UNCHANGED frame
     ELSE NextEntry(t) /\ ForgetRdcss(t)
  /\ UNCHANGED <<building, kdesc, rdesc, depth, ret>>

-----------------------------------------------------------------------------
(* helpOther and help.                                                     *)

(* Fault: a helper takes all the words to be locked.                       *)
kcasCopyTooFar(t) ==
  /\ pc[t] = "copy_kcas"
  /\ LET tag == reg[t].tag
         d == kdesc[tag.tid]
     IN  Push(t, [tag |-> tag, seq |-> d.seq, entries |-> d.entries,
                  helping |-> TRUE, i |-> Len(d.entries) + 1, state |-> "UNDECIDED"])
  /\ reg' = [reg EXCEPT ![t].tag = NoTag]
  /\ Goto(t, "check_kcas")
  /\ UNCHANGED <<building, mem, kdesc, rdesc, ret>>

kcasCopy(t) ==
  /\ pc[t] = "copy_kcas"
  /\ LET tag == reg[t].tag
         d == kdesc[tag.tid]
     IN  Push(t, [tag |-> tag, seq |-> d.seq, entries |-> d.entries,
                  helping |-> TRUE, i |-> 2, state |-> "UNDECIDED"])
  /\ reg' = [reg EXCEPT ![t].tag = NoTag]
  /\ Goto(t, "check_kcas")
  /\ UNCHANGED <<building, mem, kdesc, rdesc, ret>>

(* Fault: the sequence number is not compared after the copy.              *)
kcasUnchecked(t) ==
  /\ pc[t] = "check_kcas"
  /\ Goto(t, "help")
  /\ UNCHANGED <<building, mem, kdesc, rdesc, depth, frame, reg, ret>>

kcasCheck(t) ==
  /\ pc[t] = "check_kcas"
  /\ IF Alive(Top(t).tag)
     THEN Goto(t, "help") /\ UNCHANGED <<depth, frame, ret>>
     ELSE Return(t, FALSE)
  /\ UNCHANGED <<building, mem, kdesc, rdesc, reg>>

(* help reads the state: another life, undecided, or decided already. A    *)
(* helper starts at the second entry: it met the tag, so the owner has     *)
(* locked the first.                                                       *)
helpReadState(t) ==
  /\ pc[t] = "help"
  /\ LET f == Top(t) IN
     \/ /\ ~ Alive(f.tag)
        /\ Return(t, FALSE)
     \/ /\ InState(f.tag, "UNDECIDED")
        /\ frame' = [frame EXCEPT ![t][depth[t]].state = "SUCCEEDED"]
        /\ Goto(t, LoopHead(f.entries, f.i))
        /\ UNCHANGED <<depth, ret>>
     \/ /\ Alive(f.tag) /\ ~ InState(f.tag, "UNDECIDED")
        /\ Goto(t, "phase2")
        /\ UNCHANGED <<frame, depth, ret>>
  /\ UNCHANGED <<building, mem, kdesc, rdesc, reg>>

(* retry_entry: DESC_NEW on the RDCSS descriptor of this thread, ...       *)
rdcssNew(t) ==
  /\ pc[t] = "entry"
  /\ rdesc' = [rdesc EXCEPT ![t].seq = @ + 1]
  /\ Goto(t, "fill")
  /\ UNCHANGED <<building, mem, kdesc, depth, frame, reg, ret>>

(* ... its fields, and DESC_INITIALIZED.                                   *)
rdcssInitialized(t) ==
  /\ pc[t] = "fill"
  /\ LET e == CurrentEntry(t) IN
     rdesc' = [rdesc EXCEPT ![t] =
                 [seq |-> @.seq + 1,
                  body |-> [ktag |-> Top(t).tag, addr |-> e.addr, old |-> e.old]]]
  /\ Goto(t, "rdcss")
  /\ UNCHANGED <<building, mem, kdesc, depth, frame, reg, ret>>

(* rdcss: one VAL_CAS and what help does with the word it returns.         *)
rdcss(t) ==
  /\ pc[t] = "rdcss"
  /\ LET e == CurrentEntry(t)
         w == mem[e.addr]
         mine == RdcssTag(t, rdesc[t].seq)
     IN
     \/ /\ w = Val(e.old)
        /\ mem' = [mem EXCEPT ![e.addr] = mine]
        /\ reg' = [reg EXCEPT ![t].tag = mine, ![t].copy = rdesc[t].body]
        /\ Goto(t, "rdcss_state")
        /\ UNCHANGED frame
     \/ /\ isRdcss(w)
        /\ reg' = [reg EXCEPT ![t].tag = w, ![t].helping = TRUE]
        /\ Goto(t, "copy_rdcss")
        /\ UNCHANGED <<mem, frame>>
     \/ /\ isKcas(w) /\ w # Top(t).tag
        /\ reg' = [reg EXCEPT ![t].tag = w]
        /\ Goto(t, "copy_kcas")
        /\ UNCHANGED <<mem, frame>>
     \/ /\ w = Top(t).tag
        /\ NextEntry(t)
        /\ UNCHANGED <<mem, reg>>
     \/ /\ ~ isRdcss(w) /\ ~ isKcas(w) /\ w # Val(e.old)
        /\ frame' = [frame EXCEPT ![t][depth[t]].state = "FAILED"]
        /\ Goto(t, "decide")
        /\ UNCHANGED <<mem, reg>>
  /\ UNCHANGED <<building, kdesc, rdesc, depth, ret>>

(* Fault: the state is written over whatever was decided before.           *)
decideAgain(t) ==
  /\ pc[t] = "decide"
  /\ LET f == Top(t) IN
     kdesc' = IF kdesc[f.tag.tid].seq = f.seq
              THEN [kdesc EXCEPT ![f.tag.tid].state = f.state]
              ELSE kdesc
  /\ Goto(t, "phase2")
  /\ UNCHANGED <<building, mem, rdesc, depth, frame, reg, ret>>

(* SEQBITS_CAS_FIELD: the first to get here decides.                       *)
decide(t) ==
  /\ pc[t] = "decide"
  /\ LET f == Top(t)
         d == kdesc[f.tag.tid]
     IN  kdesc' = IF d.seq = f.seq /\ d.state = "UNDECIDED"
                  THEN [kdesc EXCEPT ![f.tag.tid].state = f.state]
                  ELSE kdesc
  /\ Goto(t, "phase2")
  /\ UNCHANGED <<building, mem, rdesc, depth, frame, reg, ret>>

(* Fault: phase 2 trusts this thread's own view of the outcome.            *)
phase2OwnView(t) ==
  /\ pc[t] = "phase2"
  /\ IF Alive(Top(t).tag)
     THEN /\ frame' = [frame EXCEPT ![t][depth[t]].i = 1]
          /\ Goto(t, "unlock")
          /\ UNCHANGED <<depth, ret>>
     ELSE Return(t, FALSE)
  /\ UNCHANGED <<building, mem, kdesc, rdesc, reg>>

phase2(t) ==
  /\ pc[t] = "phase2"
  /\ LET f == Top(t) IN
     IF Alive(f.tag)
     THEN /\ frame' = [frame EXCEPT ![t][depth[t]] =
                         [f EXCEPT !.i = 1, !.state = kdesc[f.tag.tid].state]]
          /\ Goto(t, "unlock")
          /\ UNCHANGED <<depth, ret>>
     ELSE Return(t, FALSE)
  /\ UNCHANGED <<building, mem, kdesc, rdesc, reg>>

(* Fault: the last word is skipped.                                        *)
unlockShort(t) ==
  /\ pc[t] = "unlock"
  /\ LET f == Top(t)
         e == CurrentEntry(t)
         succeeded == f.state = "SUCCEEDED"
     IN
     /\ BoolCas(e.addr, f.tag, Val(IF succeeded THEN e.new ELSE e.old))
     /\ IF f.i < Len(f.entries) - 1
        THEN /\ frame' = [frame EXCEPT ![t][depth[t]].i = @ + 1]
             /\ UNCHANGED <<pc, depth, ret>>
        ELSE Return(t, succeeded)
  /\ UNCHANGED <<building, kdesc, rdesc, reg>>

(* Fault: the value is written without being shifted past the tag bits,    *)
(* where an odd one looks like the tag of an RDCSS.                        *)
unlockUnencoded(t) ==
  /\ pc[t] = "unlock"
  /\ LET f == Top(t)
         e == CurrentEntry(t)
         succeeded == f.state = "SUCCEEDED"
     IN
     /\ BoolCas(e.addr, f.tag, RdcssTag(NULL, IF succeeded THEN e.new ELSE e.old))
     /\ IF f.i < Len(f.entries)
        THEN /\ frame' = [frame EXCEPT ![t][depth[t]].i = @ + 1]
             /\ UNCHANGED <<pc, depth, ret>>
        ELSE Return(t, succeeded)
  /\ UNCHANGED <<building, kdesc, rdesc, reg>>

unlock(t) ==
  /\ pc[t] = "unlock"
  /\ LET f == Top(t)
         e == CurrentEntry(t)
         succeeded == f.state = "SUCCEEDED"
     IN
     /\ BoolCas(e.addr, f.tag, Val(IF succeeded THEN e.new ELSE e.old))
     /\ IF f.i < Len(f.entries)
        THEN /\ frame' = [frame EXCEPT ![t][depth[t]].i = @ + 1]
             /\ UNCHANGED <<pc, depth, ret>>
        ELSE Return(t, succeeded)
  /\ UNCHANGED <<building, kdesc, rdesc, reg>>

-----------------------------------------------------------------------------
Init ==
  /\ mem \in [Addrs -> Plain]
  /\ kdesc = [t \in Threads |-> [seq |-> 1, state |-> "UNDECIDED", entries |-> <<>>]]
  /\ rdesc = [t \in Threads |-> [seq |-> 1, body |-> NoRdcss]]
  /\ building = {}
  /\ pc = [t \in Threads |-> "idle"]
  /\ depth = [t \in Threads |-> 0]
  /\ frame = [t \in Threads |-> [d \in 1..MaxDepth |-> NoFrame]]
  /\ reg = [t \in Threads |-> NoReg]
  /\ ret = [t \in Threads |-> Swapped(TRUE)]

(* The steps a running operation takes by itself.                          *)
Step(t) ==
  \/ rdcssRead(t)
  \/ rdcssCopy(t) \/ rdcssCheck(t) \/ rdcssReadState(t) \/ rdcssHelp(t)
  \/ kcasCopy(t) \/ kcasCheck(t) \/ helpReadState(t)
  \/ rdcssNew(t) \/ rdcssInitialized(t) \/ rdcss(t)
  \/ decide(t) \/ phase2(t) \/ unlock(t)

Next ==
  \E t \in Threads :
    \/ start(t)
    \/ add(t)
    \/ execute(t)
    \/ \E a \in ReadsOf[t] : readPtr(t, a)
    \/ Step(t)

Spec == Init /\ [][Next]_vars

-----------------------------------------------------------------------------
(* Properties.                                                             *)

Pcs == {"idle", "read", "copy_rdcss", "check_rdcss", "rdcss_state",
        "rdcss_finish", "copy_kcas", "check_kcas", "help", "entry", "fill",
        "rdcss", "decide", "phase2", "unlock"}

KcasDesc == [seq : Nat, state : States, entries : Seq(Entry)]
RdcssDesc == [seq : Nat, body : Rdcss \cup {NoRdcss}]

Frame == [tag : KcasTags \cup {NoTag}, seq : Nat, entries : Seq(Entry),
          helping : BOOLEAN, i : Nat, state : States]

Reg == [addr : Addrs \cup {NULL}, tag : KcasTags \cup RdcssTags \cup {NoTag},
        copy : Rdcss \cup {NoRdcss}, helping : BOOLEAN, ok : BOOLEAN]

Result == [op : {"kcas"}, ok : BOOLEAN] \cup [op : {"read"}, value : Values]
            \cup {NoResult}

(* The words, the descriptors and the locals of every thread have the      *)
(* types their declarations give them.                                     *)
TypeOK ==
  /\ mem \in [Addrs -> Word]
  /\ kdesc \in [Threads -> KcasDesc]
  /\ rdesc \in [Threads -> RdcssDesc]
  /\ building \subseteq Threads
  /\ pc \in [Threads -> Pcs]
  /\ depth \in [Threads -> 0..MaxDepth]
  /\ frame \in [Threads -> [1..MaxDepth -> Frame]]
  /\ reg \in [Threads -> Reg]
  /\ ret \in [Threads -> Result]

(* The thread is inside execute.                                           *)
IsReading(t) == reg[t].addr # NULL
Executing(t) == pc[t] # "idle" /\ ~ IsReading(t)

(* The owner of an RDCSS descriptor is between its own VAL_CAS and the end *)
(* of its own rdcssHelp.                                                   *)
Finishing(t) == pc[t] \in {"rdcss_state", "rdcss_finish"} /\ ~ reg[t].helping

(* The d-th help of t is in its loop over the entries.                     *)
InLoop(t, d) ==
  \/ d < depth[t]
  \/ /\ d = depth[t]
     /\ pc[t] \in {"entry", "fill", "rdcss", "copy_rdcss", "check_rdcss",
                   "rdcss_state", "rdcss_finish", "copy_kcas", "decide"}

(* A word never keeps the tag of a retired request: when execute returns,  *)
(* no word refers to the descriptor, which the owner is then free to       *)
(* reuse ("perform the kcas and retire the old descriptor").               *)
TagsLive ==
  \A a \in Addrs : isKcas(mem[a]) =>
    /\ Alive(mem[a])
    /\ Executing(mem[a].tid)
    /\ \E i \in DOMAIN kdesc[mem[a].tid].entries :
         kdesc[mem[a].tid].entries[i].addr = a

(* An RDCSS descriptor is not reused while a word refers to it, whoever    *)
(* helps it: its owner is still finishing that very RDCSS.                 *)
RdcssTagsLive ==
  \A a \in Addrs : isRdcss(mem[a]) =>
    LET t == mem[a].tid IN
    /\ rdesc[t].seq = mem[a].seq
    /\ rdesc[t].body.addr = a
    /\ Finishing(t)

(* Phase 1 locks in order and keeps what it locks: while a request is      *)
(* undecided, every word that any helper of it has passed holds its tag.   *)
LockedPrefix ==
  \A t \in Threads : \A d \in 1..depth[t] :
    LET f == frame[t][d] IN
    InLoop(t, d) /\ InState(f.tag, "UNDECIDED") =>
      \A j \in 1..(f.i - 1) : mem[f.entries[j].addr] = f.tag

(* The copy a helper works on is the request itself: whatever the owner    *)
(* did since, a validated copy differs only if its life is over.           *)
SnapshotSound ==
  \A t \in Threads : \A d \in 1..depth[t] :
    LET f == frame[t][d] IN
    (d = depth[t] => pc[t] # "check_kcas") =>
      /\ f.seq = f.tag.seq
      /\ Alive(f.tag) => f.entries = kdesc[f.tag.tid].entries

(* A request is decided SUCCEEDED in a state where all its words hold its  *)
(* tag, so all of them change at once for every reader.                    *)
SuccessIsAtomic ==
  [][\A t \in Threads :
       kdesc[t].state = "UNDECIDED" /\ kdesc'[t].state = "SUCCEEDED" =>
         \A i \in DOMAIN kdesc[t].entries :
           mem[kdesc[t].entries[i].addr] = KcasTag(t, kdesc[t].seq)]_vars

(* Nobody, however late, changes a decision within the life of a request.  *)
DecisionStable ==
  [][\A t \in Threads :
       kdesc[t].state # "UNDECIDED" /\ kdesc'[t].seq = kdesc[t].seq =>
         kdesc'[t].state = kdesc[t].state]_vars

(* Every thread keeps running: what an operation does once it is called    *)
(* needs no other thread, only processor time.                             *)
Fairness == \A t \in Threads : WF_vars(Step(t))
FairSpec == Spec /\ Fairness

(* Every execute and every read returns ("sort entries in the kcas         *)
(* descriptor to guarantee progress").                                     *)
Progress ==
  \A t \in Threads : (pc[t] # "idle") ~> (pc[t] = "idle")
=============================================================================
