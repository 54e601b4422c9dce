------------------------------ MODULE KCASHTM -------------------------------
(***************************************************************************)
(* The variant the AVL tree is built with by default (class KCASHTM):      *)
(* execute first tries to do the whole request in a hardware transaction,  *)
(* and only then falls back to help. Everything else is KCAS.              *)
(*                                                                         *)
(* The transaction is external: it either commits, in one step as far as   *)
(* other threads can tell, or aborts, with a code if it was explicit.      *)
(***************************************************************************)
EXTENDS KCASHistory

CONSTANT MAX_RETRIES   \* transactions tried before falling back

ASSUME RetriesAssumption == MAX_RETRIES \in Nat \ {0}

VARIABLE tries         \* tries[t]: transactions of t that have aborted

htmvars == <<hvars, tries>>

Weak == INSTANCE AtomicKCAS WITH Spurious <- TRUE

-----------------------------------------------------------------------------
(* DESC_INITIALIZED, and on to the first transaction. The entries are not  *)
(* sorted yet, although the descriptor is published.                       *)
publish(t) ==
  /\ pc[t] = "idle" /\ t \in building
  /\ kdesc[t].entries # <<>>
  /\ Disciplined => FollowsDiscipline(kdesc[t].entries)
  /\ kdesc' = [kdesc EXCEPT ![t].seq = @ + 1]
  /\ ret' = [ret EXCEPT ![t] = NoResult]
  /\ tries' = [tries EXCEPT ![t] = 0]
  /\ building' = building \ {t}
  /\ Goto(t, "htm")
  /\ UNCHANGED <<mem, rdesc, depth, frame, reg>>

(* The software path.                                                      *)
fallBack(t) ==
  /\ \E es \in SortedEntries(kdesc[t].entries) :
       /\ kdesc' = [kdesc EXCEPT ![t].entries = es]
       /\ Push(t, [tag |-> KcasTag(t, kdesc[t].seq), seq |-> kdesc[t].seq,
                   entries |-> es, helping |-> FALSE, i |-> 1,
                   state |-> "UNDECIDED"])
  /\ Goto(t, "help")

htmReturns(t, b) ==
  /\ reg' = [reg EXCEPT ![t].ok = b]
  /\ Goto(t, "htm_return")

Expected(e) == mem[e.addr] = Val(e.old)

(* Fault: only the first word is compared before all are written.          *)
xendBlind(t) ==
  /\ pc[t] = "htm"
  /\ Expected(kdesc[t].entries[1])
  /\ mem' = [a \in Addrs |-> IF \E e \in Request(t) : e.addr = a
                             THEN Val(EntryFor(kdesc[t].entries, a).new)
                             ELSE mem[a]]
  /\ htmReturns(t, TRUE)
  /\ UNCHANGED <<building, kdesc, rdesc, depth, frame, ret, tries>>

xend(t) ==
  /\ pc[t] = "htm"
  /\ \A e \in Request(t) : Expected(e)
  /\ mem' = [a \in Addrs |-> IF \E e \in Request(t) : e.addr = a
                             THEN Val(EntryFor(kdesc[t].entries, a).new)
                             ELSE mem[a]]
  /\ htmReturns(t, TRUE)
  /\ UNCHANGED <<building, kdesc, rdesc, depth, frame, ret, tries>>

(* The first word that differs: HTM_READ_DESCRIPTOR or HTM_BAD_OLD_VAL.    *)
FirstDiffers(t, w) ==
  LET es == kdesc[t].entries IN
  \E i \in DOMAIN es :
    /\ \A j \in 1..(i - 1) : Expected(es[j])
    /\ ~ Expected(es[i])
    /\ w = mem[es[i].addr]

xabort(t) ==
  /\ pc[t] = "htm"
  /\ \E w \in {mem[e.addr] : e \in Request(t)} :
       /\ FirstDiffers(t, w)
       /\ \/ /\ isKcas(w)
             /\ fallBack(t)
             /\ UNCHANGED reg
          \/ /\ ~ isKcas(w)
             /\ htmReturns(t, FALSE)
             /\ UNCHANGED <<kdesc, depth, frame>>
  /\ UNCHANGED <<building, mem, rdesc, ret, tries>>

(* A conflict, an interrupt, no capacity, no hardware support.             *)
aborted(t) ==
  /\ pc[t] = "htm"
  /\ tries' = [tries EXCEPT ![t] = @ + 1]
  /\ \/ /\ tries[t] + 1 < MAX_RETRIES
        /\ UNCHANGED <<kdesc, pc, depth, frame>>
     \/ /\ tries[t] + 1 = MAX_RETRIES
        /\ fallBack(t)
  /\ UNCHANGED <<building, mem, rdesc, reg, ret>>

returnHTM(t) ==
  /\ pc[t] = "htm_return"
  /\ ret' = [ret EXCEPT ![t] = Swapped(reg[t].ok)]
  /\ reg' = [reg EXCEPT ![t] = NoReg]
  /\ Goto(t, "idle")
  /\ UNCHANGED <<building, mem, kdesc, rdesc, depth, frame, tries>>

-----------------------------------------------------------------------------
(* The transaction decides a request that no descriptor shows as decided.  *)
Outcome(t) ==
  IF pc[t] # "htm_return" THEN kdesc[t].state
  ELSE IF reg[t].ok THEN "SUCCEEDED" ELSE "FAILED"

HTMInit ==
  /\ HInit
  /\ tries = [t \in Threads |-> 0]

HTMNext ==
  /\ \E t \in Threads :
       \/ start(t) /\ UNCHANGED tries
       \/ add(t) /\ UNCHANGED tries
       \/ publish(t)
       \/ xend(t)
       \/ xabort(t)
       \/ aborted(t)
       \/ returnHTM(t)
       \/ (\E a \in ReadsOf[t] : readPtr(t, a)) /\ UNCHANGED tries
       \/ Step(t) /\ UNCHANGED tries
  /\ val' = Words'
  /\ call' = [t \in Threads |-> CallAfter(t, Outcome(t)')]

HTMSpec == HTMInit /\ [][HTMNext]_htmvars

-----------------------------------------------------------------------------
(* With transactions mixed in, KCAS still is an atomic compare-and-swap,   *)
(* but a weak one: a transaction that meets the tag of an RDCSS reports a  *)
(* mismatch (HTM_BAD_OLD_VAL) that no caller can see.                      *)
WeakAtomicity == Weak!Spec
=============================================================================
