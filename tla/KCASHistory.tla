---------------------------- MODULE KCASHistory -----------------------------
(***************************************************************************)
(* KCAS with the abstract state it stands for kept in history variables,   *)
(* and the refinement they are there for: KCAS implements AtomicKCAS. A    *)
(* request takes effect when the state field of its descriptor is decided, *)
(* whichever thread decides it.                                            *)
(***************************************************************************)
EXTENDS KCAS

VARIABLES
  val,    \* the values of the words
  call    \* the operation of each thread and what it has observed

hvars == <<vars, val, call>>

Strong == INSTANCE AtomicKCAS WITH Spurious <- FALSE

Words == [a \in Addrs |-> Logical(a)]
Request(t) == {kdesc[t].entries[i] : i \in DOMAIN kdesc[t].entries}

HInit ==
  /\ Init
  /\ val = Words
  /\ call = [t \in Threads |-> Strong!Returned(ret[t])]

(* What the operation of t has observed so far.                            *)
SeenBy(t) == IF call[t].op = "read" THEN call[t].seen ELSE {}
MissedBy(t) == call[t].op = "kcas" /\ call[t].missed

(* The abstract operation of t after a step, given the outcome of its      *)
(* request.                                                                *)
CallAfter(t, outcome) ==
  IF IsReading(t)'
    THEN Strong!Reading(reg'[t].addr, SeenBy(t) \cup {val'[reg'[t].addr]})
  ELSE IF ~ Executing(t)'
    THEN Strong!Returned(ret'[t])
  ELSE IF outcome = "UNDECIDED"
    THEN LET es == Request(t)' IN
         Strong!Pending(es, MissedBy(t) \/ ~ Strong!Matches(val', es))
  ELSE Strong!Decided(outcome = "SUCCEEDED")

HNext ==
  /\ Next
  /\ val' = Words'
  /\ call' = [t \in Threads |-> CallAfter(t, kdesc'[t].state)]

HSpec == HInit /\ [][HNext]_hvars

(* KCAS implements the atomic k-word compare-and-swap: every execute takes *)
(* effect at one point between its call and its return, fails only when a  *)
(* word differed in between, and every read returns a value the word had.  *)
Atomicity == Strong!Spec
=============================================================================
