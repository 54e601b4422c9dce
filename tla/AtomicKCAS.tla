----------------------------- MODULE AtomicKCAS -----------------------------
(***************************************************************************)
(* What the k-word compare-and-swap of src/cpp/common/kcas promises its    *)
(* callers: execute() compares and swaps all the words of a descriptor in  *)
(* one step, and readPtr() and readVal() return a value the word really    *)
(* held while the read was running.                                        *)
(***************************************************************************)
EXTENDS Integers, FiniteSets

CONSTANTS
  Threads,   \* threads that call the library
  Addrs,     \* addresses of the shared words, ordered
  Values,    \* what a word can hold when no operation is in flight
  MaxK,      \* MAX_KCAS: the most entries a request can have
  Spurious   \* execute() may also fail for no reason a caller can see

VARIABLES
  val,       \* val[a]: the value of word a
  call       \* call[t]: the operation of thread t and its answer

vars == <<val, call>>

Entry == [addr : Addrs, old : Values, new : Values]

(* The requests a caller can build: at least one entry, no address twice.  *)
Requests ==
  {es \in SUBSET Entry :
     /\ Cardinality(es) \in 1..MaxK
     /\ \A e, f \in es : e.addr = f.addr => e = f}

Returned(r) == [op |-> "returned", result |-> r]
Decided(b)  == [op |-> "decided", result |-> b]
Pending(es, m) == [op |-> "kcas", entries |-> es, missed |-> m]
Reading(a, s)  == [op |-> "read", addr |-> a, seen |-> s]

Swapped(b) == [op |-> "kcas", ok |-> b]
Got(v)     == [op |-> "read", value |-> v]

(* Every word of the request holds its expected value.                     *)
Matches(v, es) == \A e \in es : v[e.addr] = e.old

(* The words after the request took effect.                                *)
Apply(v, es) ==
  [a \in Addrs |-> IF \E e \in es : e.addr = a
                   THEN (CHOOSE e \in es : e.addr = a).new
                   ELSE v[a]]

(* What an unfinished operation remembers of the words it has seen.        *)
Observe(c, v) ==
  CASE c.op = "kcas" -> [c EXCEPT !.missed = @ \/ ~ Matches(v, c.entries)]
    [] c.op = "read" -> [c EXCEPT !.seen = @ \cup {v[c.addr]}]
    [] OTHER -> c

-----------------------------------------------------------------------------
Init ==
  /\ val \in [Addrs -> Values]
  /\ call = [t \in Threads |-> Returned(Swapped(TRUE))]

(* A caller's request is call'[t].entries: any of Requests.                *)
InvokeKCAS(t) ==
  /\ call[t].op = "returned"
  /\ call'[t].op = "kcas"
  /\ LET es == call'[t].entries IN
     /\ es \in Requests
     /\ call' = [call EXCEPT ![t] = Pending(es, ~ Matches(val, es))]
  /\ UNCHANGED val

InvokeRead(t, a) ==
  /\ call[t].op = "returned"
  /\ call' = [call EXCEPT ![t] = Reading(a, {val[a]})]
  /\ UNCHANGED val

(* All the words change at once, and only if all of them matched.          *)
Succeed(t) ==
  /\ call[t].op = "kcas"
  /\ Matches(val, call[t].entries)
  /\ val' = Apply(val, call[t].entries)
  /\ call' = [u \in Threads |-> IF u = t THEN Decided(TRUE)
                                ELSE Observe(call[u], val')]

(* A request fails only if some word differed at some time since the call, *)
(* unless failures may be spurious.                                        *)
Fail(t) ==
  /\ call[t].op = "kcas"
  /\ call[t].missed \/ Spurious
  /\ call' = [call EXCEPT ![t] = Decided(FALSE)]
  /\ UNCHANGED val

ReturnKCAS(t) ==
  /\ call[t].op = "decided"
  /\ call' = [call EXCEPT ![t] = Returned(Swapped(call[t].result))]
  /\ UNCHANGED val

ReturnRead(t) ==
  /\ call[t].op = "read"
  /\ \E v \in call[t].seen : call' = [call EXCEPT ![t] = Returned(Got(v))]
  /\ UNCHANGED val

Next ==
  \E t \in Threads :
    \/ InvokeKCAS(t)
    \/ \E a \in Addrs : InvokeRead(t, a)
    \/ Succeed(t)
    \/ Fail(t)
    \/ ReturnKCAS(t)
    \/ ReturnRead(t)

Spec == Init /\ [][Next]_vars
=============================================================================
