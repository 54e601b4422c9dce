---------------------------- MODULE ConcurrentSet ---------------------------
(***************************************************************************)
(* What the search trees promise to the threads that share them: every     *)
(* insertIfAbsent, erase and contains takes effect at one instant between  *)
(* its call and its return. An update that succeeds does so in a step of   *)
(* its own. An operation that changes nothing may answer anything that was *)
(* true at some instant since its call; `may' collects what was.           *)
(***************************************************************************)
EXTENDS Integers

CONSTANTS Threads, Keys

VARIABLES
  set,    \* the keys in the set
  calls   \* calls[t]: the operation of t, in progress or returned

vars == <<set, calls>>

Operations == [name : {"insertIfAbsent", "erase", "contains"}, key : Keys]

Running(o, may) == [at |-> "running", op |-> o, may |-> may]
Done(answer) == [at |-> "done", answer |-> answer]
Returned(answer) == [at |-> "returned", answer |-> answer]

TypeOK ==
  /\ set \subseteq Keys
  /\ \A t \in Threads :
       \/ \E o \in Operations, m \in SUBSET BOOLEAN : calls[t] = Running(o, m)
       \/ \E b \in BOOLEAN : calls[t] \in {Done(b), Returned(b)}

Init ==
  /\ set \subseteq Keys
  /\ calls = [t \in Threads |-> Returned(FALSE)]

Call(t) ==
  /\ calls[t].at = "returned"
  /\ \E o \in Operations :
       calls' = [calls EXCEPT ![t] = Running(o, {o.key \in set})]
  /\ UNCHANGED set

(* t has changed the set, and everyone else who is at work could see it.   *)
Takes(t) ==
  calls' = [u \in Threads |->
              IF u = t THEN Done(TRUE)
              ELSE IF calls[u].at = "running"
                   THEN [calls[u] EXCEPT !.may = @ \cup {calls[u].op.key \in set'}]
                   ELSE calls[u]]

Update(t) ==
  /\ calls[t].at = "running"
  /\ LET o == calls[t].op IN
     \/ /\ o.name = "insertIfAbsent"
        /\ o.key \notin set
        /\ set' = set \cup {o.key}
     \/ /\ o.name = "erase"
        /\ o.key \in set
        /\ set' = set \ {o.key}
  /\ Takes(t)

(* contains answers whether the key was there; insertIfAbsent answers      *)
(* FALSE when it was, erase when it was not.                               *)
Answer(t) ==
  /\ calls[t].at = "running"
  /\ LET o == calls[t].op IN
     \E there \in calls[t].may :
       /\ o.name = "insertIfAbsent" => there
       /\ o.name = "erase" => ~ there
       /\ calls' = [calls EXCEPT ![t] = Returned(o.name = "contains" /\ there)]
  /\ UNCHANGED set

Return(t) ==
  /\ calls[t].at = "done"
  /\ calls' = [calls EXCEPT ![t] = Returned(calls[t].answer)]
  /\ UNCHANGED set

Next == \E t \in Threads : Call(t) \/ Update(t) \/ Answer(t) \/ Return(t)

Spec == Init /\ [][Next]_vars
=============================================================================
