---------------------------- MODULE TIDGenerator ----------------------------
(***************************************************************************)
(* The slots of the k-CAS library (class TIDGenerator): a thread takes one *)
(* when it first touches its thread_local kcas_tid, uses the descriptors   *)
(* of that slot as its own, and gives it back when it exits. deinitThread  *)
(* gives it back earlier, by explicitRelease; the destructor still runs.   *)
(***************************************************************************)
EXTENDS Integers, FiniteSets

CONSTANTS
  Threads,           \* threads; one that exited stands for a later one too
  KCAS_MAX_THREADS,  \* slots
  MaxLive            \* bound: threads alive at a time, no more than slots

ASSUME SlotsAssumption ==
  /\ KCAS_MAX_THREADS \in Nat \ {0}
  /\ MaxLive \in 1..KCAS_MAX_THREADS
  /\ IsFiniteSet(Threads)
  /\ 0 \notin Threads

VARIABLES
  thread_ids,   \* thread_ids[i]: the holder of slot i, or 0
  pc,           \* where each thread is in its life
  i,            \* i[t]: the slot t looks at
  myslot        \* myslot[t]: the slot t has, -1 before

vars == <<thread_ids, pc, i, myslot>>

Slots == 0..(KCAS_MAX_THREADS - 1)
NULL == 0

Alive(t) == pc[t] # "out"
Owns(t) == pc[t] = "in"

-----------------------------------------------------------------------------
Init ==
  /\ thread_ids = [s \in Slots |-> NULL]
  /\ pc = [t \in Threads |-> "out"]
  /\ i = [t \in Threads |-> 0]
  /\ myslot = [t \in Threads |-> -1]

(* Fault: the scan starts at myslot, which is not set yet.                 *)
beginAtMyslot(t) ==
  /\ pc[t] = "out"
  /\ Cardinality({u \in Threads : Alive(u)}) < MaxLive
  /\ pc' = [pc EXCEPT ![t] = "scan"]
  /\ i' = [i EXCEPT ![t] = myslot[t]]
  /\ UNCHANGED <<thread_ids, myslot>>

begin(t) ==
  /\ pc[t] = "out"
  /\ Cardinality({u \in Threads : Alive(u)}) < MaxLive
  /\ pc' = [pc EXCEPT ![t] = "scan"]
  /\ i' = [i EXCEPT ![t] = 0]
  /\ UNCHANGED <<thread_ids, myslot>>

(* while (thread_ids[i]) ++i: the slot after the last is not looked at, a  *)
(* thread that gets there has left the array.                              *)
scan(t) ==
  /\ pc[t] = "scan"
  /\ i[t] \in Slots
  /\ IF thread_ids[i[t]] # NULL
     THEN i' = [i EXCEPT ![t] = @ + 1] /\ UNCHANGED pc
     ELSE pc' = [pc EXCEPT ![t] = "take"] /\ UNCHANGED i
  /\ UNCHANGED <<thread_ids, myslot>>

(* Fault: a plain store instead of the compare-and-swap.                   *)
takeBlindly(t) ==
  /\ pc[t] = "take"
  /\ thread_ids' = [thread_ids EXCEPT ![i[t]] = t]
  /\ myslot' = [myslot EXCEPT ![t] = i[t]]
  /\ pc' = [pc EXCEPT ![t] = "in"]
  /\ UNCHANGED i

take(t) ==
  /\ pc[t] = "take"
  /\ IF thread_ids[i[t]] = NULL
     THEN /\ thread_ids' = [thread_ids EXCEPT ![i[t]] = t]
          /\ myslot' = [myslot EXCEPT ![t] = i[t]]
          /\ pc' = [pc EXCEPT ![t] = "in"]
          /\ UNCHANGED i
     ELSE /\ i' = [i EXCEPT ![t] = 0]
          /\ pc' = [pc EXCEPT ![t] = "scan"]
          /\ UNCHANGED <<thread_ids, myslot>>

explicitRelease(t) ==
  /\ pc[t] = "in"
  /\ thread_ids' = [thread_ids EXCEPT ![myslot[t]] = NULL]
  /\ pc' = [pc EXCEPT ![t] = "released"]
  /\ UNCHANGED <<i, myslot>>

(* Fault: a thread exits with its slot.                                    *)
destroyLeaks(t) ==
  /\ pc[t] \in {"in", "released"}
  /\ pc' = [pc EXCEPT ![t] = "out"]
  /\ myslot' = [myslot EXCEPT ![t] = -1]
  /\ UNCHANGED <<thread_ids, i>>

(* ~TIDGenerator, when the thread exits.                                   *)
destroy(t) ==
  /\ pc[t] \in {"in", "released"}
  /\ thread_ids' = [thread_ids EXCEPT ![myslot[t]] = NULL]
  /\ pc' = [pc EXCEPT ![t] = "out"]
  /\ myslot' = [myslot EXCEPT ![t] = -1]
  /\ UNCHANGED i

Next == \E t \in Threads : begin(t) \/ scan(t) \/ take(t) \/ destroy(t)

(* Threads that only come and go, as in all of this repository, ...        *)
Spec == Init /\ [][Next]_vars

(* ... and threads that may also call deinitThread.                        *)
NextDeinit == Next \/ \E t \in Threads : explicitRelease(t)
SpecDeinit == Init /\ [][NextDeinit]_vars

-----------------------------------------------------------------------------
(* thread_ids, the cursor of each constructor and the slot it ends with    *)
(* have the types and ranges TIDGenerator gives them.                      *)
TypeOK ==
  /\ thread_ids \in [Slots -> Threads \cup {NULL}]
  /\ pc \in [Threads -> {"out", "scan", "take", "in", "released"}]
  /\ i \in [Threads -> 0..KCAS_MAX_THREADS]
  /\ myslot \in [Threads -> Slots \cup {-1}]

(* A slot has at most one user: "only the process invoking this following  *)
(* macro can change the sequence#" of the descriptors that go with it.     *)
SlotExclusive ==
  \A t, u \in Threads : Owns(t) /\ Owns(u) /\ myslot[t] = myslot[u] => t = u

(* With no more threads at a time than slots, no scan leaves the array,    *)
(* whatever slots are taken and given back while it goes on.               *)
NoOverrun ==
  \A t \in Threads : pc[t] = "scan" => i[t] < KCAS_MAX_THREADS
=============================================================================
