---------------------------- MODULE TreeScenarios ---------------------------
(***************************************************************************)
(* Instances of the trees for TLC: a tree to start with and what each      *)
(* thread calls. Trees are written as keys with their children.            *)
(***************************************************************************)
EXTENDS Integers, TLC

CONSTANTS t1, t2, t3

Ins(k) == [name |-> "insertIfAbsent", key |-> k]
Del(k) == [name |-> "erase", key |-> k]
Has(k) == [name |-> "contains", key |-> k]

Leaf == <<0, 0>>

(* One call of each of two threads.                                        *)
Races(kids, as, bs) ==
  {[kids |-> kids, calls |-> (t1 :> <<a>>) @@ (t2 :> <<b>>)] : a \in as, b \in bs}

Single4 == 4 :> Leaf
Pair42 == (4 :> <<2, 0>>) @@ (2 :> Leaf)
Pair46 == (4 :> <<0, 6>>) @@ (6 :> Leaf)

(* One step from a rotation: a single one to the left, one to the right,   *)
(* and the two double ones, when the short side loses its leaf.            *)
LeansRight == (4 :> <<2, 6>>) @@ (2 :> Leaf) @@ (6 :> <<0, 8>>) @@ (8 :> Leaf)
LeansLeft == (6 :> <<4, 8>>) @@ (8 :> Leaf) @@ (4 :> <<2, 0>>) @@ (2 :> Leaf)
LeansInRight == (4 :> <<2, 8>>) @@ (2 :> Leaf) @@ (8 :> <<6, 0>>) @@ (6 :> Leaf)
LeansInLeft == (6 :> <<2, 8>>) @@ (8 :> Leaf) @@ (2 :> <<0, 4>>) @@ (4 :> Leaf)
Even == (4 :> <<2, 6>>) @@ (2 :> Leaf) @@ (6 :> Leaf)

(* The node that contains() has reached is removed and allocated again.    *)
Reuse == {[kids |-> Single4, calls |-> (t1 :> <<Has(5)>>) @@ (t2 :> <<Del(4), Ins(5)>>)]}

AVLRaces ==
  Reuse
  \cup Races(Single4, {Del(4), Ins(5)}, {Ins(5), Has(4)})
  \cup Races(Pair46, {Del(4), Del(6)}, {Ins(5), Del(6)})
  \cup Races(LeansRight, {Del(2)}, {Ins(9), Has(6), Del(4)})
  \cup Races(LeansLeft, {Del(8)}, {Del(2)})
  \cup Races(LeansInRight, {Del(2)}, {Del(6), Has(6)})
  \cup Races(LeansInLeft, {Del(8)}, {Del(4)})
  \cup Races(Even, {Ins(7)}, {Del(7)})

(* One insertion from a rotation to the left at 3, where 1 has a child to  *)
(* its right.                                                              *)
Successor ==
  Races((3 :> <<1, 6>>) @@ (1 :> <<0, 2>>) @@ (2 :> Leaf) @@ (6 :> <<5, 8>>)
          @@ (5 :> <<4, 0>>) @@ (4 :> Leaf) @@ (8 :> <<7, 9>>) @@ (7 :> Leaf) @@ (9 :> Leaf),
        {Del(3)}, {Ins(10)})

(* The only key below the one to be inserted is removed.                   *)
StalePredecessor == Races(Single4, {Ins(5)}, {Del(4)})

(* Without balancing there is room for longer histories and more threads.  *)
Deep == (4 :> <<2, 8>>) @@ (2 :> Leaf) @@ (8 :> <<6, 0>>) @@ (6 :> <<0, 7>>) @@ (7 :> Leaf)
Right == (4 :> <<2, 6>>) @@ (2 :> Leaf) @@ (6 :> <<0, 7>>) @@ (7 :> Leaf)
Together(kids, a, b, c) ==
  [kids |-> kids, calls |-> (t1 :> a) @@ (t2 :> b) @@ (t3 :> c)]

(* Nodes are removed and allocated again among guarded operations;         *)
(* contains(), which has no guard in this tree, meets insertions only.     *)
BSTRaces ==
  {Together(Pair46, <<Del(4)>>, <<Ins(5), Del(6)>>, <<>>),
   Together(Pair46, <<Ins(5)>>, <<Del(6)>>, <<Del(4)>>),
   Together(Pair46, <<Del(4), Ins(5)>>, <<Del(6), Ins(6)>>, <<>>),
   Together(Single4, <<Ins(5)>>, <<Ins(7)>>, <<Has(5)>>),
   Together(Pair42, <<Ins(5)>>, <<Ins(5), Del(4)>>, <<>>),
   Together(Deep, <<Del(4)>>, <<Del(8), Ins(5)>>, <<>>),
   Together(Deep, <<Del(4)>>, <<Del(6), Ins(4)>>, <<>>),
   Together(Deep, <<Del(4)>>, <<Ins(6)>>, <<>>),
   Together(Pair46, <<Del(4), Del(6), Ins(5)>>, <<Ins(6)>>, <<>>),
   Together(Right, <<Del(4)>>, <<Ins(5)>>, <<Del(7)>>)}
=============================================================================
