--------------------------- MODULE KCASScenarios ----------------------------
(***************************************************************************)
(* Instances of KCAS for TLC: who asks for what.                           *)
(***************************************************************************)
EXTENDS TLC

CONSTANTS p, q, r

E(a, o, n) == [addr |-> a, old |-> o, new |-> n]

(* Sequence number 1 is that of a descriptor nobody has used yet: the      *)
(* first request is built under 2 and published under 3, the second built  *)
(* under 4. A caller that starts over builds under 3, where there is       *)
(* nothing to add, and goes on to 4.                                       *)

(* Word 1 is the version of word 2. The second request of p reuses its     *)
(* descriptor while q still helps the first; q competes for both words     *)
(* with a request that can succeed, fail or only compare.                  *)
VersionOfBoth == <<1, 1>>
ReuseEntries ==
  p :> << {}, {E(1, 0, 1), E(2, 0, 1)}, {}, {E(1, 1, 2), E(2, 1, 0)} >>
  @@ q :> << {}, {E(1, 0, 0), E(1, 0, 1), E(2, 0, 1), E(2, 0, 0)} >>
ReuseReads == p :> {1} @@ q :> {1, 2}
FewReads == p :> {} @@ q :> {1}

(* The same without the requests of q that only compare.                   *)
RaceEntries ==
  p :> << {}, {E(1, 0, 1), E(2, 0, 1)}, {}, {E(1, 1, 2), E(2, 1, 0)} >>
  @@ q :> << {}, {E(1, 0, 1), E(2, 0, 1)} >>

(* The same with a second request of p for the version alone.              *)
ProgressEntries ==
  p :> << {}, {E(1, 0, 1), E(2, 0, 1)}, {}, {E(1, 1, 2)} >>
  @@ q :> << {}, {E(1, 0, 1), E(2, 0, 1)} >>

(* Three threads on three words, of which 1 and 3 are versions: p and q    *)
(* overlap in word 1, q and r in word 3.                                   *)
TwoVersions == <<1, 1, 3>>
ChainEntries ==
  p :> << {}, {E(1, 0, 1), E(2, 0, 1)} >>
  @@ q :> << {}, {E(1, 0, 1), E(3, 0, 1)} >>
  @@ r :> << {}, {E(3, 0, 1)} >>
ChainReads == p :> {} @@ q :> {} @@ r :> {2}

(* No versions: q puts word 2 back to the value that the first request of  *)
(* p expects, and p goes on to reuse its descriptor.                       *)
NoVersions == <<1, 2>>
RecurringEntries ==
  p :> << {}, {E(1, 0, 1), E(2, 0, 1)}, {}, {E(1, 0, 1)} >>
  @@ q :> << {}, {E(2, 1, 0)} >>
RecurringReads == p :> {} @@ q :> {1, 2}
=============================================================================
