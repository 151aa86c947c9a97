-------------------------- MODULE MCFederatedRound --------------------------
(***************************************************************************)
(* A small instance of FederatedRound.  Updates are numbered: the first    *)
(* two are device 1's submission and its retry, which has another shape.   *)
(* Device 2's delta is five times as long as the others and opposite.      *)
(* Earlier rounds left a column of three, which adding pairs widens, or    *)
(* weights to which a pair cannot be added.                                *)
(***************************************************************************)
EXTENDS FederatedRound, TLC

MCDevice == <<1, 1, 2, 3>>
MCRound  == <<1, 1, 1, 1>>
MCDelta  == << <<1, 0>>, <<0, 1, 0>>, <<-3, -4>>, <<0, 1>> >>

MCDims   == << <<2>>, <<3>>, <<2>>, <<2>> >>
MCShapes == {<<3, 1>>, <<4>>}

MCSymmetry == Permutations(Aggregators)
=============================================================================
