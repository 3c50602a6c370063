----------------------------- MODULE MCOneAtATime ---------------------------
(***************************************************************************)
(* A small instance of OneAtATime: two opponents hit by one ID number.     *)
(***************************************************************************)
EXTENDS OneAtATime, TLC

MCForms == {"", "WU", "LI", "X1"}

MCSpellings == {"", "wu", "li", "x1"}

MCNorm == ("" :> "") @@ ("wu" :> "WU") @@ ("li" :> "LI") @@ ("x1" :> "X1")

MCOpponents == {<<"wu", "x1">>}

MCIdentities == {<<"wu", "x1">>, <<"li", "x1">>}

MCUpdates == {<<"li", "">>, <<"", "">>}

Symmetry == Permutations(Parties) \cup Permutations(Keys)
=============================================================================
