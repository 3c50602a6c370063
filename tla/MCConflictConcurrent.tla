------------------------ MODULE MCConflictConcurrent ------------------------
(***************************************************************************)
(* Small instances of ConflictConcurrent.  The opponent of a submission    *)
(* has an ID number, so that a party hit by it stays hit when its name     *)
(* changes.                                                                *)
(***************************************************************************)
EXTENDS ConflictConcurrent, TLC

MCForms == {"", "WU", "LI", "X1"}

MCSpellings == {"", "wu", "Wu ", "li", "x1"}

MCNorm == ("" :> "") @@ ("wu" :> "WU") @@ ("Wu " :> "WU") @@
          ("li" :> "LI") @@ ("x1" :> "X1")

OneOpponent == {<<"Wu ", "x1">>}

OneIdentity == {<<"wu", "x1">>}

(* A change of name, one back, and a change of contact only. *)
NameAndContact == {<<"li", "">>, <<"wu", "">>, <<"", "">>}

NoUpdate == {}

NameOnly == {<<"li", "">>, <<"wu", "">>}

Symmetry == Permutations(Slots) \cup Permutations(Parties)
=============================================================================
