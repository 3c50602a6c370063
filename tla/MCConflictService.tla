-------------------------- MODULE MCConflictService -------------------------
(***************************************************************************)
(* Small instances of ConflictService.  Inputs are spellings, "Wu " among  *)
(* them, that only their normal form identifies.                           *)
(***************************************************************************)
EXTENDS ConflictService, TLC

MCForms == {"", "WU", "LI", "X1"}

MCSpellings == {"", "wu", "Wu ", "li", "x1"}

MCNorm == ("" :> "") @@ ("wu" :> "WU") @@ ("Wu " :> "WU") @@
          ("li" :> "LI") @@ ("x1" :> "X1")

Symmetry == Permutations(Parties) \cup Permutations(Cases)

SymmetryOfKeys == Symmetry \cup Permutations(Keys)
=============================================================================
