------------------------------- MODULE MCOffice -----------------------------
(* Small instances of the components around cases and conclusions.         *)
EXTENDS Office, TLC

(* One name, typed with and without a space behind it. *)
MCTrim == ("ann" :> "ann") @@ ("ann_" :> "ann")

Symmetry == Permutations(Slots) \cup Permutations(Filters)
=============================================================================
