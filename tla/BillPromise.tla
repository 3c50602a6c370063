----------------------------- MODULE BillPromise ----------------------------
(***************************************************************************)
(* What the office can rely on for a bill, whatever the order in which     *)
(* requests about it are handled: its terms stay, it is never pending      *)
(* again once it has been marked, and an invoice is only written for a     *)
(* bill that has been paid at some time.                                   *)
(***************************************************************************)
CONSTANTS Bills,  \* bills ever issued
          Terms   \* what a bill is about: case, client, type and amount

VARIABLES ledger,  \* Bills -> status and terms
          settled  \* bills that have been paid at some time

Unissued == [status |-> "absent", terms |-> "none"]

Init ==
  /\ ledger = [b \in Bills |-> Unissued]
  /\ settled = {}

Issue(b, t) ==
  /\ ledger[b] = Unissued
  /\ ledger' = [ledger EXCEPT ![b] = [status |-> "pending", terms |-> t]]
  /\ UNCHANGED settled

Mark(b, status) ==
  /\ ledger[b].status # "absent"
  /\ ledger' = [ledger EXCEPT ![b].status = status]

Settle(b) ==
  /\ Mark(b, "paid")
  /\ settled' = settled \cup {b}

Invoice(b) ==
  /\ b \in settled
  /\ Mark(b, "invoiced")
  /\ UNCHANGED settled

Cancel(b) ==
  /\ Mark(b, "void")
  /\ UNCHANGED settled

Next ==
  \E b \in Bills : \/ \E t \in Terms : Issue(b, t)
                   \/ Settle(b)
                   \/ Invoice(b)
                   \/ Cancel(b)

Spec == Init /\ [][Next]_<<ledger, settled>>
=============================================================================
