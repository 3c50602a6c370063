------------------------------- MODULE Paging -------------------------------
(***************************************************************************)
(* The paged lists: cases, clients, bills, documents, users, audit log and *)
(* conflict checks.  Each is answered by two statements, a COUNT and a     *)
(* SELECT with ORDER BY, OFFSET and LIMIT, and read page after page by     *)
(* someone while rows come and go.                                         *)
(*                                                                         *)
(* A row is its place in the order of the list (its id; of a document the  *)
(* upload time, no two of which are taken to be the same microsecond).     *)
(* Filters are stood for by the rows that pass them: a change of a row may *)
(* make it enter the list or leave it.                                     *)
(***************************************************************************)
EXTENDS Integers, FiniteSets

CONSTANTS MaxRows,  \* bound: rows ever inserted
          Sizes     \* page sizes requests ask for, whatever numbers

PagingAssumption ==
  /\ MaxRows \in Nat
  /\ Sizes \subseteq Int

VARIABLES last,   \* rows inserted so far: 1..last
          shown,  \* those that are in the table and pass the filter
          reader  \* someone who reads the list page after page

vars == <<last, shown, reader>>

(***************************************************************************)
(* pc: "count" and "find", the statements of the page asked for; "ended"   *)
(* once a page was not full.  total: the last COUNT.  seen: rows on the     *)
(* pages so far.  start, left (history): rows shown when the reading       *)
(* began, whether any has left since.  newest: the newest row comes first; *)
(* the list of users begins with the oldest.                               *)
(***************************************************************************)
NotReading ==
  [pc |-> "idle", page |-> 0, size |-> 0, total |-> 0, seen |-> {},
   start |-> {}, left |-> FALSE, newest |-> TRUE]

Readers ==
  [pc : {"idle", "count", "find", "ended"}, page : Nat, size : Nat, total : Nat,
   seen : SUBSET Nat, start : SUBSET Nat, left : BOOLEAN, newest : BOOLEAN]

(* PageQuery.Normalize.  What binding says of the numbers was not asked.   *)
Normalized(n, default) == IF n <= 0 THEN default ELSE n

Precedes(a, b) == IF reader.newest THEN a > b ELSE a < b

(* The place of a row in the order of the list, from 0 on. *)
Position(row) == Cardinality({other \in shown : Precedes(other, row)})

(* Wrong on purpose: pages counted from 0. *)
OffsetFromZero(page, size) == page * size

Offset(page, size) == (page - 1) * size

(* LIMIT rows of the order from the OFFSET on. *)
PageRows(page, size) ==
  {row \in shown : /\ Position(row) >= Offset(page, size)
                   /\ Position(row) < Offset(page, size) + size}

Init ==
  /\ last = 0
  /\ shown = {}
  /\ reader = NotReading

StartReading(page, size, newest) ==
  /\ reader.pc \in {"idle", "ended"}
  /\ reader' = [NotReading EXCEPT !.pc = "count", !.page = Normalized(page, 1),
                  !.size = Normalized(size, 10), !.start = shown,
                  !.newest = newest]
  /\ UNCHANGED <<last, shown>>

(* Wrong on purpose: rows that do not pass the filter are counted too. *)
CountUnfiltered ==
  /\ reader.pc = "count"
  /\ reader' = [reader EXCEPT !.pc = "find", !.total = last]
  /\ UNCHANGED <<last, shown>>

Count ==
  /\ reader.pc = "count"
  /\ reader' = [reader EXCEPT !.pc = "find", !.total = Cardinality(shown)]
  /\ UNCHANGED <<last, shown>>

(* The page is answered; a full one makes the reader ask for the next. *)
Find ==
  LET rows == PageRows(reader.page, reader.size)
      full == Cardinality(rows) = reader.size
  IN /\ reader.pc = "find"
     /\ reader' = [reader EXCEPT !.seen = @ \cup rows,
                     !.pc = IF full THEN "count" ELSE "ended",
                     !.page = IF full THEN @ + 1 ELSE @]
     /\ UNCHANGED <<last, shown>>

Insert ==
  /\ last < MaxRows
  /\ last' = last + 1
  /\ \/ shown' = shown \cup {last + 1}
     \/ shown' = shown
  /\ UNCHANGED reader

(* A row changes and passes the filter now. *)
Enter(row) ==
  /\ row \in 1..last \ shown
  /\ shown' = shown \cup {row}
  /\ UNCHANGED <<last, reader>>

(* A row is deleted, or changes and no longer passes the filter. *)
Leave(row) ==
  /\ row \in shown
  /\ shown' = shown \ {row}
  /\ reader' = [reader EXCEPT !.left = @ \/ reader.pc \in {"count", "find"}]
  /\ UNCHANGED last

Next ==
  \/ \E page \in {0, 1}, size \in Sizes, newest \in BOOLEAN :
       StartReading(page, size, newest)
  \/ Count
  \/ Find
  \/ Insert
  \/ \E row \in 1..MaxRows : Enter(row) \/ Leave(row)

Spec == Init /\ [][Next]_vars

-----------------------------------------------------------------------------
(* Types: what the statements are run with is a page and a size from 1 on  *)
(* (dto_common.go, PageQuery).                                             *)
TypeOK ==
  /\ last \in 0..MaxRows
  /\ shown \subseteq 1..last
  /\ reader \in Readers
  /\ reader.pc # "idle" => reader.page > 0 /\ reader.size > 0
  /\ reader.seen \subseteq 1..last /\ reader.start \subseteq 1..last
  /\ reader.total \in 0..last

(* Someone who reads on until a page is not full has seen every row that   *)
(* was there when they began, whatever was inserted or entered the list    *)
(* meanwhile, as long as none left it: rows are only pushed to later pages *)
(* (the List methods of the repositories: ORDER BY a key, OFFSET, LIMIT).  *)
NothingMissed ==
  reader.pc = "ended" /\ ~reader.left => reader.start \subseteq reader.seen

(* A page that the total promises, when it is read, has a row on it,       *)
(* though the total was counted before the page was selected and rows were *)
(* inserted in between (the List methods; the pagers of the pages).        *)
PromisedPagesHaveRows ==
  [][reader.pc = "find" /\ reader'.pc # "find" /\ ~reader.left
     /\ (reader.page - 1) * reader.size < reader.total
     => PageRows(reader.page, reader.size) # {}]_vars

-----------------------------------------------------------------------------
(* What the tag of PageQuery says and the handlers do not heed, for they   *)
(* drop the error of binding: no more than 200 rows are asked of the       *)
(* database (dto_common.go, PageSize).                                     *)
PagesAreBounded == reader.size <= 200
=============================================================================
