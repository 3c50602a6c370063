------------------------------ MODULE Documents -----------------------------
(***************************************************************************)
(* Uploaded files and the documents that refer to them, several requests   *)
(* at a time.                                                              *)
(*                                                                         *)
(* A file is stored under the nanosecond of its upload; its address is the *)
(* answer, and a later request registers a document with an address.       *)
(* Deleting a document deletes its row.  The dialog of the page sends the  *)
(* id of the case as the text that was typed.                              *)
(***************************************************************************)
EXTENDS Naturals

CONSTANTS Files,        \* what is uploaded
          Acceptable,   \* files of an allowed type and size
          Instants,     \* nanoseconds at which uploads are stored
          Docs,         \* rows the document table may get
          CaseIds,      \* case ids requests carry, all of them numbers
          OpenedCases,  \* those that have a case
          Slots,        \* requests that can be in flight at once
          Nothing       \* no file, instant, document or case

DocumentsAssumption ==
  /\ Acceptable \subseteq Files
  /\ OpenedCases \subseteq CaseIds
  /\ Nothing \notin Files \cup Instants \cup Docs \cup CaseIds

VARIABLES disk,     \* Instants -> the file stored under that name
          drawn,    \* instants that have gone by
          answers,  \* history: addresses uploads were answered with
          docs,     \* Docs -> row of documents
          meant,    \* history: Docs -> the upload it was registered for
          deleted,  \* history: documents that have been deleted
          req       \* Slots -> the request a slot is busy with

vars == <<disk, drawn, answers, docs, meant, deleted, req>>

NoFile == [file |-> Nothing, whole |-> FALSE]

NoUpload == [url |-> Nothing, file |-> Nothing]

NoDoc == [url |-> Nothing, case |-> Nothing]

(***************************************************************************)
(* pc: create_file, copy (an upload); bind, case, insert (a document);     *)
(* delete.  number: the case id is a number, not the text of one.          *)
(***************************************************************************)
Idle ==
  [pc |-> "idle", file |-> Nothing, url |-> Nothing, case |-> Nothing,
   number |-> TRUE, doc |-> Nothing, outcome |-> "none"]

Requests ==
  [pc : {"idle", "create_file", "copy", "bind", "case", "insert", "delete",
         "done"},
   file : Files \cup {Nothing}, url : Instants \cup {Nothing},
   case : CaseIds \cup {Nothing}, number : BOOLEAN, doc : Docs \cup {Nothing},
   outcome : {"none", "ok", "refused", "bad_request", "not_found", "failed"}]

InFlight(r) == req[r].pc \notin {"idle", "done"}

Answer(r, outcome) ==
  [Idle EXCEPT !.pc = "done", !.outcome = outcome, !.number = req[r].number]

Goto(r, next) == req' = [req EXCEPT ![r] = next]

Init ==
  /\ disk = [n \in Instants |-> NoFile]
  /\ drawn = {}
  /\ answers = {}
  /\ docs = [d \in Docs |-> NoDoc]
  /\ meant = [d \in Docs |-> NoUpload]
  /\ deleted = {}
  /\ req = [r \in Slots |-> Idle]

Begin(r, request) ==
  /\ req[r].pc = "idle"
  /\ Goto(r, request)
  /\ UNCHANGED <<disk, drawn, answers, docs, meant, deleted>>

(* The type and the size are looked at before anything is stored. *)
BeginUpload(r, f) ==
  Begin(r, IF f \in Acceptable
           THEN [Idle EXCEPT !.pc = "create_file", !.file = f]
           ELSE Answer(r, "refused"))

(* The client is the dialog, which registers a document with the address   *)
(* an upload was answered with; the server takes any other as well.        *)
BeginCreate(r, answer, case, number) ==
  Begin(r, [Idle EXCEPT !.pc = "bind", !.file = answer.file, !.case = case,
                        !.url = answer.url, !.number = number])

BeginDelete(r, d) ==
  Begin(r, [Idle EXCEPT !.pc = "delete", !.doc = d])

-----------------------------------------------------------------------------
(* Two uploads are taken not to be stored in the same nanosecond. *)
FreshNames == Instants \ drawn

(* Create truncates what is there under the name. *)
CreateFile(r) ==
  /\ req[r].pc = "create_file"
  /\ \E n \in FreshNames :
       /\ drawn' = drawn \cup {n}
       /\ disk' = [disk EXCEPT ![n] = [file |-> req[r].file, whole |-> FALSE]]
       /\ Goto(r, [req[r] EXCEPT !.pc = "copy", !.url = n])
  /\ UNCHANGED <<answers, docs, meant, deleted>>

(* Wrong on purpose: the answer does not wait for the copy. *)
AnsweredUncopied(r) ==
  LET q == req[r]
  IN /\ q.pc = "copy"
     /\ answers' = answers \cup {[url |-> q.url, file |-> q.file]}
     /\ Goto(r, Answer(r, "ok"))
     /\ UNCHANGED <<disk, drawn, docs, meant, deleted>>

CopyFile(r) ==
  LET q == req[r]
  IN /\ q.pc = "copy"
     /\ disk' = [disk EXCEPT ![q.url] = [file |-> q.file, whole |-> TRUE]]
     /\ answers' = answers \cup {[url |-> q.url, file |-> q.file]}
     /\ Goto(r, Answer(r, "ok"))
     /\ UNCHANGED <<drawn, docs, meant, deleted>>

-----------------------------------------------------------------------------
Reads(r, next) ==
  /\ Goto(r, next)
  /\ UNCHANGED <<disk, drawn, answers, docs, meant, deleted>>

(* The text of a number is not a number to the binding.  A type that there *)
(* is none of is refused here too, with the same answer.                   *)
BindDocument(r) ==
  /\ req[r].pc = "bind"
  /\ Reads(r, IF req[r].number THEN [req[r] EXCEPT !.pc = "case"]
              ELSE Answer(r, "bad_request"))

(* The check of the type before it finds nothing that the binding, which   *)
(* knows the same types, has let through.                                  *)
FindCase(r) ==
  /\ req[r].pc = "case"
  /\ Reads(r, IF req[r].case \in OpenedCases THEN [req[r] EXCEPT !.pc = "insert"]
              ELSE Answer(r, "not_found"))

InsertDocument(r) ==
  LET q == req[r]
  IN /\ q.pc = "insert"
     /\ \E d \in Docs \ deleted :
          /\ docs[d] = NoDoc
          /\ docs' = [docs EXCEPT ![d] = [url |-> q.url, case |-> q.case]]
          /\ meant' = [meant EXCEPT ![d] = [url |-> q.url, file |-> q.file]]
     /\ Goto(r, Answer(r, "ok"))
     /\ UNCHANGED <<disk, drawn, answers, deleted>>

(* DELETE by id: no row is no error; the file stays. *)
DeleteDocument(r) ==
  LET d == req[r].doc
  IN /\ req[r].pc = "delete"
     /\ docs' = [docs EXCEPT ![d] = NoDoc]
     /\ deleted' = IF docs[d] = NoDoc THEN deleted ELSE deleted \cup {d}
     /\ Goto(r, Answer(r, "ok"))
     /\ UNCHANGED <<disk, drawn, answers, meant>>

(* A statement or a step on the disk fails: what was stored so far stays.  *)
StepFails(r) ==
  /\ InFlight(r) /\ req[r].pc # "bind"
  /\ Reads(r, Answer(r, "failed"))

Received(r) ==
  /\ req[r].pc = "done"
  /\ Reads(r, Idle)

Restart ==
  /\ req # [r \in Slots |-> Idle]
  /\ req' = [r \in Slots |-> Idle]
  /\ UNCHANGED <<disk, drawn, answers, docs, meant, deleted>>

ClientStep(r) ==
  \/ \E f \in Files : BeginUpload(r, f)
  \/ \E a \in answers, c \in CaseIds, number \in BOOLEAN :
       BeginCreate(r, a, c, number)
  \/ \E d \in Docs : docs[d] # NoDoc /\ BeginDelete(r, d)
  \/ Received(r)

Step(r) ==
  \/ CreateFile(r)
  \/ CopyFile(r)
  \/ BindDocument(r)
  \/ FindCase(r)
  \/ InsertDocument(r)
  \/ DeleteDocument(r)

Next ==
  \/ \E r \in Slots : ClientStep(r) \/ Step(r) \/ StepFails(r)
  \/ Restart

Spec == Init /\ [][Next]_vars

-----------------------------------------------------------------------------
(* Files, rows and what requests in flight hold of them have their types   *)
(* (model/document.go, file_upload.go).                                    *)
TypeOK ==
  /\ disk \in [Instants -> [file : Files \cup {Nothing}, whole : BOOLEAN]]
  /\ drawn \subseteq Instants
  /\ answers \subseteq [url : Instants, file : Acceptable]
  /\ docs \in [Docs -> [url : Instants, case : OpenedCases] \cup {NoDoc}]
  /\ meant \in [Docs -> [url : Instants, file : Acceptable] \cup {NoUpload}]
  /\ deleted \subseteq Docs
  /\ req \in [Slots -> Requests]

(* Behind the address of a document is the file its registrant uploaded,   *)
(* all of it, though uploads overlap, fail half-way or are cut off by a    *)
(* restart and files are shared by documents that others delete            *)
(* (file_upload.go: one name an upload, the answer after the copy).        *)
DocumentsHaveTheirFiles ==
  \A d \in Docs : docs[d] # NoDoc =>
    disk[docs[d].url] = [file |-> meant[d].file, whole |-> TRUE]

-----------------------------------------------------------------------------
(***************************************************************************)
(* What the documentation says of the program and it does not do.          *)
(***************************************************************************)

(* Documents can be uploaded case by case: a complete form for a case that *)
(* exists is not a bad request (README.md; Documents.tsx sends the case id *)
(* as text, dto_document.go wants a number).                               *)
CompleteFormsAreUnderstood ==
  \A r \in Slots : req[r].outcome # "bad_request"

(* Documents can be deleted: no file is left to fetch at an address that   *)
(* only deleted documents had (README.md; document_service.go, Delete).    *)
DeletedFilesAreGone ==
  \A d \in deleted :
    disk[meant[d].url] = NoFile
      \/ \E e \in Docs \ deleted : docs[e].url = meant[d].url
=============================================================================
