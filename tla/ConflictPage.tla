----------------------------- MODULE ConflictPage ---------------------------
(***************************************************************************)
(* The page of conflict checks in a browser: the form of a new matter, the *)
(* conclusion on display, the queue, and the requests under way.           *)
(*                                                                         *)
(* Handlers run one at a time but wait for answers, which come in any      *)
(* order or not at all, and put what they get on the page whatever it has  *)
(* turned to.  A handler sees the page and the filter as they were when it *)
(* was set off; the effect that reloads the queue sees them as they are.   *)
(* Keys are numbers, those of the queue and those the page draws or the    *)
(* user types, 0 for none: a drawn key may be any but the one in the form, *)
(* for nothing here rests on its being new.  The look-up's fields are not  *)
(* kept: nothing else reads them, and whatever the page has put there can  *)
(* be typed over before the next look-up.  A form without a key is refused *)
(* by the server and fails as any other request.                           *)
(***************************************************************************)
EXTENDS Naturals

CONSTANTS Pages,    \* pages of the queue with their size, 1 the first
          Filters,  \* statuses the queue can be filtered by
          MaxAsked, \* bound: requests sent before all are answered
          MaxKey    \* bound: keys

PageAssumption ==
  1 \in Pages /\ MaxAsked \in Nat /\ MaxKey \in Nat \ {0}

VARIABLES caseKey,    \* the key in the form
          result,     \* the conclusion on display, by its key; 0 for none
          page, statusFilter,  \* what the queue is turned to
          list,       \* page and filter of the answer the queue shows;
                      \*   none once an error has been reported since
          review,     \* the conclusion in the dialog of review, 0 for none
          net,        \* requests sent and not answered
          asked,      \* requests sent since none was under way
          expected,   \* history: keys of which the user may see the
                      \*   conclusion: the last one asked about, those
                      \*   pending then, those left there by an error
          overtaken   \* history: whether an answer to do with an earlier
                      \*   selection may be put on the page after a later one

vars == <<caseKey, result, page, statusFilter, list, review, net, asked,
          expected, overtaken>>

queue == <<page, statusFilter, list, overtaken>>

Keys == 1..MaxKey

Selection == [page : Pages, filter : Filters]

Here == [page |-> page, filter |-> statusFilter]

FirstPage == [Here EXCEPT !.page = 1]

(* at: the selection the sender's handler sees. *)
Request(kind, key, at, n) == [id |-> n, kind |-> kind, key |-> key, at |-> at]

Requests ==
  [id : 1..MaxAsked, kind : {"list", "submit", "lookup", "get", "decide"},
   key : 0..MaxKey, at : Selection]

Sends(requests, count, rest) ==
  /\ asked + count <= MaxAsked
  /\ asked' = asked + count
  /\ net' = rest \cup requests

(* A request that nothing follows. *)
Ends(a) ==
  /\ net' = net \ {a}
  /\ asked' = IF net = {a} THEN 0 ELSE asked

(* What the queue asks for when it is turned to a selection. *)
ListOf(at, n) == Request("list", 0, at, n)

(* Requests whose answers are about a conclusion. *)
Handlers == {a \in net : a.kind # "list"}

(* Requests whose handlers go on to ask for the queue. *)
Reloaders == {a \in net : a.kind \in {"submit", "decide", "get"}}

(* The user asks about a key, or with 0 leaves a matter for another. *)
Asks(key) == expected' = {key} \cup {a.key : a \in Handlers}

(* An error is reported, and what was on display stays there. *)
Reports == expected' = expected \cup {result} /\ UNCHANGED result

Init ==
  /\ caseKey = 1
  /\ result = 0 /\ review = 0
  /\ page = 1
  /\ statusFilter \in Filters
  /\ list = {Here}
  /\ net = {} /\ asked = 0
  /\ expected = {0}
  /\ overtaken = FALSE

-----------------------------------------------------------------------------
TypeCaseKey(key) ==
  /\ caseKey' = key
  /\ UNCHANGED <<result, review, net, asked, queue, expected>>

OnSubmit ==
  /\ Asks(caseKey)
  /\ Sends({Request("submit", caseKey, Here, asked + 1)}, 1, net)
  /\ UNCHANGED <<caseKey, result, review, queue>>

(* Wrong on purpose: the effect comes before the rest of the handler. *)
QueueReloadsEffectFirst(a) ==
  IF page = 1
  THEN Sends({ListOf(a.at, asked + 1)}, 1, net \ {a})
  ELSE Sends({ListOf(FirstPage, asked + 1),
              ListOf(a.at, asked + 2)}, 2, net \ {a})

(* The handler goes on: it turns to the first page, which the effect loads *)
(* if it was not there, after it has asked for the page it was set off on. *)
QueueReloads(a) ==
  IF page = 1
  THEN Sends({ListOf(a.at, asked + 1)}, 1, net \ {a})
  ELSE Sends({ListOf(a.at, asked + 1),
              ListOf(FirstPage, asked + 2)}, 2, net \ {a})

SubmitAnswered(a) ==
  /\ a.kind = "submit"
  /\ result' = a.key
  /\ page' = 1
  /\ overtaken' = (overtaken \/ \E b \in Reloaders \ {a} : b.at # FirstPage)
  /\ QueueReloads(a)
  /\ UNCHANGED <<caseKey, statusFilter, list, review, expected>>

StartAnotherCase(next) ==
  /\ next # caseKey
  /\ caseKey' = next
  /\ result' = 0
  /\ Asks(0)
  /\ UNCHANGED <<review, net, asked, queue>>

-----------------------------------------------------------------------------
(* The key in the field or, with none there, that of the latest conclusion *)
(* about the opponent who is named.                                        *)
OnLookup(key) ==
  /\ Asks(key)
  /\ Sends({Request("lookup", key, Here, asked + 1)}, 1, net)
  /\ UNCHANGED <<caseKey, result, review, queue>>

LookupAnswered(a) ==
  /\ a.kind = "lookup"
  /\ result' = a.key
  /\ Ends(a)
  /\ UNCHANGED <<caseKey, review, queue, expected>>

(* The conclusion of a row of the queue. *)
ShowRow(key) ==
  /\ result' = key
  /\ Asks(key)
  /\ UNCHANGED <<caseKey, review, net, asked, queue>>

-----------------------------------------------------------------------------
Turn(at) ==
  /\ at # Here
  /\ page' = at.page /\ statusFilter' = at.filter
  /\ overtaken' = (\E b \in Reloaders : b.at # at)
  /\ Sends({ListOf(at, asked + 1)}, 1, net)
  /\ UNCHANGED <<caseKey, result, list, review, expected>>

(* A change of the filter turns to the first page. *)
TurnPage(p) == Turn([Here EXCEPT !.page = p])

TurnFilter(f) == Turn([page |-> 1, filter |-> f])

(* The answer to a request for the queue, or its failure, while an earlier *)
(* one is still to be answered.                                            *)
Overtakes(a) == \E b \in net : b.kind = "list" /\ b.id < a.id

ListAnswered(a) ==
  /\ a.kind = "list"
  /\ list' = {a.at}
  /\ overtaken' = (overtaken \/ Overtakes(a))
  /\ Ends(a)
  /\ UNCHANGED <<caseKey, result, page, statusFilter, review, expected>>

ListFails(a) ==
  /\ a.kind = "list"
  /\ list' = {}
  /\ overtaken' = (overtaken \/ Overtakes(a))
  /\ Ends(a)
  /\ UNCHANGED <<caseKey, result, page, statusFilter, review, expected>>

-----------------------------------------------------------------------------
OpenReview(key) ==
  /\ review = 0
  /\ review' = key
  /\ UNCHANGED <<caseKey, result, net, asked, queue, expected>>

CancelReview ==
  /\ review # 0
  /\ review' = 0
  /\ UNCHANGED <<caseKey, result, net, asked, queue, expected>>

(* The dialog stays open until the decision is answered. *)
OnConfirmReview ==
  /\ review # 0
  /\ Asks(review)
  /\ Sends({Request("decide", review, Here, asked + 1)}, 1, net)
  /\ UNCHANGED <<caseKey, result, review, queue>>

(* Wrong on purpose: the conclusion refreshed is the dialog's by now. *)
DecisionRefreshesDialog(a) ==
  /\ a.kind = "decide"
  /\ review' = 0
  /\ Sends({Request("get", review, a.at, asked + 1)}, 1, net \ {a})
  /\ UNCHANGED <<caseKey, result, queue, expected>>

(* Whatever dialog is open by now is closed; the conclusion that was       *)
(* decided is refreshed.                                                   *)
DecisionAnswered(a) ==
  /\ a.kind = "decide"
  /\ review' = 0
  /\ Sends({Request("get", a.key, a.at, asked + 1)}, 1, net \ {a})
  /\ UNCHANGED <<caseKey, result, queue, expected>>

(* Whatever comes of the refresh, the queue is asked for. *)
RefreshEnds(a) ==
  /\ a.kind = "get"
  /\ \/ result' = a.key /\ UNCHANGED expected
     \/ Reports
  /\ Sends({ListOf(a.at, asked + 1)}, 1, net \ {a})
  /\ UNCHANGED <<caseKey, review, queue>>

(* An error or no answer within the timeout: the interceptor reports it,   *)
(* and the handler ends there.                                             *)
RequestFails(a) ==
  /\ a.kind \in {"submit", "lookup", "decide"}
  /\ Reports
  /\ Ends(a)
  /\ UNCHANGED <<caseKey, review, queue>>

Next ==
  \/ OnSubmit
  \/ \E key \in Keys : \/ TypeCaseKey(key) \/ StartAnotherCase(key)
                       \/ OnLookup(key) \/ ShowRow(key) \/ OpenReview(key)
  \/ \E p \in Pages : TurnPage(p)
  \/ \E f \in Filters : TurnFilter(f)
  \/ CancelReview \/ OnConfirmReview
  \/ \E a \in net :
       \/ SubmitAnswered(a) \/ LookupAnswered(a)
       \/ ListAnswered(a) \/ ListFails(a)
       \/ DecisionAnswered(a) \/ RefreshEnds(a) \/ RequestFails(a)

Spec == Init /\ [][Next]_vars

-----------------------------------------------------------------------------
(* What is on the page and under way has its type (ConflictChecks.tsx, the *)
(* states of the component; pages are counted from 1).                     *)
TypeOK ==
  /\ caseKey \in Keys
  /\ {result, review} \cup expected \subseteq 0..MaxKey
  /\ overtaken \in BOOLEAN
  /\ Here \in Selection
  /\ list \subseteq Selection
  /\ net \subseteq Requests /\ asked \in 0..MaxAsked

(* Once the handlers are done, the conclusion on display is the one last   *)
(* asked for, or one that was still pending then, or was left there by an  *)
(* error that has been reported, whatever is typed into the form or done   *)
(* with the dialog before the answers come (ConflictChecks.tsx, onSubmit,  *)
(* onLookup, startAnotherCase and onConfirmReview, which know their matter *)
(* from when they were set off).                                           *)
DisplayIsExpected == Handlers = {} => result \in expected

(* When answers come in the order of the requests, and the queue is not    *)
(* turned while a handler is to reload it, then it shows in the end the    *)
(* page and the status it is turned to, or an error, even after a          *)
(* submission has asked for two pages at once (ConflictChecks.tsx,         *)
(* onSubmit, fetchList and the effect).                                    *)
QueueFollowsInOrder ==
  ~overtaken /\ net = {} => list \subseteq {Here}

-----------------------------------------------------------------------------
(***************************************************************************)
(* What the page says of itself and late answers break.                    *)
(***************************************************************************)

(* A submission is answered into the form of its matter, each new matter   *)
(* being independent of the last (ConflictChecks.tsx, the comment of       *)
(* startAnotherCase).                                                      *)
AnswersAreOfTheForm ==
  [][\A a \in net : SubmitAnswered(a) => a.key = caseKey]_vars

(* Once everything is answered, the queue shows the page and the status it *)
(* is turned to, or an error (README.md: the list is filtered by status).  *)
QueueShowsItsSelection == net = {} => list \subseteq {Here}
=============================================================================
