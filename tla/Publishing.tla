----------------------------- MODULE Publishing -----------------------------
(***************************************************************************)
(* internal/report and internal/lifecycle over the delivery queue: the     *)
(* terminal report of an incident and its paired lifecycle event, each     *)
(* stored together with the queue item that will send it.                  *)
(*                                                                         *)
(* Several calls of PublishTerminal run at once, through publishers that   *)
(* have their own mutexes and share the store and the queue.  A store      *)
(* transaction is one step.  The dispatcher, module Delivery in detail, is *)
(* here the step that settles a queue item.                                *)
(***************************************************************************)
EXTENDS Naturals, FiniteSets

CONSTANTS
  Calls,          \* goroutines that call PublishTerminal
  Publishers,     \* report publishers, each with a lifecycle publisher
  Requests,       \* inputs: [id, occurred, analysis, unavailable, refs, cited, safe]
  TTL,            \* DeliveryTTL
  MaxQueueItems,  \* of the dispatcher
  MaxRefs,        \* evidence references of a report (64 in the code)
  MaxTime         \* bound on the clock

\* What the constants have to satisfy.
PublishingAssumption ==
  /\ "none" \notin Calls
  /\ {TTL, MaxQueueItems, MaxRefs, MaxTime} \subseteq Nat
  /\ \A r \in Requests :
       /\ r.occurred \in Nat
       /\ {r.analysis, r.unavailable, r.safe} \subseteq BOOLEAN
       /\ IsFiniteSet(r.refs \cup r.cited)

VARIABLES
  reports,   \* BucketIncidentReports
  events,    \* BucketLifecycleEvents
  queue,     \* BucketDeliveryQueue
  now,       \* the clock
  calls,     \* [Calls -> the PublishTerminal in flight, or its answer]
  mu,        \* [Publishers -> holder of report.Publisher.mu]
  lifecycle  \* [Publishers -> holder of lifecycle.Publisher.mu]

vars == <<reports, events, queue, now, calls, mu, lifecycle>>
stored == <<reports, events, queue>>

\* The identity of a request (terminal state, incident and idempotency key)
\* gives StableReportID and StableEventID.
IDs == {r.id : r \in Requests}

References == UNION {r.refs \cup r.cited : r \in Requests}

Report == [id : IDs, analysis : BOOLEAN, refs : SUBSET References]

Event == [id : IDs, at : Nat, refs : SUBSET References]

Item == [number : Nat, type : {"report", "event"}, ref : IDs,
         state : {"pending", "settled", "unloadable"}]

Labels == {"idle", "lock", "enqueue", "publish", "event", "done"}

Answers == {"none", "ok", "duplicate", "refused", "failed"}

Idle == [pc |-> "idle"]

Call == [pc : Labels \ {"idle"}, by : Publishers, request : Requests, at : Nat,
         duplicate : BOOLEAN, answer : Answers]

Init ==
  /\ reports = {}
  /\ events = {}
  /\ queue = {}
  /\ now = 1
  /\ calls = [c \in Calls |-> Idle]
  /\ mu = [p \in Publishers |-> "none"]
  /\ lifecycle = [p \in Publishers |-> "none"]

At(c, label) == calls[c].pc = label

Goto(c, label) == calls' = [calls EXCEPT ![c].pc = label]

Released(locks, c) == [p \in Publishers |-> IF locks[p] = c THEN "none" ELSE locks[p]]

\* Mutant: the unlocks are not deferred.
ReturnKeepsLock(c, answer) ==
  /\ calls' = [calls EXCEPT ![c].pc = "done", ![c].answer = answer]
  /\ IF answer = "refused" THEN UNCHANGED <<mu, lifecycle>>
     ELSE mu' = Released(mu, c) /\ lifecycle' = Released(lifecycle, c)

\* The call returns, and its deferred unlocks run.
Return(c, answer) ==
  /\ calls' = [calls EXCEPT ![c].pc = "done", ![c].answer = answer]
  /\ mu' = Released(mu, c)
  /\ lifecycle' = Released(lifecycle, c)

-----------------------------------------------------------------------------
(* Composing                                                               *)

\* composeHypotheses: the references of the input and those the analysis cites.
EvidenceRefs(r) == IF r.analysis THEN r.refs \cup r.cited ELSE r.refs

ReportOf(r) == [id |-> r.id, analysis |-> r.analysis, refs |-> EvidenceRefs(r)]

EventOf(r, at) == [id |-> r.id, at |-> at, refs |-> EvidenceRefs(r)]

\* compose accepts an analysis or the word that there is none, a bounded number
\* of references, and only safe identifiers, actions and texts.
Composable(r) ==
  /\ r.safe
  /\ r.analysis # r.unavailable
  /\ Cardinality(EvidenceRefs(r)) <= MaxRefs

PublishTerminal(c, p, r) ==
  /\ calls[c].pc \in {"idle", "done"}
  /\ calls' = [calls EXCEPT ![c] =
       [pc |-> IF Composable(r) THEN "lock" ELSE "done", by |-> p, request |-> r,
        at |-> IF r.occurred = 0 THEN now ELSE r.occurred, duplicate |-> FALSE,
        answer |-> IF Composable(r) THEN "none" ELSE "refused"]]
  /\ UNCHANGED <<stored, mu, lifecycle, now>>

-----------------------------------------------------------------------------
(* The queue                                                               *)

Pending == {i \in queue : i.state = "pending"}

Accepts(expires) == now < expires /\ Cardinality(Pending) < MaxQueueItems

NewItem(type, ref) ==
  [number |-> Cardinality(queue) + 1, type |-> type, ref |-> ref, state |-> "pending"]

Expires(c) == calls[c].at + TTL

\* Source.Load of either package: the payload an item refers to.
Payloads(item) ==
  IF item.type = "report" THEN {r \in reports : r.id = item.ref}
  ELSE {e \in events : e.id = item.ref}

\* Dispatcher.deliverOne, with its retries as one step (module Delivery has them
\* apart): an item whose payload cannot be loaded fails, any other one is delivered
\* or fails at its endpoint.
Settle(item) ==
  /\ item \in Pending
  /\ queue' = (queue \ {item}) \cup
       {[item EXCEPT !.state = IF Payloads(item) = {} THEN "unloadable" ELSE "settled"]}
  /\ UNCHANGED <<reports, events, calls, mu, lifecycle, now>>

-----------------------------------------------------------------------------
(* The report                                                              *)

Lock(c) ==
  LET p == calls[c].by
      report == ReportOf(calls[c].request)
      existing == {r \in reports : r.id = report.id}
  IN  /\ At(c, "lock")
      /\ mu[p] = "none"
      /\ IF existing # {} /\ existing # {report}
         THEN Return(c, "refused")
         ELSE /\ calls' = [calls EXCEPT
                   ![c].pc = IF existing = {} THEN "enqueue" ELSE "publish",
                   ![c].duplicate = existing # {}]
              /\ mu' = [mu EXCEPT ![p] = c]
              /\ UNCHANGED lifecycle
      /\ UNCHANGED <<stored, now>>

\* Mutant: the transaction does not look whether the report is there.
EnqueueUnchecked(c) ==
  LET report == ReportOf(calls[c].request)
  IN  /\ At(c, "enqueue")
      /\ Accepts(Expires(c))
      /\ reports' = reports \cup {report}
      /\ queue' = queue \cup {NewItem("report", report.id)}
      /\ Goto(c, "publish")
      /\ UNCHANGED <<events, mu, lifecycle, now>>

\* Mutant: a report that cannot be queued is skipped.
EnqueueSkips(c) ==
  LET report == ReportOf(calls[c].request)
      existing == {r \in reports : r.id = report.id}
  IN  /\ At(c, "enqueue")
      /\ IF Accepts(Expires(c)) /\ existing = {}
         THEN /\ reports' = reports \cup {report}
              /\ queue' = queue \cup {NewItem("report", report.id)}
         ELSE UNCHANGED <<reports, queue>>
      /\ Goto(c, "publish")
      /\ UNCHANGED <<events, mu, lifecycle, now>>

\* EnqueueWithMutation of the report; a report that another publisher stored in
\* the meantime is read again.
Enqueue(c) ==
  LET report == ReportOf(calls[c].request)
      existing == {r \in reports : r.id = report.id}
  IN  /\ At(c, "enqueue")
      /\ IF now < Expires(c) /\ existing = {report}
         THEN /\ calls' = [calls EXCEPT ![c].pc = "publish", ![c].duplicate = TRUE]
              /\ UNCHANGED <<stored, mu, lifecycle>>
         ELSE IF Accepts(Expires(c)) /\ existing = {}
         THEN /\ reports' = reports \cup {report}
              /\ queue' = queue \cup {NewItem("report", report.id)}
              /\ Goto(c, "publish")
              /\ UNCHANGED <<events, mu, lifecycle>>
         ELSE /\ Return(c, IF now < Expires(c) /\ existing = {} THEN "failed" ELSE "refused")
              /\ UNCHANGED stored
      /\ UNCHANGED now

-----------------------------------------------------------------------------
(* lifecycle.Publisher.Publish                                             *)

\* The answer of PublishTerminal once its event is there.
Answer(c, duplicate) == IF calls[c].duplicate /\ duplicate THEN "duplicate" ELSE "ok"

\* Mutant: any event with the identity counts as a repeat of this one.
PublishAnyRepeat(c) ==
  LET p == calls[c].by
      existing == {e \in events : e.id = calls[c].request.id}
  IN  /\ At(c, "publish")
      /\ lifecycle[p] = "none"
      /\ IF existing = {}
         THEN /\ Goto(c, "event")
              /\ lifecycle' = [lifecycle EXCEPT ![p] = c]
              /\ UNCHANGED mu
         ELSE Return(c, Answer(c, TRUE))
      /\ UNCHANGED <<stored, now>>

\* Mutant: both publishers use one mutex.
PublishRelocks(c) ==
  /\ At(c, "publish")
  /\ mu[calls[c].by] = "none"
  /\ Goto(c, "event")
  /\ UNCHANGED <<stored, mu, lifecycle, now>>

Publish(c) ==
  LET p == calls[c].by
      event == EventOf(calls[c].request, calls[c].at)
      existing == {e \in events : e.id = event.id}
  IN  /\ At(c, "publish")
      /\ lifecycle[p] = "none"
      /\ IF existing = {}
         THEN /\ Goto(c, "event")
              /\ lifecycle' = [lifecycle EXCEPT ![p] = c]
              /\ UNCHANGED mu
         ELSE Return(c, IF existing = {event} THEN Answer(c, TRUE) ELSE "refused")
      /\ UNCHANGED <<stored, now>>

\* EnqueueWithMutation of the event.
PublishEvent(c) ==
  LET event == EventOf(calls[c].request, calls[c].at)
      existing == {e \in events : e.id = event.id}
  IN  /\ At(c, "event")
      /\ IF Accepts(Expires(c)) /\ existing = {}
         THEN /\ events' = events \cup {event}
              /\ queue' = queue \cup {NewItem("event", event.id)}
              /\ Return(c, Answer(c, FALSE))
              /\ UNCHANGED reports
         ELSE /\ Return(c, CASE now < Expires(c) /\ existing = {event} -> Answer(c, TRUE)
                             [] now < Expires(c) /\ existing = {} -> "failed"
                             [] OTHER -> "refused")
              /\ UNCHANGED stored
      /\ UNCHANGED now

-----------------------------------------------------------------------------
(* The environment                                                         *)

\* A store transaction fails, or the context is cancelled before Publish.
Fail(c) ==
  /\ calls[c].pc \notin {"idle", "done"}
  /\ At(c, "lock") => mu[calls[c].by] = "none"
  /\ At(c, "publish") => lifecycle[calls[c].by] = "none"
  /\ Return(c, "failed")
  /\ UNCHANGED <<stored, now>>

\* A stop of the process loses the calls and keeps the store.
Stop ==
  /\ calls' = [c \in Calls |-> Idle]
  /\ mu' = [p \in Publishers |-> "none"]
  /\ lifecycle' = [p \in Publishers |-> "none"]
  /\ UNCHANGED <<stored, now>>

Tick ==
  /\ now < MaxTime
  /\ now' = now + 1
  /\ UNCHANGED <<stored, calls, mu, lifecycle>>

Step(c) == Lock(c) \/ Enqueue(c) \/ Publish(c) \/ PublishEvent(c)

Next ==
  \/ \E c \in Calls : Step(c) \/ Fail(c)
  \/ \E c \in Calls, p \in Publishers, r \in Requests : PublishTerminal(c, p, r)
  \/ \E item \in queue : Settle(item)
  \/ Stop \/ Tick

Spec == Init /\ [][Next]_vars

-----------------------------------------------------------------------------
(* Properties                                                              *)

\* Type invariant; and a mutex is held exactly by a call that is inside it.
TypeOK ==
  /\ reports \subseteq Report
  /\ events \subseteq Event
  /\ queue \subseteq Item
  /\ now \in 1..MaxTime
  /\ calls \in [Calls -> Call \cup {Idle}]
  /\ \A p \in Publishers, c \in Calls :
       /\ (mu[p] = c) = (calls[c].pc \in {"enqueue", "publish", "event"} /\ calls[c].by = p)
       /\ (lifecycle[p] = c) = (At(c, "event") /\ calls[c].by = p)

\* "persists each distinct lifecycle event and its queue item in one local
\* transaction", and reports alike: whatever calls race, fail or stop, each
\* payload has one queue item, and each item one payload that Load finds.
OneItemPerPayload ==
  /\ \A item \in queue : Cardinality(Payloads(item)) = 1
  /\ \A r \in reports : Cardinality({i \in queue : i.type = "report" /\ i.ref = r.id}) = 1
  /\ \A e \in events : Cardinality({i \in queue : i.type = "event" /\ i.ref = e.id}) = 1

\* "PublishTerminal persists a report before publishing its paired terminal
\* lifecycle event": no terminal event stands without the report that it
\* announces, and both name the same evidence.
ReportBeforeEvent ==
  \A e \in events : \E r \in reports : r.id = e.id /\ r.refs = e.refs

\* A PublishTerminal that succeeds left both the report and the event that its
\* input composes to in the store, even when another call or an earlier life of
\* the process stored them.
SuccessMeansPair ==
  \A c \in Calls : At(c, "done") /\ calls[c].answer \in {"ok", "duplicate"} =>
    /\ ReportOf(calls[c].request) \in reports
    /\ EventOf(calls[c].request, calls[c].at) \in events

\* Every PublishTerminal returns: the two mutexes are always taken in one order
\* and released on every path.
CallReturns == \A c \in Calls : calls[c].pc \notin {"idle", "done"} ~> calls[c].pc \in {"idle", "done"}
=============================================================================
