------------------------------ MODULE Delivery ------------------------------
(***************************************************************************)
(* internal/delivery: the durable queue of outbound webhooks and the       *)
(* dispatcher that sends what is due.                                      *)
(*                                                                         *)
(* Every bbolt transaction and every HTTP exchange is one step.  DeliverDue *)
(* holds the dispatcher's mutex for a whole pass and reads the clock and   *)
(* the queue once, at its start; enqueue does not take the mutex.  A       *)
(* process stop loses the passes in flight and keeps the queue.            *)
(***************************************************************************)
EXTENDS Naturals, FiniteSets

CONSTANTS
  Proc,            \* goroutines that may call DeliverDue
  Item,            \* delivery IDs, numbered in the order of their store keys
  WebhookID,       \* webhook IDs the generator may return
  Expiries,        \* ExpiresAt values of requests
  MaxQueueItems,   \* Options of the dispatcher
  MaxAttempts,
  InitialBackoff,
  MaxBackoff,
  MaxTime,         \* bound on the clock
  MaxStops         \* bound on stopped passes

ASSUME DeliveryAssumption ==
  /\ Item \subseteq Nat
  /\ "none" \notin WebhookID \cup Proc
  /\ Expiries \subseteq Nat
  /\ MaxQueueItems \in Nat \ {0}
  /\ MaxAttempts \in Nat \ {0}
  /\ InitialBackoff \in Nat \ {0}
  /\ MaxBackoff \in Nat /\ MaxBackoff >= InitialBackoff
  /\ MaxTime \in Nat \ {0}
  /\ MaxStops \in Nat

VARIABLES
  queue,     \* [Item -> DeliveryQueueItem], NoItem when absent
  audited,   \* items with a delivery.failed audit event
  now,       \* the clock
  mu,        \* holder of Dispatcher.mu, or "none"
  pass,      \* [Proc -> the DeliverDue call in flight]
  sent,      \* history: [Item -> requests that were handed to the HTTP client]
  accepted,  \* history: items some request of which the receiver answered 2xx
  stops      \* history: passes that ended early

vars == <<queue, audited, now, mu, pass, sent, accepted, stops>>

DeliveryState == {"none", "pending", "delivered", "failed", "expired"}

QueueItem == [state : DeliveryState, webhook : WebhookID \cup {"none"},
              attempts : Nat, next : Nat, expires : Nat]

NoItem == [state |-> "none", webhook |-> "none", attempts |-> 0, next |-> 0, expires |-> 0]

Pending(q) == {i \in Item : q[i].state = "pending"}

\* A DeliverDue call: the clock and the queue as it read them at its start, and
\* the items it has left.
Label == {"idle", "list", "pick", "send", "mark", "retry", "done"}

IdlePass == [pc |-> "idle", at |-> 0, stored |-> [i \in Item |-> NoItem], todo |-> {}]

Pass == [pc : Label, at : Nat, stored : [Item -> QueueItem], todo : SUBSET Item]

Init ==
  /\ queue = [i \in Item |-> NoItem]
  /\ audited = {}
  /\ now = 1
  /\ mu = "none"
  /\ pass = [p \in Proc |-> IdlePass]
  /\ sent = [i \in Item |-> 0]
  /\ accepted = {}
  /\ stops = 0

history == <<sent, accepted, stops>>

-----------------------------------------------------------------------------
(* Backoff                                                                 *)

\* The delay after the given number of attempts: doubled each time, without
\* exceeding MaxBackoff or the range of a Duration on the way.
backoff[attempt \in Nat] ==
  IF attempt <= 1 THEN InitialBackoff
  ELSE LET previous == backoff[attempt - 1]
       IN  IF previous >= MaxBackoff \/ previous > MaxBackoff \div 2 THEN MaxBackoff
           ELSE previous * 2

-----------------------------------------------------------------------------
(* Enqueue: one transaction, with the clock read at some time t before it. *)

\* Mutant: webhook IDs in use are not looked up.
EnqueueUnchecked(i, w, x) ==
  \E t \in 1 .. now :
    /\ t < x
    /\ Cardinality(Pending(queue)) < MaxQueueItems
    /\ queue[i].state = "none"
    /\ queue' = [queue EXCEPT ![i] =
         [state |-> "pending", webhook |-> w, attempts |-> 0, next |-> t, expires |-> x]]
    /\ UNCHANGED <<audited, now, mu, pass, history>>

Enqueue(i, w, x) ==
  \E t \in 1 .. now :
    /\ t < x
    /\ Cardinality(Pending(queue)) < MaxQueueItems
    /\ queue[i].state = "none"
    /\ \A j \in Item : queue[j].webhook # w
    /\ queue' = [queue EXCEPT ![i] =
         [state |-> "pending", webhook |-> w, attempts |-> 0, next |-> t, expires |-> x]]
    /\ UNCHANGED <<audited, now, mu, pass, history>>

-----------------------------------------------------------------------------
(* DeliverDue                                                              *)

Goto(p, label) == pass' = [pass EXCEPT ![p].pc = label]

\* The call returns and its deferred unlock runs.
Return(p) ==
  /\ pass' = [pass EXCEPT ![p] = IdlePass]
  /\ mu' = "none"

\* The next item of the pass, in key order.
Current(c) == CHOOSE i \in c.todo : \A j \in c.todo : i <= j

\* The pass is through with its current item.
Continue(p) ==
  pass' = [pass EXCEPT ![p].pc = "pick", ![p].todo = @ \ {Current(pass[p])}]

\* Mutant: passes of two goroutines are not serialized.
DeliverDueUnlocked(p) ==
  /\ pass[p].pc = "idle"
  /\ mu' = p
  /\ pass' = [pass EXCEPT ![p] = [IdlePass EXCEPT !.pc = "list", !.at = now]]
  /\ UNCHANGED <<queue, audited, now, history>>

DeliverDue(p) ==
  /\ pass[p].pc = "idle"
  /\ mu = "none"
  /\ mu' = p
  /\ pass' = [pass EXCEPT ![p] = [IdlePass EXCEPT !.pc = "list", !.at = now]]
  /\ UNCHANGED <<queue, audited, now, history>>

PendingItems(p) ==
  /\ pass[p].pc = "list"
  /\ pass' = [pass EXCEPT ![p].pc = "pick", ![p].stored = queue,
                          ![p].todo = Pending(queue)]
  /\ UNCHANGED <<queue, audited, now, mu, history>>

\* markTerminal: the item and its audit event in one transaction.  A repeat
\* changes nothing; an item with another outcome ends the pass (ErrCorruptQueue).
MarkTerminal(p, i, state) ==
  IF queue[i].state = "pending"
  THEN /\ queue' = [queue EXCEPT ![i].state = state]
       /\ audited' = audited \cup {i}
       /\ Continue(p) /\ UNCHANGED mu
  ELSE /\ IF queue[i].state = state THEN Continue(p) /\ UNCHANGED mu ELSE Return(p)
       /\ UNCHANGED <<queue, audited>>

\* Mutant: an expired item is passed over.
ExpireItemSkips(p) ==
  /\ pass[p].pc = "pick" /\ pass[p].todo # {}
  /\ pass[p].at >= pass[p].stored[Current(pass[p])].expires
  /\ Continue(p)
  /\ UNCHANGED <<queue, audited, now, mu, history>>

ExpireItem(p) ==
  /\ pass[p].pc = "pick" /\ pass[p].todo # {}
  /\ LET i == Current(pass[p])
     IN  /\ pass[p].at >= pass[p].stored[i].expires
         /\ MarkTerminal(p, i, "expired")
  /\ UNCHANGED <<now, history>>

\* Mutant: the pass reads the queue again until the item is due.
PickItemWaits(p) ==
  /\ pass[p].pc = "pick" /\ pass[p].todo # {}
  /\ LET item == pass[p].stored[Current(pass[p])]
     IN  /\ pass[p].at < item.expires
         /\ Goto(p, IF pass[p].at < item.next THEN "list" ELSE "send")
  /\ UNCHANGED <<queue, audited, now, mu, history>>

\* An item that is not due is passed over; a due one goes to deliverOne.
PickItem(p) ==
  /\ pass[p].pc = "pick" /\ pass[p].todo # {}
  /\ LET item == pass[p].stored[Current(pass[p])]
     IN  /\ pass[p].at < item.expires
         /\ IF pass[p].at < item.next THEN Continue(p) ELSE Goto(p, "send")
  /\ UNCHANGED <<queue, audited, now, mu, history>>

\* Mutant: any attempt counts as delivered.
SendTrusting(p) ==
  /\ pass[p].pc = "send"
  /\ sent' = [sent EXCEPT ![Current(pass[p])] = @ + 1]
  /\ Goto(p, "mark")
  /\ accepted' \in {accepted, accepted \cup {Current(pass[p])}}
  /\ UNCHANGED <<queue, audited, now, mu, stops>>

\* deliverOne: the payload source fails; the request fails or times out, before
\* or after the receiver took it; or the receiver's 2xx arrives.
Send(p) ==
  /\ pass[p].pc = "send"
  /\ LET i == Current(pass[p])
     IN  \/ Goto(p, "retry") /\ UNCHANGED <<sent, accepted>>
         \/ /\ sent' = [sent EXCEPT ![i] = @ + 1]
            /\ \/ Goto(p, "mark") /\ accepted' = accepted \cup {i}
               \/ Goto(p, "retry") /\ accepted' \in {accepted, accepted \cup {i}}
  /\ UNCHANGED <<queue, audited, now, mu, stops>>

MarkDelivered(p) ==
  /\ pass[p].pc = "mark"
  /\ LET i == Current(pass[p])
     IN  IF queue[i].state = "pending" /\ pass[p].at < queue[i].expires
         THEN /\ queue' = [queue EXCEPT ![i] =
                   [queue[i] EXCEPT !.state = "delivered", !.attempts = @ + 1]]
              /\ Continue(p) /\ UNCHANGED mu
         ELSE /\ IF queue[i].state = "delivered" THEN Continue(p) /\ UNCHANGED mu
                 ELSE Return(p)
              /\ UNCHANGED queue
  /\ UNCHANGED <<audited, now, history>>

\* Mutant: the attempt that just failed is not counted against the bound.
ExhaustedLate(item) == item.attempts >= MaxAttempts

Exhausted(item) == item.attempts + 1 >= MaxAttempts

\* Mutant: an item that cannot be sent leaves the queue.
RetryOrFailDrops(p) ==
  /\ pass[p].pc = "retry"
  /\ queue' = [queue EXCEPT ![Current(pass[p])] = NoItem]
  /\ Continue(p)
  /\ UNCHANGED <<audited, now, mu, history>>

\* Mutant: exhausted items get a state the contract does not have.
RetryOrFailAbandons(p) ==
  /\ pass[p].pc = "retry"
  /\ MarkTerminal(p, Current(pass[p]), "abandoned")
  /\ UNCHANGED <<now, history>>

\* retryOrFail, on the item as the pass read it: give up after the last
\* attempt or when the next one would be too late, otherwise schedule it.
RetryOrFail(p) ==
  /\ pass[p].pc = "retry"
  /\ LET i == Current(pass[p])
         item == pass[p].stored[i]
         nextAt == pass[p].at + backoff[item.attempts + 1]
     IN  IF Exhausted(item) THEN MarkTerminal(p, i, "failed")
         ELSE IF nextAt >= item.expires THEN MarkTerminal(p, i, "expired")
         ELSE /\ IF queue[i].state = "pending"
                 THEN /\ queue' = [queue EXCEPT ![i] =
                           [@ EXCEPT !.attempts = item.attempts + 1, !.next = nextAt]]
                      /\ Continue(p) /\ UNCHANGED mu
                 ELSE Return(p) /\ UNCHANGED queue
              /\ UNCHANGED audited
  /\ UNCHANGED <<now, history>>

\* Every item was handled; DeliverDue returns its results.
Finish(p) ==
  /\ pass[p].pc = "pick" /\ pass[p].todo = {}
  /\ Goto(p, "done")
  /\ UNCHANGED <<queue, audited, now, mu, history>>

Unlock(p) ==
  /\ pass[p].pc = "done"
  /\ Return(p)
  /\ UNCHANGED <<queue, audited, now, history>>

-----------------------------------------------------------------------------
(* Environment                                                             *)

\* A done context, a store error or a signing error ends the pass where it is,
\* even when a request was already answered.
Abort(p) ==
  /\ pass[p].pc \notin {"idle", "done"}
  /\ stops < MaxStops
  /\ stops' = stops + 1
  /\ Return(p)
  /\ UNCHANGED <<queue, audited, now, sent, accepted>>

\* The process stops and is started again.
Crash ==
  /\ \E p \in Proc : pass[p].pc # "idle"
  /\ stops < MaxStops
  /\ stops' = stops + 1
  /\ pass' = [p \in Proc |-> IdlePass]
  /\ mu' = "none"
  /\ UNCHANGED <<queue, audited, now, sent, accepted>>

Tick ==
  /\ now < MaxTime
  /\ now' = now + 1
  /\ UNCHANGED <<queue, audited, mu, pass, history>>

\* A step of a pass in flight.
Step(p) ==
  \/ PendingItems(p) \/ ExpireItem(p) \/ PickItem(p) \/ Send(p)
  \/ MarkDelivered(p) \/ RetryOrFail(p) \/ Finish(p) \/ Unlock(p)

Next ==
  \/ \E i \in Item, w \in WebhookID, x \in Expiries : Enqueue(i, w, x)
  \/ \E p \in Proc : DeliverDue(p) \/ Step(p) \/ Abort(p)
  \/ Crash
  \/ Tick

\* A pass goes on: local steps do, and requestTimeout ends every exchange.
Fairness == \A p \in Proc : WF_vars(Step(p))

Spec == Init /\ [][Next]_vars /\ Fairness

-----------------------------------------------------------------------------
(* Properties                                                              *)

TypeOK ==
  /\ queue \in [Item -> QueueItem]
  /\ audited \subseteq Item
  /\ now \in Nat
  /\ mu \in Proc \cup {"none"}
  /\ pass \in [Proc -> Pass]
  /\ sent \in [Item -> Nat]
  /\ accepted \subseteq Item
  /\ stops \in Nat

\* The outcome in the queue is what happened: a delivered item was answered
\* with a 2xx, a failed or expired one has its audit event, and an item without
\* an outcome has none (markDelivered, markTerminal).
OutcomeTruthful ==
  \A i \in Item :
    /\ queue[i].state = "delivered" => i \in accepted
    /\ queue[i].state \in {"failed", "expired"} <=> i \in audited

\* The copy a pass took of an item at its start is still the stored item when
\* the pass sends it and records the result, so no pass repeats or overwrites
\* the work of another ("deliveries are serialized so a due queue item is not
\* sent twice by concurrent callers").
PassIsCurrent ==
  \A p \in Proc :
    pass[p].pc \in {"pick", "send", "mark", "retry"} =>
      \A i \in pass[p].todo : queue[i] = pass[p].stored[i]

\* An item is sent at most MaxAttempts times, and once more for each pass that
\* was stopped before it could record the attempt.
SendsBounded == \A i \in Item : sent[i] <= MaxAttempts + stops

\* The queue never holds more than MaxQueueItems pending items, and no two
\* items share a webhook ID, by which the receiver tells replays (enqueue).
QueueBounded ==
  /\ Cardinality(Pending(queue)) <= MaxQueueItems
  /\ \A i, j \in Item : queue[i].webhook = queue[j].webhook /\ queue[i] # NoItem => i = j

\* A pass always ends and gives the mutex back.
PassesEnd == \A p \in Proc : pass[p].pc # "idle" ~> pass[p].pc = "idle"

\* When passes keep being completed and time goes on, every item gets an
\* outcome, whatever the receiver and the payload source do.
EveryItemSettles ==
  []<>(\E p \in Proc : pass[p].pc = "done") /\ <>(now = MaxTime) =>
    \A i \in Item : queue[i].state = "pending" ~> queue[i].state # "pending"

-----------------------------------------------------------------------------
(* Statements of the code's comments that its behaviour does not keep      *)

\* "MaxAttempts bounds total send attempts, including the first delivery."
\* (Options): an attempt whose pass is stopped is not counted.
MaxAttemptsBoundsSends == \A i \in Item : sent[i] <= MaxAttempts

\* "InitialBackoff is the delay after the first failed attempt." (Options): a
\* retry is scheduled at least that far ahead.  The delay is counted from the
\* start of the pass, not from the attempt.
RetriesWait ==
  [][\A i \in Item :
       queue[i].state = "pending" /\ queue'[i].next # queue[i].next =>
         queue'[i].next >= now + InitialBackoff]_vars

-----------------------------------------------------------------------------
(* Refinement                                                              *)

Promise == INSTANCE DeliveryPromise
             WITH outcome <- [i \in Item |-> queue[i].state], confirmed <- accepted

\* The queue and the dispatcher keep the promise for every item.
KeepsPromise == Promise!Spec
=============================================================================
