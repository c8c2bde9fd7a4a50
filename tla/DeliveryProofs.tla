--------------------------- MODULE DeliveryProofs ---------------------------
(***************************************************************************)
(* The queue and the dispatcher, for any goroutines, items and options:    *)
(* passes do not interfere, outcomes are truthful and final, sends and the *)
(* queue are bounded.                                                      *)
(***************************************************************************)
EXTENDS Delivery, FiniteSetTheorems, WellFoundedInduction, TLAPS

-----------------------------------------------------------------------------
(* Backoff.  The recursion is followed number by number: the least number  *)
(* at which it could not be, or at which two ways of following it differ,  *)
(* does not exist.                                                         *)

\* The delay after one attempt more.
Doubled(previous) ==
  IF previous >= MaxBackoff \/ previous > MaxBackoff \div 2 THEN MaxBackoff
  ELSE previous * 2

\* A function that follows the recursion of backoff up to n.
Follows(f, n) ==
  \A i \in 0..n : f[i] = IF i <= 1 THEN InitialBackoff ELSE Doubled(f[i - 1])

LEMMA DoubledType == \A d \in InitialBackoff..MaxBackoff : Doubled(d) \in InitialBackoff..MaxBackoff
BY DeliveryAssumption DEF Doubled

\* A set of numbers that is not empty has a least element.
LEMMA LeastNumber ==
  ASSUME NEW T, T \subseteq Nat, T # {}
  PROVE  \E m \in T : \A k \in T : m <= k
<1>1. PICK m \in T : \A k \in T : ~(<<k, m>> \in OpToRel(<, Nat))
  BY NatLessThanWellFounded, WFMin, Zenon
<1>2. ASSUME NEW k \in T PROVE m <= k
  <2>1. k < m => <<k, m>> \in OpToRel(<, Nat)
    BY SMT DEF OpToRel
  <2>2. ~(k < m)
    BY <1>1, <2>1, Zenon
  <2> QED BY <2>2
<1> QED BY <1>2

\* The recursion can be followed to any number, and in one way.
LEMMA FollowsExists ==
  \A n \in Nat : \E f \in [Nat -> Nat] : Follows(f, n)
<1> DEFINE T == {n \in Nat : ~ \E f \in [Nat -> Nat] : Follows(f, n)}
<1> SUFFICES ASSUME T # {} PROVE FALSE
  OBVIOUS
<1>1. PICK m \in T : \A k \in T : m <= k
  BY LeastNumber, Zenon
<1>2. CASE m = 0
  <2> DEFINE f == [i \in Nat |-> InitialBackoff]
  <2>1. f \in [Nat -> Nat] /\ Follows(f, m)
    BY <1>2, DeliveryAssumption DEF Follows
  <2> QED BY <2>1
<1>3. CASE m > 0
  <2>1. m \in Nat /\ m - 1 \in Nat
    BY <1>3
  <2>0. m - 1 \notin T
    <3> HIDE DEF T
    <3> QED BY <1>1, <2>1
  <2>2. PICK g \in [Nat -> Nat] : Follows(g, m - 1)
    BY <2>0, <2>1
  <2> DEFINE next == IF m <= 1 THEN InitialBackoff ELSE Doubled(g[m - 1])
  <2> DEFINE f == [g EXCEPT ![m] = next]
  <2>3. next \in Nat
    BY <2>1, DeliveryAssumption DEF Doubled
  <2>4. f \in [Nat -> Nat]
    BY <2>3
  <2>5. ASSUME NEW i \in 0..m PROVE f[i] = IF i <= 1 THEN InitialBackoff ELSE Doubled(f[i - 1])
    <3>1. CASE i = m
      BY <3>1, <1>3
    <3>2. CASE i # m
      BY <3>2, <2>2, <1>3 DEF Follows
    <3> QED BY <3>1, <3>2
  <2> QED BY <2>4, <2>5, Zenon DEF Follows
<1> QED BY <1>2, <1>3

LEMMA FollowsUnique ==
  ASSUME NEW n \in Nat, NEW f, NEW g, Follows(f, n), Follows(g, n)
  PROVE  f[n] = g[n]
<1> DEFINE T == {i \in 0..n : f[i] # g[i]}
<1> SUFFICES ASSUME T # {} PROVE FALSE
  OBVIOUS
<1>0. T \subseteq Nat
  OBVIOUS
<1>1. PICK m \in T : \A k \in T : m <= k
  <2> HIDE DEF T
  <2> QED BY <1>0, LeastNumber, Zenon
<1>2. m > 1 => f[m - 1] = g[m - 1]
  BY <1>1
<1> QED BY <1>1, <1>2 DEF Follows

\* backoff is what its definition says.
LEMMA BackoffUnfolds ==
  /\ backoff = [n \in Nat |-> backoff[n]]
  /\ \A n \in Nat : backoff[n] = IF n <= 1 THEN InitialBackoff ELSE Doubled(backoff[n - 1])
<1> DEFINE fs == [n \in Nat |-> CHOOSE f \in [Nat -> Nat] : Follows(f, n)]
<1> DEFINE F == [n \in Nat |-> fs[n][n]]
<1> DEFINE Body(f) == [attempt \in Nat |->
       IF attempt <= 1 THEN InitialBackoff ELSE Doubled(f[attempt - 1])]
<1>1. \A n \in Nat : Follows(fs[n], n)
  BY FollowsExists, Zenon
<1> HIDE DEF fs
<1>2. ASSUME NEW n \in Nat, n > 1 PROVE fs[n][n - 1] = fs[n - 1][n - 1]
  <2>1. n - 1 \in Nat /\ Follows(fs[n], n - 1)
    BY <1>1, <1>2 DEF Follows
  <2>2. Follows(fs[n - 1], n - 1)
    BY <2>1, <1>1
  <2> QED BY <2>1, <2>2, FollowsUnique
<1>3. ASSUME NEW n \in Nat PROVE F[n] = IF n <= 1 THEN InitialBackoff ELSE Doubled(F[n - 1])
  <2>1. fs[n][n] = IF n <= 1 THEN InitialBackoff ELSE Doubled(fs[n][n - 1])
    BY <1>1 DEF Follows
  <2> QED BY <2>1, <1>2
<1>4. F = Body(F)
  <2>1. DOMAIN F = Nat /\ F = [n \in Nat |-> F[n]]
    OBVIOUS
  <2> HIDE DEF F
  <2> QED BY <2>1, <1>3, Zenon
<1>5. backoff = CHOOSE f : f = Body(f)
  BY DEF backoff, Doubled
<1> HIDE DEF F, Body
<1>6. backoff = Body(backoff)
  BY <1>4, <1>5
<1>7. DOMAIN backoff = Nat /\ \A n \in Nat : backoff[n] = Body(backoff)[n]
  BY <1>6 DEF Body
<1> QED BY <1>6, <1>7 DEF Body

\* The delay between attempts stays between the options (backoff).
THEOREM BackoffBounded == backoff \in [Nat -> InitialBackoff..MaxBackoff]
<1> DEFINE T == {n \in Nat : backoff[n] \notin InitialBackoff..MaxBackoff}
<1>1. T = {}
  <2> SUFFICES ASSUME T # {} PROVE FALSE
    OBVIOUS
  <2>1. PICK m \in T : \A k \in T : m <= k
    BY LeastNumber, Zenon
  <2>2. m > 1 => backoff[m - 1] \in InitialBackoff..MaxBackoff
    BY <2>1
  <2> QED BY <2>1, <2>2, BackoffUnfolds, DoubledType, DeliveryAssumption
<1>2. \A n \in Nat : backoff[n] \in InitialBackoff..MaxBackoff
  BY <1>1
<1> QED BY <1>2, BackoffUnfolds

-----------------------------------------------------------------------------
(* The inductive invariant                                                 *)

\* A pass in flight holds the mutex.
Serialized == \A p \in Proc : pass[p].pc # "idle" => mu = p

\* What a pass relies on: its copies are the stored items, which are pending.
PassSound(c) ==
  /\ c.pc \in {"pick", "send", "mark", "retry"} =>
       \A i \in c.todo : queue[i] = c.stored[i] /\ queue[i].state = "pending"
  /\ c.pc \in {"send", "mark", "retry"} =>
       c.todo # {} /\ c.at < c.stored[Current(c)].expires
  /\ c.pc = "mark" => Current(c) \in accepted

PassesSound == \A p \in Proc : PassSound(pass[p])

\* An attempt for the item may have been made and is not recorded yet.
InFlight(i) ==
  \E p \in Proc : pass[p].pc \in {"mark", "retry"} /\ Current(pass[p]) = i

\* The requests sent for an item, by what its record counts.
SendsCounted ==
  \A i \in Item :
    /\ queue[i].state = "none" => sent[i] = 0
    /\ queue[i].state = "pending" =>
         /\ queue[i].attempts + 1 <= MaxAttempts
         /\ sent[i] <= queue[i].attempts + 1 + stops
         /\ ~InFlight(i) => sent[i] <= queue[i].attempts + stops
    /\ sent[i] <= MaxAttempts + stops

QueueSound == IsFiniteSet(Pending(queue)) /\ QueueBounded

DeliveryInv ==
  /\ TypeOK
  /\ Serialized
  /\ PassesSound
  /\ OutcomeTruthful
  /\ SendsCounted
  /\ QueueSound

-----------------------------------------------------------------------------
(* Helpers                                                                 *)

\* A pass with items left has a current one among them.
LEMMA CurrentInTodo ==
  ASSUME NEW c, c.todo \in SUBSET Item, c.todo # {}
  PROVE  Current(c) \in c.todo
<1>1. c.todo \subseteq Nat
  BY DeliveryAssumption, ZenonT(30)
<1>2. PICK m \in c.todo : \A j \in c.todo : m <= j
  BY <1>1, LeastNumber
<1> QED
  BY <1>2 DEF Current

\* Removing items from the pending ones keeps their number in bounds.
LEMMA PendingShrinks ==
  ASSUME QueueSound, Pending(queue') \subseteq Pending(queue), MaxQueueItems \in Nat
  PROVE  IsFiniteSet(Pending(queue')) /\ Cardinality(Pending(queue')) <= MaxQueueItems
<1>1. /\ IsFiniteSet(Pending(queue'))
      /\ Cardinality(Pending(queue')) <= Cardinality(Pending(queue))
  BY FS_Subset DEF QueueSound
<1>2. Cardinality(Pending(queue')) \in Nat /\ Cardinality(Pending(queue)) \in Nat
  BY <1>1, FS_CardinalityType DEF QueueSound
<1> QED
  BY <1>1, <1>2 DEF QueueSound, QueueBounded

\* While one pass is in flight every other goroutine is outside DeliverDue.
LEMMA OthersIdle ==
  ASSUME Serialized, NEW p \in Proc, pass[p].pc # "idle", NEW q \in Proc, q # p
  PROVE  pass[q].pc = "idle"
BY DEF Serialized

-----------------------------------------------------------------------------
(* Steps                                                                   *)

\* A pass stores a result for its current item and goes on: what the result
\* must satisfy to keep the invariant (markDelivered, markTerminal, retryOrFail).
LEMMA RecordResult ==
  ASSUME DeliveryInv, NEW p \in Proc, pass[p].pc \in {"pick", "mark", "retry"},
         pass[p].todo # {}, NEW r \in QueueItem,
         queue' = [queue EXCEPT ![Current(pass[p])] = r],
         r.state \in DeliveryState \ {"none"},
         r.webhook = queue[Current(pass[p])].webhook,
         r.state = "pending" => /\ r.attempts + 1 <= MaxAttempts
                                /\ sent[Current(pass[p])] <= r.attempts + stops,
         r.state = "delivered" => Current(pass[p]) \in accepted,
         audited' = IF r.state \in {"failed", "expired"}
                    THEN audited \cup {Current(pass[p])} ELSE audited,
         Continue(p), UNCHANGED <<now, mu, sent, accepted, stops>>
  PROVE  DeliveryInv'
<1> DEFINE i == Current(pass[p])
<1> USE DEF DeliveryInv
<1>1. /\ i \in pass[p].todo /\ i \in Item
      /\ queue[i].state = "pending"
      /\ pass[p] \in Pass
  <2>1. pass[p] \in Pass
    BY DEF TypeOK
  <2>2. i \in pass[p].todo
    BY <2>1, CurrentInTodo DEF Pass
  <2> QED
    BY <2>1, <2>2 DEF PassesSound, PassSound, Pass
<1> DEFINE c == [pass[p] EXCEPT !.pc = "pick", !.todo = @ \ {i}]
<1>2. /\ pass' = [pass EXCEPT ![p] = c]
      /\ c \in Pass
      /\ c.pc = "pick" /\ c.todo = pass[p].todo \ {i} /\ c.stored = pass[p].stored
  BY <1>1 DEF Continue, Label, Pass, TypeOK
<1>3. \A q \in Proc : q # p => pass[q].pc = "idle"
  BY OthersIdle
<1>4. \A q \in Proc : pass'[q] = IF q = p THEN c ELSE pass[q]
  BY <1>2 DEF TypeOK
<1>5. \A j \in Item : queue'[j] = IF j = i THEN r ELSE queue[j]
  BY <1>1 DEF TypeOK
<1> HIDE DEF i, c
<1>6. TypeOK'
  BY <1>1, <1>2, Zenon DEF TypeOK, i
<1>7. Serialized'
  BY <1>2, <1>4 DEF Serialized
<1>8. PassesSound'
  <2>1. ASSUME NEW q \in Proc, q # p PROVE PassSound(pass[q])'
    BY <1>3, <1>4, <2>1 DEF PassSound
  <2>2. PassSound(pass[p])'
    <3>1. pass'[p] = c
      BY <1>4
    <3>2. ASSUME NEW j \in c.todo PROVE queue'[j] = c.stored[j] /\ queue'[j].state = "pending"
      BY <1>1, <1>2, <1>5 DEF PassesSound, PassSound, Pass
    <3> QED
      BY <1>2, <3>1, <3>2 DEF PassSound
  <2> QED
    BY <2>1, <2>2 DEF PassesSound
<1>9. OutcomeTruthful'
  BY <1>1, <1>5, Zenon DEF OutcomeTruthful, i, DeliveryState
<1>10. SendsCounted'
  <2> SUFFICES ASSUME NEW j \in Item
               PROVE  /\ queue'[j].state = "none" => sent[j] = 0
                      /\ queue'[j].state = "pending" =>
                           /\ queue'[j].attempts + 1 <= MaxAttempts
                           /\ sent[j] <= queue'[j].attempts + 1 + stops
                           /\ ~InFlight(j)' => sent[j] <= queue'[j].attempts + stops
                      /\ sent[j] <= MaxAttempts + stops
    BY DEF SendsCounted
  <2>1. CASE j = i
    BY <1>5, <2>1, SMTT(30) DEF SendsCounted, i, TypeOK, QueueItem
  <2>2. CASE j # i
    <3>1. ~InFlight(j)
      BY <1>3, <2>2 DEF InFlight, i
    <3> QED
      BY <1>5, <2>2, <3>1, Zenon DEF SendsCounted, TypeOK, QueueItem
  <2> QED
    BY <2>1, <2>2
<1>11. QueueSound'
  <2>1. Pending(queue') \subseteq Pending(queue)
    BY <1>1, <1>5 DEF Pending
  <2>2. IsFiniteSet(Pending(queue')) /\ Cardinality(Pending(queue')) <= MaxQueueItems
    BY <2>1, PendingShrinks, DeliveryAssumption, ZenonT(30)
  <2>3. \A j, k \in Item :
          queue'[j].webhook = queue'[k].webhook /\ queue'[j] # NoItem => j = k
    BY <1>1, <1>5 DEF QueueSound, QueueBounded, NoItem, i
  <2> QED
    BY <2>2, <2>3 DEF QueueSound, QueueBounded
<1> QED
  BY <1>6, <1>7, <1>8, <1>9, <1>10, <1>11

\* Steps that neither send nor end an attempt keep the count of sends.
LEMMA SendsKept ==
  ASSUME DeliveryInv, UNCHANGED <<queue, sent, stops>>,
         \A i \in Item : InFlight(i) => InFlight(i)'
  PROVE  SendsCounted'
BY DEF DeliveryInv, SendsCounted

\* One pass moves and the queue stays: what is left to show of such a step.
LEMMA MovePass ==
  ASSUME DeliveryInv, NEW p \in Proc, NEW c \in Pass,
         pass' = [pass EXCEPT ![p] = c],
         \A q \in Proc : q # p => pass[q].pc = "idle",
         mu' = IF c.pc = "idle" THEN "none" ELSE p,
         PassSound(c)',
         UNCHANGED <<queue, audited, now>>,
         accepted' \subseteq Item, accepted \subseteq accepted',
         sent' \in [Item -> Nat], stops' \in Nat,
         SendsCounted'
  PROVE  DeliveryInv'
<1>1. \A q \in Proc : pass'[q] = IF q = p THEN c ELSE pass[q]
  BY DEF DeliveryInv, TypeOK
<1>2. TypeOK'
  BY Zenon DEF DeliveryInv, TypeOK
<1>3. Serialized'
  BY <1>1 DEF Serialized
<1>4. PassesSound'
  <2>1. ASSUME NEW q \in Proc, q # p PROVE PassSound(pass[q])'
    BY <1>1, <2>1 DEF PassSound
  <2>2. PassSound(pass[p])'
    BY <1>1 DEF PassSound
  <2> QED
    BY <2>1, <2>2 DEF PassesSound
<1>5. OutcomeTruthful'
  BY DEF DeliveryInv, OutcomeTruthful
<1>6. QueueSound'
  BY DEF DeliveryInv, QueueSound, QueueBounded, Pending
<1> QED
  BY <1>2, <1>3, <1>4, <1>5, <1>6 DEF DeliveryInv

\* DeliverDue takes the mutex and the time.
LEMMA DeliverDueStep ==
  ASSUME DeliveryInv, NEW p \in Proc, DeliverDue(p) PROVE DeliveryInv'
<1>1. \A q \in Proc : pass[q].pc = "idle"
  BY DeliveryAssumption DEF DeliverDue, DeliveryInv, Serialized
<1>2. NoItem \in QueueItem
  BY DEF NoItem, QueueItem, DeliveryState
<1>3. PICK c \in Pass : c = [IdlePass EXCEPT !.pc = "list", !.at = now]
  BY <1>2, ZenonT(30) DEF IdlePass, Pass, Label, DeliveryInv, TypeOK
<1>4. c.pc = "list"
  BY <1>3 DEF IdlePass
<1>5. PassSound(c)'
  BY <1>4 DEF PassSound
<1>6. /\ pass' = [pass EXCEPT ![p] = c] /\ mu' = p
      /\ UNCHANGED <<queue, audited, now, sent, accepted, stops>>
  BY <1>3 DEF DeliverDue, history
<1>7. SendsCounted'
  BY <1>1, <1>6, SendsKept DEF InFlight
<1>8. accepted' \subseteq Item /\ sent' \in [Item -> Nat] /\ stops' \in Nat
  BY <1>6 DEF DeliveryInv, TypeOK
<1> QED
  BY <1>1, <1>4, <1>5, <1>6, <1>7, <1>8, MovePass, ZenonT(30)

\* A pass in flight: it alone is, and it has a current item when it has any.
LEMMA ThePass ==
  ASSUME DeliveryInv, NEW p \in Proc, pass[p].pc # "idle"
  PROVE  /\ pass[p] \in Pass /\ mu = p
         /\ \A q \in Proc : q # p => pass[q].pc = "idle"
         /\ pass[p].todo # {} => Current(pass[p]) \in pass[p].todo /\ Current(pass[p]) \in Item
         /\ pass[p].pc \in {"send", "mark", "retry"} => pass[p].todo # {}
         /\ PassSound(pass[p])
<1>1. pass[p] \in Pass
  BY DEF DeliveryInv, TypeOK
<1>2. pass[p].todo # {} => Current(pass[p]) \in pass[p].todo /\ Current(pass[p]) \in Item
  BY <1>1, CurrentInTodo DEF Pass
<1> QED
  BY <1>1, <1>2, OthersIdle DEF DeliveryInv, Serialized, PassesSound, PassSound

\* Steps of a pass between the attempts: nothing but the pass changes.
LEMMA LocalStep ==
  ASSUME DeliveryInv, NEW p \in Proc, pass[p].pc \in {"list", "pick", "done"},
         NEW c \in Pass, pass' = [pass EXCEPT ![p] = c], PassSound(c),
         mu' = IF c.pc = "idle" THEN "none" ELSE p,
         UNCHANGED <<queue, audited, now, sent, accepted, stops>>
  PROVE  DeliveryInv'
<1>1. \A q \in Proc : q # p => pass[q].pc = "idle"
  BY ThePass
<1>2. SendsCounted'
  BY <1>1, SendsKept DEF InFlight
<1>3. PassSound(c)'
  BY DEF PassSound
<1>4. accepted' \subseteq Item /\ sent' \in [Item -> Nat] /\ stops' \in Nat
  BY DEF DeliveryInv, TypeOK
<1> QED
  BY <1>1, <1>2, <1>3, <1>4, MovePass, ZenonT(30)

\* The pass an idle goroutine has.
LEMMA IdleRecord == IdlePass \in Pass /\ IdlePass.pc = "idle"
BY DEF IdlePass, Pass, NoItem, QueueItem, DeliveryState, Label

\* Reading the queue, passing over an item, starting an attempt and returning.
LEMMA LocalSteps ==
  ASSUME DeliveryInv, NEW p \in Proc,
         PendingItems(p) \/ PickItem(p) \/ Finish(p) \/ Unlock(p)
  PROVE  DeliveryInv'
<1>1. pass[p].pc \in {"list", "pick", "done"}
  BY DEF PendingItems, PickItem, Finish, Unlock
<1>2. /\ pass[p] \in Pass /\ mu = p /\ PassSound(pass[p])
      /\ pass[p].todo # {} => Current(pass[p]) \in pass[p].todo /\ Current(pass[p]) \in Item
  BY <1>1, ThePass
<1>3. UNCHANGED <<queue, audited, now, sent, accepted, stops>>
  BY DEF PendingItems, PickItem, Finish, Unlock, history
<1>4. CASE PendingItems(p)
  <2>1. PICK c \in Pass : c = [pass[p] EXCEPT !.pc = "pick", !.stored = queue,
                                                    !.todo = Pending(queue)]
    BY <1>2, ZenonT(30) DEF Pass, Label, Pending, DeliveryInv, TypeOK
  <2>2. pass' = [pass EXCEPT ![p] = c] /\ mu' = p
    BY <1>2, <1>4, <2>1, ZenonT(30) DEF PendingItems, DeliveryInv, TypeOK
  <2>3. c.pc = "pick" /\ c.stored = queue /\ c.todo = Pending(queue)
    BY <1>2, <2>1 DEF Pass
  <2>4. PassSound(c)
    BY <2>3 DEF PassSound, Pending
  <2> QED
    BY <1>1, <1>3, <2>2, <2>3, <2>4, LocalStep, ZenonT(30)
<1>5. CASE PickItem(p)
  <2>1. pass[p].pc = "pick" /\ pass[p].todo # {} /\ mu' = p
        /\ (Continue(p) \/ Goto(p, "send"))
    BY <1>2, <1>5, Zenon DEF PickItem
  <2>2. CASE Continue(p)
    <3>1. PICK c \in Pass :
            c = [pass[p] EXCEPT !.pc = "pick", !.todo = pass[p].todo \ {Current(pass[p])}]
      BY <1>2, ZenonT(30) DEF Pass, Label
    <3>2. pass' = [pass EXCEPT ![p] = c]
      BY <1>2, <2>2, <3>1, ZenonT(30) DEF Continue, DeliveryInv, TypeOK
    <3>3. c.pc = "pick" /\ c.stored = pass[p].stored /\ c.todo \subseteq pass[p].todo
      BY <1>2, <3>1 DEF Pass
    <3>4. PassSound(c)
      BY <1>2, <2>1, <3>3 DEF PassSound
    <3> QED
      BY <1>1, <1>3, <2>1, <3>2, <3>3, <3>4, LocalStep, ZenonT(30)
  <2>3. CASE Goto(p, "send")
    <3>1. PICK c \in Pass : c = [pass[p] EXCEPT !.pc = "send"]
      BY <1>2, ZenonT(30) DEF Pass, Label
    <3>2. pass' = [pass EXCEPT ![p] = c]
      BY <1>2, <2>3, <3>1 DEF Goto, DeliveryInv, TypeOK
    <3>3. /\ c.pc = "send" /\ c.stored = pass[p].stored
          /\ c.todo = pass[p].todo /\ c.at = pass[p].at
      BY <1>2, <3>1 DEF Pass
    <3>4. Current(c) = Current(pass[p])
      BY <3>3, Zenon DEF Current
    <3>5. PassSound(c)
      BY <1>2, <1>5, <2>1, <3>3, <3>4, Zenon DEF PassSound, PickItem
    <3> QED
      BY <1>1, <1>3, <2>1, <3>2, <3>3, <3>5, LocalStep, ZenonT(30)
  <2> QED
    BY <2>1, <2>2, <2>3
<1>6. CASE Finish(p)
  <2>1. PICK c \in Pass : c = [pass[p] EXCEPT !.pc = "done"]
    BY <1>2, ZenonT(30) DEF Pass, Label
  <2>2. pass' = [pass EXCEPT ![p] = c] /\ mu' = p
    BY <1>2, <1>6, <2>1 DEF Finish, Goto, DeliveryInv, TypeOK
  <2>3. c.pc = "done"
    BY <1>2, <2>1 DEF Pass
  <2>4. PassSound(c)
    BY <2>3 DEF PassSound
  <2> QED
    BY <1>1, <1>3, <2>2, <2>3, <2>4, LocalStep, ZenonT(30)
<1>7. CASE Unlock(p)
  <2>1. pass' = [pass EXCEPT ![p] = IdlePass] /\ mu' = "none"
    BY <1>7 DEF Unlock, Return
  <2>2. PassSound(IdlePass)
    BY IdleRecord DEF PassSound
  <2> QED
    BY <1>1, <1>3, <2>1, <2>2, IdleRecord, LocalStep, ZenonT(30)
<1> QED
  BY <1>4, <1>5, <1>6, <1>7

\* An attempt: one request more at most, which the pass has yet to record.
LEMMA SendStep ==
  ASSUME DeliveryInv, NEW p \in Proc, Send(p) PROVE DeliveryInv'
<1> DEFINE i == Current(pass[p])
<1>1. pass[p].pc = "send"
  BY DEF Send
<1>2. /\ pass[p] \in Pass /\ mu = p /\ PassSound(pass[p])
      /\ \A q \in Proc : q # p => pass[q].pc = "idle"
      /\ pass[p].todo # {} /\ i \in pass[p].todo /\ i \in Item
  BY <1>1, ThePass
<1>3. /\ queue[i].state = "pending" /\ ~InFlight(i)
      /\ \A j \in Item : ~InFlight(j)
  BY <1>1, <1>2 DEF PassSound, InFlight
<1>4. PICK l \in {"mark", "retry"} :
        /\ Goto(p, l)
        /\ l = "mark" => i \in accepted'
  BY DEF Send
<1>5. PICK c \in Pass : c = [pass[p] EXCEPT !.pc = l]
  BY <1>2, ZenonT(30) DEF Pass, Label
<1>6. /\ c.pc = l /\ c.stored = pass[p].stored
      /\ c.todo = pass[p].todo /\ c.at = pass[p].at
  BY <1>2, <1>5 DEF Pass
<1>7. pass' = [pass EXCEPT ![p] = c] /\ pass'[p] = c /\ mu' = p
  BY <1>2, <1>4, <1>5 DEF Goto, Send, DeliveryInv, TypeOK
<1>8. UNCHANGED <<queue, audited, now, stops>>
  BY DEF Send
<1>9. /\ accepted' \subseteq Item /\ accepted \subseteq accepted'
      /\ sent' \in [Item -> Nat]
      /\ \A j \in Item : sent'[j] <= IF j = i THEN sent[j] + 1 ELSE sent[j]
      /\ \A j \in Item : j # i => sent'[j] = sent[j]
  BY <1>2, SMTT(30) DEF Send, DeliveryInv, TypeOK
<1>10. Current(c) = i
  BY <1>6 DEF Current
<1>11. PassSound(c)'
  BY <1>1, <1>2, <1>4, <1>6, <1>8, <1>10 DEF PassSound
<1>12. pass'[p].pc \in {"mark", "retry"} /\ Current(pass'[p]) = i
  BY <1>6, <1>7, <1>10
<1> HIDE DEF i
<1>13. SendsCounted'
  <2> SUFFICES ASSUME NEW j \in Item
               PROVE  /\ queue[j].state = "none" => sent'[j] = 0
                      /\ queue[j].state = "pending" =>
                           /\ queue[j].attempts + 1 <= MaxAttempts
                           /\ sent'[j] <= queue[j].attempts + 1 + stops
                           /\ ~InFlight(j)' => sent'[j] <= queue[j].attempts + stops
                      /\ sent'[j] <= MaxAttempts + stops
    BY <1>8 DEF SendsCounted
  <2>1. queue[j].attempts \in Nat /\ stops \in Nat /\ sent[j] \in Nat /\ sent'[j] \in Nat
        /\ MaxAttempts \in Nat
    BY <1>9, DeliveryAssumption DEF DeliveryInv, TypeOK, QueueItem
  <2>2. CASE j = i
    <3>1. InFlight(j)' /\ ~InFlight(j)
      BY <1>3, <1>12, <2>2 DEF InFlight
    <3>2. queue[j].state = "pending" /\ sent'[j] <= sent[j] + 1
      BY <1>3, <1>9, <2>2
    <3> QED
      BY <2>1, <3>1, <3>2, SMTT(30) DEF DeliveryInv, SendsCounted
  <2>3. CASE j # i
    BY <1>3, <1>9, <2>1, <2>3, Zenon DEF DeliveryInv, SendsCounted
  <2> QED
    BY <2>2, <2>3
<1>14. stops' \in Nat
  BY <1>8 DEF DeliveryInv, TypeOK
<1> QED
  BY <1>2, <1>6, <1>7, <1>8, <1>9, <1>11, <1>13, <1>14, MovePass, ZenonT(30)

\* The item of an attempt, or of an expiry, gets its final state.
LEMMA TerminalStep ==
  ASSUME DeliveryInv, NEW p \in Proc, pass[p].pc \in {"pick", "retry"},
         pass[p].todo # {}, NEW state \in {"failed", "expired"},
         MarkTerminal(p, Current(pass[p]), state), UNCHANGED <<now, history>>
  PROVE  DeliveryInv'
<1> DEFINE i == Current(pass[p])
<1>1. i \in Item /\ queue[i] \in QueueItem /\ queue[i].state = "pending"
  BY ThePass, Zenon DEF PassSound, DeliveryInv, TypeOK
<1>2. /\ queue' = [queue EXCEPT ![i].state = state]
      /\ audited' = audited \cup {i} /\ Continue(p)
      /\ UNCHANGED <<now, mu, sent, accepted, stops>>
  BY <1>1 DEF MarkTerminal, history
<1>3. PICK r \in QueueItem : r = [queue[i] EXCEPT !.state = state]
  BY <1>1, ZenonT(30) DEF QueueItem, DeliveryState
<1>4. r.state = state /\ r.webhook = queue[i].webhook
  BY <1>1, <1>3 DEF QueueItem
<1>5. queue' = [queue EXCEPT ![i] = r]
  BY <1>1, <1>2, <1>3 DEF DeliveryInv, TypeOK
<1>6. r.state \in DeliveryState \ {"none"} /\ r.state \notin {"pending", "delivered"}
  BY <1>4 DEF DeliveryState
<1> QED
  BY <1>2, <1>4, <1>5, <1>6, RecordResult, ZenonT(30)

\* markDelivered, after an answered request.
LEMMA MarkDeliveredStep ==
  ASSUME DeliveryInv, NEW p \in Proc, MarkDelivered(p) PROVE DeliveryInv'
<1> DEFINE i == Current(pass[p])
<1>1. pass[p].pc = "mark"
  BY DEF MarkDelivered
<1>2. /\ pass[p].todo # {} /\ i \in Item /\ i \in accepted
      /\ queue[i] \in QueueItem /\ queue[i].state = "pending"
      /\ pass[p].at < queue[i].expires
  BY <1>1, ThePass, Zenon DEF PassSound, DeliveryInv, TypeOK
<1>3. /\ queue' = [queue EXCEPT ![i] =
             [queue[i] EXCEPT !.state = "delivered", !.attempts = queue[i].attempts + 1]]
      /\ Continue(p) /\ UNCHANGED <<audited, now, mu, sent, accepted, stops>>
  BY <1>2 DEF MarkDelivered, history
<1>4. PICK r \in QueueItem :
        r = [queue[i] EXCEPT !.state = "delivered", !.attempts = queue[i].attempts + 1]
  <2> DEFINE n == queue[i].attempts + 1
  <2>1. n \in Nat
    BY <1>2 DEF QueueItem
  <2> HIDE DEF n
  <2>2. [queue[i] EXCEPT !.state = "delivered", !.attempts = n] \in QueueItem
    BY <1>2, <2>1, ZenonT(30) DEF QueueItem, DeliveryState
  <2> QED
    BY <2>2 DEF n
<1>5. r.state = "delivered" /\ r.webhook = queue[i].webhook
  BY <1>2, <1>4 DEF QueueItem
<1>6. queue' = [queue EXCEPT ![i] = r]
  BY <1>3, <1>4
<1>7. r.state \in DeliveryState \ {"none"} /\ r.state \notin {"pending", "failed", "expired"}
  BY <1>5 DEF DeliveryState
<1> QED
  BY <1>1, <1>2, <1>3, <1>5, <1>6, <1>7, RecordResult, ZenonT(30)

\* retryOrFail: the next attempt is scheduled, or there is none.
LEMMA RetryOrFailStep ==
  ASSUME DeliveryInv, NEW p \in Proc, RetryOrFail(p) PROVE DeliveryInv'
<1> DEFINE i == Current(pass[p])
           n == queue[i].attempts + 1
           nextAt == pass[p].at + backoff[n]
<1>1. pass[p].pc = "retry" /\ UNCHANGED <<now, history>>
  BY DEF RetryOrFail
<1>2. /\ pass[p].todo # {} /\ i \in Item /\ pass[p].at \in Nat
      /\ queue[i] \in QueueItem /\ queue[i].state = "pending"
      /\ queue[i] = pass[p].stored[i]
  BY <1>1, ThePass DEF PassSound, DeliveryInv, TypeOK, Pass
<1>3. CASE MarkTerminal(p, i, "failed") \/ MarkTerminal(p, i, "expired")
  BY <1>1, <1>2, <1>3, TerminalStep, Zenon
<1>4. CASE /\ ~Exhausted(queue[i])
           /\ queue' = [queue EXCEPT ![i] = [queue[i] EXCEPT !.attempts = n, !.next = nextAt]]
           /\ Continue(p) /\ UNCHANGED <<mu, audited>>
  <2>1. n \in Nat /\ nextAt \in Nat
    <3>1. n \in Nat
      BY <1>2 DEF QueueItem
    <3>2. backoff[n] \in Nat
      BY <3>1, BackoffBounded, DeliveryAssumption
    <3>3. \A a, b \in Nat : a + b \in Nat
      OBVIOUS
    <3> QED BY <1>2, <3>1, <3>2, <3>3, Zenon
  <2>2. PICK r \in QueueItem : r = [queue[i] EXCEPT !.attempts = n, !.next = nextAt]
    BY <1>2, <2>1, ZenonT(30) DEF QueueItem
  <2>3. r.state = "pending" /\ r.webhook = queue[i].webhook /\ r.attempts = n
    BY <1>2, <2>2, Zenon DEF QueueItem
  <2>4. queue' = [queue EXCEPT ![i] = r]
    BY <1>4, <2>2, Zenon
  <2>5. n + 1 <= MaxAttempts
    <3>1. ~(n >= MaxAttempts)
      BY <1>4, Zenon DEF Exhausted
    <3> HIDE DEF n
    <3> QED BY <2>1, <3>1, DeliveryAssumption
  <2>6. sent[i] <= n + stops
    BY <1>2 DEF DeliveryInv, SendsCounted
  <2>7. r.state \in DeliveryState \ {"none"} /\ r.state \notin {"delivered", "failed", "expired"}
    BY <2>3 DEF DeliveryState
  <2>8. UNCHANGED <<audited, now, mu, sent, accepted, stops>>
    BY <1>1, <1>4 DEF history
  <2> HIDE DEF n, nextAt
  <2> QED
    BY <1>1, <1>2, <1>4, <2>3, <2>4, <2>5, <2>6, <2>7, <2>8, RecordResult, ZenonT(30)
<1> QED
  BY <1>2, <1>3, <1>4 DEF RetryOrFail

\* A new item, with a webhook ID of its own, while there is room for it.
LEMMA EnqueueStep ==
  ASSUME DeliveryInv, NEW i \in Item, NEW w \in WebhookID, NEW x \in Expiries,
         Enqueue(i, w, x)
  PROVE  DeliveryInv'
<1>1. PICK t \in 1 .. now :
        /\ Cardinality(Pending(queue)) < MaxQueueItems
        /\ queue[i].state = "none"
        /\ \A j \in Item : queue[j].webhook # w
        /\ queue' = [queue EXCEPT ![i] = [state |-> "pending", webhook |-> w,
                                          attempts |-> 0, next |-> t, expires |-> x]]
        /\ UNCHANGED <<audited, now, mu, pass, sent, accepted, stops>>
  BY ZenonT(30) DEF Enqueue, history
<1>2. PICK r : r = [state |-> "pending", webhook |-> w,
                    attempts |-> 0, next |-> t, expires |-> x]
  BY ZenonT(30)
<1>3. /\ r \in QueueItem
      /\ r.state = "pending" /\ r.webhook = w /\ r.attempts = 0
  BY <1>2, DeliveryAssumption DEF QueueItem, DeliveryState, DeliveryInv, TypeOK
<1>4. /\ queue' = [queue EXCEPT ![i] = r]
      /\ \A j \in Item : queue'[j] = IF j = i THEN r ELSE queue[j]
  BY <1>1, <1>2, Zenon DEF DeliveryInv, TypeOK
<1>5. TypeOK'
  BY <1>1, <1>3, <1>4, Zenon DEF DeliveryInv, TypeOK
<1>6. Serialized'
  BY <1>1, Zenon DEF DeliveryInv, Serialized
<1>7. PassesSound'
  <2> SUFFICES ASSUME NEW q \in Proc PROVE PassSound(pass[q])'
    BY DEF PassesSound
  <2>1. pass[q] \in Pass /\ PassSound(pass[q]) /\ pass'[q] = pass[q]
    BY <1>1 DEF DeliveryInv, TypeOK, PassesSound
  <2> QED
    BY <1>1, <1>4, <2>1 DEF PassSound, Pass
<1>8. OutcomeTruthful'
  BY <1>1, <1>3, <1>4, Zenon DEF DeliveryInv, OutcomeTruthful
<1>9. SendsCounted'
  <2> SUFFICES ASSUME NEW j \in Item
               PROVE  /\ queue'[j].state = "none" => sent[j] = 0
                      /\ queue'[j].state = "pending" =>
                           /\ queue'[j].attempts + 1 <= MaxAttempts
                           /\ sent[j] <= queue'[j].attempts + 1 + stops
                           /\ ~InFlight(j)' => sent[j] <= queue'[j].attempts + stops
                      /\ sent[j] <= MaxAttempts + stops
    BY <1>1, Zenon DEF SendsCounted
  <2>1. InFlight(j)' <=> InFlight(j)
    BY <1>1, Zenon DEF InFlight
  <2>2. CASE j = i
    BY <1>1, <1>3, <1>4, <2>2, DeliveryAssumption, SMTT(30)
       DEF DeliveryInv, SendsCounted, TypeOK
  <2>3. CASE j # i
    BY <1>4, <2>1, <2>3, Zenon DEF DeliveryInv, SendsCounted
  <2> QED
    BY <2>2, <2>3, Zenon
<1>10. QueueSound'
  <2>1. Pending(queue') = Pending(queue) \cup {i}
    BY <1>3, <1>4 DEF Pending
  <2>2. IsFiniteSet(Pending(queue)) /\ Cardinality(Pending(queue)) \in Nat
    BY FS_CardinalityType DEF DeliveryInv, QueueSound
  <2>3. /\ IsFiniteSet(Pending(queue'))
        /\ \/ Cardinality(Pending(queue')) = Cardinality(Pending(queue))
           \/ Cardinality(Pending(queue')) = Cardinality(Pending(queue)) + 1
    BY <2>1, <2>2, FS_AddElement, SMTT(30)
  <2>4. Cardinality(Pending(queue')) <= MaxQueueItems
    BY <1>1, <2>2, <2>3, DeliveryAssumption, SMTT(30)
  <2>5. \A j, k \in Item :
          queue'[j].webhook = queue'[k].webhook /\ queue'[j] # NoItem => j = k
    BY <1>1, <1>3, <1>4 DEF DeliveryInv, QueueSound, QueueBounded
  <2> QED
    BY <2>3, <2>4, <2>5 DEF QueueSound, QueueBounded
<1> QED
  BY <1>5, <1>6, <1>7, <1>8, <1>9, <1>10, Zenon DEF DeliveryInv

\* A stop, of one pass or of the process: an attempt in flight is forgotten, and
\* the stop is counted for it.
LEMMA StopStep ==
  ASSUME DeliveryInv, Crash \/ \E p \in Proc : Abort(p) PROVE DeliveryInv'
<1>1. PICK p \in Proc : pass[p].pc # "idle"
  BY DEF Crash, Abort
<1>2. \A q \in Proc : q # p => pass[q].pc = "idle"
  BY <1>1, ThePass
<1>3. /\ stops' = stops + 1 /\ mu' = "none"
      /\ UNCHANGED <<queue, audited, now, sent, accepted>>
  BY DEF Crash, Abort, Return
<1>4. \A q \in Proc : pass'[q].pc = "idle"
  BY <1>1, <1>2, IdleRecord DEF Crash, Abort, Return, DeliveryInv, TypeOK
<1>5. pass' \in [Proc -> Pass]
  BY IdleRecord DEF Crash, Abort, Return, DeliveryInv, TypeOK
<1>6. TypeOK'
  BY <1>3, <1>5, SMTT(30) DEF DeliveryInv, TypeOK
<1>7. Serialized' /\ PassesSound'
  BY <1>4, Zenon DEF Serialized, PassesSound, PassSound
<1>8. OutcomeTruthful' /\ QueueSound'
  BY <1>3, Zenon DEF DeliveryInv, OutcomeTruthful, QueueSound, QueueBounded, Pending
<1>9. SendsCounted'
  <2> SUFFICES ASSUME NEW j \in Item
               PROVE  /\ queue[j].state = "none" => sent[j] = 0
                      /\ queue[j].state = "pending" =>
                           /\ queue[j].attempts + 1 <= MaxAttempts
                           /\ sent[j] <= queue[j].attempts + 1 + stops'
                           /\ sent[j] <= queue[j].attempts + stops'
                      /\ sent[j] <= MaxAttempts + stops'
    BY <1>3 DEF SendsCounted
  <2>1. queue[j].attempts \in Nat /\ stops \in Nat /\ sent[j] \in Nat /\ MaxAttempts \in Nat
    BY DeliveryAssumption DEF DeliveryInv, TypeOK, QueueItem
  <2> QED
    BY <1>3, <2>1, SMTT(30) DEF DeliveryInv, SendsCounted
<1> QED
  BY <1>6, <1>7, <1>8, <1>9 DEF DeliveryInv

\* Time passes, or nothing happens.
LEMMA ClockStep ==
  ASSUME DeliveryInv, Tick \/ UNCHANGED vars PROVE DeliveryInv'
<1>1. UNCHANGED <<queue, audited, mu, pass, sent, accepted, stops>> /\ now' \in Nat
  BY DEF Tick, vars, history, DeliveryInv, TypeOK
<1>2. TypeOK' /\ Serialized' /\ OutcomeTruthful' /\ QueueSound'
  BY <1>1, Zenon
     DEF DeliveryInv, TypeOK, Serialized, OutcomeTruthful, QueueSound, QueueBounded, Pending
<1>3. PassesSound'
  BY <1>1 DEF DeliveryInv, PassesSound, PassSound
<1>4. SendsCounted'
  BY <1>1, SendsKept, Zenon DEF InFlight
<1> QED
  BY <1>2, <1>3, <1>4 DEF DeliveryInv

\* A pass over an expired item.
LEMMA ExpireItemStep ==
  ASSUME DeliveryInv, NEW p \in Proc, ExpireItem(p) PROVE DeliveryInv'
BY TerminalStep DEF ExpireItem

-----------------------------------------------------------------------------
(* Theorems                                                                *)

\* The invariant holds of the queue and the dispatcher in every behaviour.
THEOREM DeliveryInvariance == Spec => []DeliveryInv
<1>1. Init => DeliveryInv
  <2> SUFFICES ASSUME Init PROVE DeliveryInv
    OBVIOUS
  <2>1. TypeOK
    BY IdleRecord, Zenon DEF Init, TypeOK, NoItem, QueueItem, DeliveryState
  <2>2. Serialized /\ PassesSound
    BY IdleRecord DEF Init, Serialized, PassesSound, PassSound
  <2>3. OutcomeTruthful
    BY DEF Init, OutcomeTruthful, NoItem
  <2>4. SendsCounted
    BY DeliveryAssumption DEF Init, SendsCounted, NoItem
  <2>5. Pending(queue) = {}
    BY DEF Init, Pending, NoItem
  <2>6. QueueSound
    <3>1. IsFiniteSet(Pending(queue)) /\ Cardinality(Pending(queue)) = 0
      BY <2>5, FS_EmptySet
    <3>2. 0 <= MaxQueueItems
      BY DeliveryAssumption
    <3>3. \A i \in Item : queue[i] = NoItem
      BY DEF Init
    <3> QED
      BY <3>1, <3>2, <3>3 DEF QueueSound, QueueBounded
  <2> QED
    BY <2>1, <2>2, <2>3, <2>4, <2>6 DEF DeliveryInv
<1>2. DeliveryInv /\ [Next]_vars => DeliveryInv'
  <2> SUFFICES ASSUME DeliveryInv, [Next]_vars PROVE DeliveryInv'
    OBVIOUS
  <2>1. ASSUME NEW p \in Proc, Step(p) PROVE DeliveryInv'
    BY <2>1, LocalSteps, ExpireItemStep, SendStep, MarkDeliveredStep, RetryOrFailStep DEF Step
  <2> QED
    BY <2>1, EnqueueStep, DeliverDueStep, StopStep, ClockStep DEF Next
<1> QED
  BY <1>1, <1>2, PTL DEF Spec

\* Passes do not interfere: the copies a pass works on stay the stored items.
THEOREM PassesDoNotInterfere == Spec => []PassIsCurrent
<1>1. DeliveryInv => PassIsCurrent
  BY DEF DeliveryInv, PassesSound, PassSound, PassIsCurrent
<1> QED
  BY <1>1, DeliveryInvariance, PTL

\* Every variable keeps its type (in particular retryOrFail schedules the next
\* attempt at a number, whatever the recursion of backoff), and a goroutine that is
\* in a pass of DeliverDue has the mutex, so that no two are.
THEOREM DeliveryTypes == Spec => [](TypeOK /\ Serialized)
<1>1. DeliveryInv => TypeOK /\ Serialized
  BY DEF DeliveryInv
<1> QED
  BY <1>1, DeliveryInvariance, PTL

\* The outcomes in the queue are what happened.
THEOREM OutcomesTruthful == Spec => []OutcomeTruthful
<1>1. DeliveryInv => OutcomeTruthful
  BY Zenon DEF DeliveryInv
<1> QED
  BY <1>1, DeliveryInvariance, PTL

\* Sends are bounded by MaxAttempts and the number of stopped passes.
THEOREM SendsStayBounded == Spec => []SendsBounded
<1>1. DeliveryInv => SendsBounded
  BY DEF DeliveryInv, SendsCounted, SendsBounded
<1> QED
  BY <1>1, DeliveryInvariance, PTL

\* The queue stays within MaxQueueItems, and webhook IDs are not shared.
THEOREM QueueStaysBounded == Spec => []QueueBounded
<1>1. DeliveryInv => QueueBounded
  BY DEF DeliveryInv, QueueSound
<1> QED
  BY <1>1, DeliveryInvariance, PTL

-----------------------------------------------------------------------------
(* Refinement                                                              *)

outcome == [i \in Item |-> queue[i].state]

\* A result for one item changes its outcome and no other.
LEMMA OutcomeChange ==
  ASSUME TypeOK, NEW i \in Item, NEW r, queue' = [queue EXCEPT ![i] = r]
  PROVE  outcome' = [outcome EXCEPT ![i] = r.state]
<1>1. \A j \in Item : queue'[j] = IF j = i THEN r ELSE queue[j]
  BY DEF TypeOK
<1>2. outcome' = [j \in Item |-> queue'[j].state]
  BY DEF outcome
<1>3. [outcome EXCEPT ![i] = r.state] =
        [j \in Item |-> IF j = i THEN r.state ELSE queue[j].state]
  BY ZenonT(30) DEF outcome
<1>4. ASSUME NEW j \in Item
      PROVE  queue'[j].state = IF j = i THEN r.state ELSE queue[j].state
  <2>1. CASE j = i
    <3>1. queue'[j] = r
      BY <1>1, <2>1
    <3> QED
      BY <2>1, <3>1
  <2>2. CASE j # i
    <3>1. queue'[j] = queue[j]
      BY <1>1, <2>2
    <3> QED
      BY <2>2, <3>1
  <2> QED
    BY <2>1, <2>2
<1> QED
  BY <1>2, <1>3, <1>4, Zenon

\* markTerminal gives a pending item up.
LEMMA TerminalGivesUp ==
  ASSUME DeliveryInv, NEW p \in Proc, pass[p].pc \in {"pick", "retry"},
         pass[p].todo # {}, NEW state \in {"failed", "expired"},
         MarkTerminal(p, Current(pass[p]), state), UNCHANGED accepted
  PROVE  \E i \in Item : Promise!GiveUp(i)
<1> DEFINE i == Current(pass[p])
<1>1. i \in Item /\ queue[i] \in QueueItem /\ queue[i].state = "pending"
  BY ThePass DEF PassSound, DeliveryInv, TypeOK
<1>2. PICK r : r = [queue[i] EXCEPT !.state = state]
  BY ZenonT(30)
<1>3. queue' = [queue EXCEPT ![i] = r] /\ r.state = state
  BY <1>1, <1>2 DEF MarkTerminal, QueueItem
<1>4. outcome' = [outcome EXCEPT ![i] = state]
  BY <1>1, <1>3, OutcomeChange, ZenonT(30) DEF DeliveryInv
<1>5. outcome[i] = "pending"
  BY <1>1 DEF outcome
<1> QED
  BY <1>1, <1>4, <1>5, ZenonT(30) DEF Promise!GiveUp, Promise!Become, outcome

\* Every step is one of the promise, or changes nothing that it speaks of.
LEMMA StepPromised ==
  ASSUME DeliveryInv, [Next]_vars
  PROVE  (\E i \in Item : \/ Promise!Accept(i) \/ Promise!Confirm(i)
                          \/ Promise!Deliver(i) \/ Promise!GiveUp(i))
         \/ UNCHANGED <<outcome, accepted>>
<1> DEFINE Kept == UNCHANGED <<outcome, accepted>>
<1>1. ASSUME UNCHANGED <<queue, accepted>> PROVE Kept
  BY <1>1 DEF outcome
<1>2. ASSUME NEW i \in Item, NEW w \in WebhookID, NEW x \in Expiries, Enqueue(i, w, x)
      PROVE  Promise!Accept(i)
  <2>1. PICK t \in 1 .. now :
          queue' = [queue EXCEPT ![i] = [state |-> "pending", webhook |-> w,
                                         attempts |-> 0, next |-> t, expires |-> x]]
    BY <1>2, ZenonT(30) DEF Enqueue
  <2>2. outcome' = [outcome EXCEPT ![i] = "pending"]
    <3>1. PICK r : r = [state |-> "pending", webhook |-> w,
                        attempts |-> 0, next |-> t, expires |-> x]
      BY ZenonT(30)
    <3>2. queue' = [queue EXCEPT ![i] = r] /\ r.state = "pending"
      BY <2>1, <3>1
    <3> QED
      BY <3>2, OutcomeChange, ZenonT(30) DEF DeliveryInv
  <2>3. outcome[i] = "none" /\ UNCHANGED accepted
    BY <1>2 DEF Enqueue, outcome, history
  <2> QED
    BY <2>2, <2>3 DEF Promise!Accept, Promise!Become, outcome
<1>3. ASSUME NEW p \in Proc, Send(p)
      PROVE  (\E i \in Item : Promise!Confirm(i)) \/ Kept
  <2> DEFINE i == Current(pass[p])
  <2>1. i \in Item /\ queue[i].state = "pending"
    BY <1>3, ThePass, Zenon DEF Send, PassSound
  <2>2. UNCHANGED outcome /\ accepted' \in {accepted, accepted \cup {i}}
    BY <1>3, Zenon DEF Send, outcome
  <2>3. outcome[i] = "pending"
    BY <2>1 DEF outcome
  <2> QED
    BY <2>1, <2>2, <2>3 DEF Promise!Confirm, outcome
<1>4. ASSUME NEW p \in Proc, MarkDelivered(p)
      PROVE  (\E i \in Item : Promise!Deliver(i)) \/ Kept
  <2> DEFINE i == Current(pass[p])
  <2>1. i \in Item /\ queue[i] \in QueueItem /\ queue[i].state = "pending" /\ i \in accepted
    BY <1>4, ThePass DEF MarkDelivered, PassSound, DeliveryInv, TypeOK
  <2>2. CASE UNCHANGED queue
    BY <1>1, <1>4, <2>2, Zenon DEF MarkDelivered, history
  <2>3. CASE queue' = [queue EXCEPT ![i] =
               [queue[i] EXCEPT !.state = "delivered", !.attempts = queue[i].attempts + 1]]
    <3>1. PICK r : r = [queue[i] EXCEPT !.state = "delivered",
                                        !.attempts = queue[i].attempts + 1]
      OBVIOUS
    <3>2. outcome' = [outcome EXCEPT ![i] = "delivered"]
      <4>1. queue' = [queue EXCEPT ![i] = r] /\ r.state = "delivered"
        BY <2>1, <2>3, <3>1 DEF QueueItem
      <4> QED
        BY <2>1, <4>1, OutcomeChange, ZenonT(30) DEF DeliveryInv
    <3>3. outcome[i] = "pending" /\ UNCHANGED accepted
      BY <1>4, <2>1 DEF outcome, MarkDelivered, history
    <3> QED
      BY <2>1, <3>2, <3>3, ZenonT(30) DEF Promise!Deliver, Promise!Become, outcome
  <2> QED
    BY <1>4, <2>2, <2>3 DEF MarkDelivered
<1>5. ASSUME NEW p \in Proc, RetryOrFail(p) \/ ExpireItem(p)
      PROVE  (\E i \in Item : Promise!GiveUp(i)) \/ Kept
  <2> DEFINE i == Current(pass[p])
  <2>1. /\ pass[p].pc \in {"pick", "retry"} /\ pass[p].todo # {}
        /\ i \in Item /\ queue[i] \in QueueItem /\ queue[i].state = "pending"
        /\ UNCHANGED accepted
    BY <1>5, ThePass DEF RetryOrFail, ExpireItem, PassSound, DeliveryInv, TypeOK, history
  <2>2. CASE MarkTerminal(p, i, "failed") \/ MarkTerminal(p, i, "expired")
    BY <2>1, <2>2, TerminalGivesUp
  <2>3. ASSUME NEW n, NEW t,
               queue' = [queue EXCEPT ![i] = [queue[i] EXCEPT !.attempts = n, !.next = t]]
        PROVE  Kept
    <3>1. PICK r : r = [queue[i] EXCEPT !.attempts = n, !.next = t]
      OBVIOUS
    <3>2. outcome' = [outcome EXCEPT ![i] = "pending"]
      <4>1. queue' = [queue EXCEPT ![i] = r] /\ r.state = "pending"
        BY <2>1, <2>3, <3>1 DEF QueueItem
      <4>2. i \in Item /\ TypeOK
        BY <2>1 DEF DeliveryInv
      <4> HIDE DEF i
      <4>3. outcome' = [outcome EXCEPT ![i] = r.state]
        BY <4>1, <4>2, OutcomeChange, ZenonT(30)
      <4> QED
        BY <4>1, <4>3
    <3> QED
      BY <2>1, <3>2, ZenonT(30) DEF outcome
  <2> QED
    BY <1>5, <2>1, <2>2, <2>3, ZenonT(30) DEF RetryOrFail, ExpireItem
<1>6. ASSUME NEW p \in Proc,
             \/ DeliverDue(p) \/ PendingItems(p) \/ PickItem(p) \/ Finish(p)
             \/ Unlock(p) \/ Abort(p)
      PROVE  Kept
  BY <1>1, <1>6 DEF DeliverDue, PendingItems, PickItem, Finish, Unlock, Abort, history
<1>7. ASSUME Crash \/ Tick \/ UNCHANGED vars PROVE Kept
  BY <1>1, <1>7 DEF Crash, Tick, vars, history
<1> HIDE DEF Kept
<1>8. ASSUME NEW p \in Proc, Step(p)
      PROVE  \/ \E i \in Item : Promise!Confirm(i) \/ Promise!Deliver(i) \/ Promise!GiveUp(i)
             \/ Kept
  BY <1>3, <1>4, <1>5, <1>6, <1>8 DEF Step
<1>9. \/ \E i \in Item : \/ Promise!Accept(i) \/ Promise!Confirm(i)
                         \/ Promise!Deliver(i) \/ Promise!GiveUp(i)
      \/ Kept
  <2>1. CASE \E i \in Item, w \in WebhookID, x \in Expiries : Enqueue(i, w, x)
    BY <1>2, <2>1
  <2>2. CASE \E p \in Proc : DeliverDue(p) \/ Step(p) \/ Abort(p)
    <3>1. PICK p \in Proc : DeliverDue(p) \/ Step(p) \/ Abort(p)
      BY <2>2
    <3>2. CASE Step(p)
      BY <1>8, <3>2
    <3>3. CASE DeliverDue(p) \/ Abort(p)
      BY <1>6, <3>3
    <3> QED
      BY <3>1, <3>2, <3>3
  <2>3. CASE Crash \/ Tick \/ UNCHANGED vars
    BY <1>7, <2>3
  <2> QED
    BY <2>1, <2>2, <2>3 DEF Next
<1> QED
  BY <1>9 DEF Kept

\* The queue and the dispatcher implement the promise: an item is accepted once
\* and ends once, as delivered only when its receiver confirmed it.
THEOREM DeliveryImplementsPromise == Spec => KeepsPromise
<1>1. Init => Promise!Init
  BY DEF Init, Promise!Init, NoItem
<1>2. DeliveryInv /\ [Next]_vars => [Promise!Next]_<<outcome, accepted>>
  BY StepPromised DEF Promise!Next
<1> QED
  BY <1>1, <1>2, DeliveryInvariance, PTL DEF Spec, KeepsPromise, Promise!Spec, outcome
=============================================================================
