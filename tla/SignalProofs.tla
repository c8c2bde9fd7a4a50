---------------------------- MODULE SignalProofs ----------------------------
(***************************************************************************)
(* What becomes of signals, for every value of the constants: the          *)
(* correlator makes incidents of them, and the ingress takes an external   *)
(* alert again only when its receipt has expired.                          *)
(***************************************************************************)
EXTENDS Ingress, Correlation, TLAPS

-----------------------------------------------------------------------------
(* The record of an incident                                               *)

Inputs == {s.input : s \in Signals}

\* A record: SeenInputs holds the inputs of the last signals taken, as many as it
\* may, and a signal that it held was not taken again.
Memory(seen, a) ==
  LET m == Len(seen)
      n == Len(a)
  IN  /\ m \in 1..MaxSeenInputs /\ m <= n /\ m \in {MaxSeenInputs, n}
      /\ \A i \in 1..m : seen[i] = a[n - m + i].input
      /\ \A i, j \in 1..n : i < j /\ a[i].input = a[j].input => j - i > MaxSeenInputs

\* The signals a that close an incident, and those that fail it.
Closes(a) ==
  \/ Len(a) >= 2 /\ ~a[1].healthy /\ a[2].healthy
  \/ \E n \in 3..(Len(a) - 2) :
       /\ \A i \in 1..(n - 1) : ~a[i].healthy
       /\ a[n].healthy /\ a[n + 1].healthy /\ a[n + 2].healthy

Fails(a) ==
  \E n \in 3..(Len(a) - 1) :
    /\ \A i \in 1..(n - 1) : ~a[i].healthy
    /\ a[n].healthy
    /\ ~a[n + 1].healthy \/ (n + 2 <= Len(a) /\ ~a[n + 2].healthy)

\* The state of a record is where its signals have led it.
Progress(state, a) ==
  LET n == Len(a)
  IN  /\ n >= 1 /\ ~a[1].healthy
      /\ state = "open" => n = 1
      /\ state = "analyzing" => n >= 2 /\ \A i \in 1..n : ~a[i].healthy
      /\ state = "recovering" =>
           n >= 3 /\ (\A i \in 1..(n - 1) : ~a[i].healthy) /\ a[n].healthy
      /\ state = "stabilizing" =>
           n >= 4 /\ (\A i \in 1..(n - 2) : ~a[i].healthy) /\ a[n - 1].healthy /\ a[n].healthy
      /\ state = "closed" => Closes(a)
      /\ state = "failed" => Fails(a)

Standing == {<<"candidate", "open">>, <<"confirmed", "analyzing">>,
             <<"recovering", "recovering">>, <<"recovering", "stabilizing">>,
             <<"terminal", "closed">>, <<"terminal", "failed">>}

\* A signal that the incident of window k, which opened at opened, may take.
Belongs(s, k, opened) == Correlator!DedupeKey(s) = k \/ (s.healthy /\ s.at >= opened)

\* The record of the window k.
RecordSound(k, r) ==
  /\ r \in Correlator!Incident
  /\ <<r.phase, r.state>> \in Standing
  /\ (r.phase = "terminal") <=> (r.terminal > 0)
  /\ Memory(r.seen, r.applied)
  /\ Progress(r.state, r.applied)
  /\ \A i \in 1..Len(r.applied) :
       Belongs(r.applied[i], k, r.opened)

\* The inductive invariant of the correlator.
CorrelatorInv ==
  /\ incidents \in [Correlator!Keys -> Correlator!Incident \cup {Correlator!NoIncident}]
  /\ \A k \in Correlator!Keys :
       incidents[k] # Correlator!NoIncident => RecordSound(k, incidents[k])

\* What the parts of a signal are.
LEMMA SignalParts ==
  ASSUME NEW s \in Signals
  PROVE  /\ s.at \in Nat \ {0} /\ s.healthy \in BOOLEAN /\ s.severity \in 1..3
         /\ s.input \in Inputs /\ Correlator!DedupeKey(s) \in Correlator!Keys
         /\ MaxSeenInputs \in Nat \ {0}
BY CorrelationAssumption DEF Correlator!CorrelatorAssumption, Inputs, Correlator!Keys

\* No signals close an incident and fail it as well, and none do so that leave it
\* open.
LEMMA CourseDecides ==
  ASSUME NEW a \in Seq(Signals), NEW state \in Correlator!IncidentState, Progress(state, a)
  PROVE  /\ Closes(a) => state = "closed"
         /\ Fails(a) => state = "failed"
<1>1. /\ Len(a) \in Nat /\ \A i \in 1..Len(a) : a[i] \in Signals
  OBVIOUS
<1>2. state \in {"open", "analyzing", "recovering", "stabilizing", "closed", "failed"}
  BY DEF Correlator!IncidentState
<1>3. ~(Closes(a) /\ Fails(a))
  BY <1>1 DEF Closes, Fails
<1>4. state \in {"open", "analyzing", "recovering", "stabilizing"} => ~Closes(a) /\ ~Fails(a)
  BY <1>1, SMTT(30) DEF Closes, Fails, Progress
<1> QED BY <1>2, <1>3, <1>4 DEF Progress

\* The course of a record is that of its signals.
LEMMA CourseOfSignals ==
  ASSUME NEW r, r.applied \in Seq(Signals)
  PROVE  /\ Correlator!ClosedCourse(Correlator!Course(r)) <=> Closes(r.applied)
         /\ Correlator!FailedCourse(Correlator!Course(r)) <=> Fails(r.applied)
<1> DEFINE a == r.applied
           c == Correlator!Course(r)
<1>1. /\ Len(a) \in Nat /\ DOMAIN a = 1..Len(a) /\ \A i \in 1..Len(a) : a[i] \in Signals
  OBVIOUS
<1>2. c = [i \in 1..Len(a) |-> a[i].healthy]
  BY <1>1 DEF Correlator!Course
<1>3. /\ c \in Seq(BOOLEAN) /\ Len(c) = Len(a)
      /\ \A i \in 1..Len(a) : c[i] = a[i].healthy
  BY <1>1, <1>2, SignalParts
<1> HIDE DEF c
<1>4. \A i \in 1..Len(a) : c[i] <=> a[i].healthy
  BY <1>3, Zenon
<1>5. /\ \A n \in 3..(Len(a) - 1) : {n, n + 1} \cup 1..(n - 1) \subseteq 1..Len(a)
      /\ \A n \in 3..Len(a) : n + 2 <= Len(a) => n + 2 \in 1..Len(a)
      /\ \A n \in 3..(Len(a) - 2) : {n, n + 1, n + 2} \cup 1..(n - 1) \subseteq 1..Len(a)
      /\ Len(a) >= 2 => 1 \in 1..Len(a) /\ 2 \in 1..Len(a)
  BY <1>1
<1>6. Correlator!ClosedCourse(c) <=> Closes(a)
  BY <1>3, <1>4, <1>5, Zenon DEF Correlator!ClosedCourse, Closes
<1>7. Correlator!FailedCourse(c) <=> Fails(a)
  <2>1. \A n \in 3..(Len(a) - 1) : n \in 3..Len(a)
    BY <1>1
  <2> QED BY <1>3, <1>4, <1>5, <2>1, Zenon DEF Correlator!FailedCourse, Fails
<1> QED BY <1>6, <1>7 DEF c

\* A record remembers an input that it has not seen, and stays as it has to be.
LEMMA Remembered ==
  ASSUME NEW seen \in Seq(Inputs), NEW a \in Seq(Signals), NEW s \in Signals, Memory(seen, a),
         ~Correlator!Contains(seen, s.input)
  PROVE  /\ Correlator!AppendBounded(seen, s.input) \in Seq(Inputs)
         /\ Memory(Correlator!AppendBounded(seen, s.input), Append(a, s))
<1> DEFINE m == Len(seen)
           n == Len(a)
           next == Correlator!AppendBounded(seen, s.input)
           b == Append(a, s)
<1>1. /\ m \in Nat /\ n \in Nat /\ m \in 1..MaxSeenInputs /\ m <= n /\ m \in {MaxSeenInputs, n}
      /\ s.input \in Inputs /\ MaxSeenInputs \in Nat \ {0} /\ seen # <<>>
  BY SignalParts DEF Memory
<1>2. /\ b \in Seq(Signals) /\ Len(b) = n + 1 /\ b[n + 1] = s
      /\ \A i \in 1..n : b[i] = a[i]
  BY <1>1
<1>0. \A i \in 1..m : seen[i] = a[n - m + i].input
  BY Zenon DEF Memory
<1>3. \A i \in 1..m : seen[i] # s.input
  BY DEF Correlator!Contains
<1>4. \A i \in 1..n : i > n - m => b[i].input # s.input
  <2> SUFFICES ASSUME NEW i \in 1..n, i > n - m PROVE b[i].input # s.input
    OBVIOUS
  <2>1. PICK k \in 1..m : n - m + k = i
    <3>1. i - (n - m) \in 1..m /\ n - m + (i - (n - m)) = i
      BY <1>1
    <3> QED BY <3>1, Zenon
  <2>2. seen[k] = a[i].input
    BY <1>0, <2>1, Zenon
  <2> QED BY <1>2, <1>3, <2>1, <2>2
<1>5. \A i, j \in 1..(n + 1) : i < j /\ b[i].input = b[j].input => j - i > MaxSeenInputs
  <2> SUFFICES ASSUME NEW i \in 1..(n + 1), NEW j \in 1..(n + 1), i < j, b[i].input = b[j].input
               PROVE  j - i > MaxSeenInputs
    OBVIOUS
  <2>1. CASE j = n + 1
    BY <1>1, <1>2, <1>4, <2>1
  <2>2. CASE j # n + 1
    <3>1. i \in 1..n /\ j \in 1..n
      BY <1>1, <2>2, SMTT(30)
    <3>2. b[i] = a[i] /\ b[j] = a[j]
      BY <1>2, <3>1
    <3> QED BY <3>1, <3>2, Zenon DEF Memory
  <2> QED BY <2>1, <2>2
<1>6. CASE m < MaxSeenInputs
  <2>1. next = Append(seen, s.input) /\ m = n
    BY <1>1, <1>6 DEF Correlator!AppendBounded
  <2>2. /\ next \in Seq(Inputs) /\ Len(next) = m + 1 /\ next[m + 1] = s.input
        /\ \A i \in 1..m : next[i] = seen[i]
    BY <1>1, <2>1
  <2>3. \A i \in 1..(m + 1) : next[i] = b[i].input
    BY <1>1, <1>2, <2>1, <2>2 DEF Memory
  <2> HIDE DEF next, b
  <2> QED BY <1>1, <1>2, <1>5, <1>6, <2>1, <2>2, <2>3 DEF Memory, next, b
<1>7. CASE m >= MaxSeenInputs
  <2>1. next = Append(Tail(seen), s.input) /\ m = MaxSeenInputs
    BY <1>1, <1>7 DEF Correlator!AppendBounded
  <2>2. /\ Tail(seen) \in Seq(Inputs) /\ Len(Tail(seen)) = m - 1
        /\ \A i \in 1..(m - 1) : Tail(seen)[i] = seen[i + 1]
    BY <1>1
  <2>3. /\ next \in Seq(Inputs) /\ Len(next) = m /\ next[m] = s.input
        /\ \A i \in 1..(m - 1) : next[i] = seen[i + 1]
    BY <1>1, <2>1, <2>2
  <2>4. \A i \in 1..m : next[i] = b[n + 1 - m + i].input
    <3> SUFFICES ASSUME NEW i \in 1..m PROVE next[i] = b[n + 1 - m + i].input
      BY Zenon
    <3>1. CASE i = m
      BY <1>1, <1>2, <2>3, <3>1
    <3>2. CASE i # m
      <4>1. PICK k \in 1..m : k = i + 1 /\ n - m + k \in 1..n /\ n + 1 - m + i = n - m + k
        BY <1>1, <3>2
      <4>2. seen[k] = a[n - m + k].input
        BY <1>0, Zenon
      <4>3. next[i] = seen[k] /\ b[n - m + k] = a[n - m + k]
        BY <1>2, <2>3, <3>2, <4>1
      <4> QED BY <4>1, <4>2, <4>3
    <3> QED BY <3>1, <3>2, Zenon
  <2> HIDE DEF next, b
  <2>5. \A i \in 1..Len(next) : next[i] = b[Len(b) - Len(next) + i].input
    <3> SUFFICES ASSUME NEW i \in 1..Len(next) PROVE next[i] = b[Len(b) - Len(next) + i].input
      OBVIOUS
    <3>1. i \in 1..m /\ Len(b) - Len(next) + i = n + 1 - m + i
      BY <1>1, <1>2, <2>3
    <3> QED BY <2>4, <3>1, Zenon
  <2>6. /\ Len(next) \in 1..MaxSeenInputs /\ Len(next) <= Len(b)
        /\ Len(next) \in {MaxSeenInputs, Len(b)}
    BY <1>1, <1>2, <2>1, <2>3
  <2>7. \A i, j \in 1..Len(b) : i < j /\ b[i].input = b[j].input => j - i > MaxSeenInputs
    BY <1>2, <1>5, Zenon
  <2>8. Memory(next, b)
    BY <2>5, <2>6, <2>7, Zenon DEF Memory
  <2> QED BY <2>3, <2>8 DEF next, b
<1> QED BY <1>1, <1>6, <1>7

\* Where one more signal leads an incident.
Follow(state, healthy) ==
  CASE state \in {"closed", "failed"} -> state
    [] state = "open" -> IF healthy THEN "closed" ELSE "analyzing"
    [] state = "analyzing" -> IF healthy THEN "recovering" ELSE "analyzing"
    [] state = "recovering" -> IF healthy THEN "stabilizing" ELSE "failed"
    [] state = "stabilizing" -> IF healthy THEN "closed" ELSE "failed"

\* One more signal leads the incident where its signals lead.
LEMMA Progressed ==
  ASSUME NEW state \in Correlator!IncidentState, NEW a \in Seq(Signals), NEW s \in Signals,
         Progress(state, a)
  PROVE  Progress(Follow(state, s.healthy), Append(a, s))
<1> DEFINE n == Len(a)
           b == Append(a, s)
           next == Follow(state, s.healthy)
<1>1. /\ n \in Nat /\ Len(b) = n + 1 /\ b[n + 1] = s /\ \A i \in 1..n : b[i] = a[i]
      /\ n >= 1 /\ ~a[1].healthy
  BY DEF Progress
<1>2. state \in {"open", "analyzing", "recovering", "stabilizing", "closed", "failed"}
  BY DEF Correlator!IncidentState
<1>3. Closes(a) => Closes(b)
  BY <1>1 DEF Closes
<1>4. Fails(a) => Fails(b)
  BY <1>1 DEF Fails
<1>0. Len(b) >= 1 /\ ~b[1].healthy
  BY <1>1
<1> SUFFICES Progress(next, b)
  OBVIOUS
<1> HIDE DEF b, next
<1>5. CASE state \in {"closed", "failed"}
  <2>1. next = state
    BY <1>5 DEF Follow, next
  <2> QED BY <1>0, <1>1, <1>3, <1>4, <1>5, <2>1 DEF Progress
<1>6. CASE state = "open"
  <2>1. n = 1 /\ next = IF s.healthy THEN "closed" ELSE "analyzing"
    BY <1>6 DEF Progress, Follow, next
  <2>2. s.healthy => Closes(b)
    BY <1>1, <2>1 DEF Closes
  <2> QED BY <1>0, <1>1, <2>1, <2>2 DEF Progress
<1>7. CASE state = "analyzing"
  <2>1. /\ n >= 2 /\ \A i \in 1..n : ~b[i].healthy
        /\ next = IF s.healthy THEN "recovering" ELSE "analyzing"
    BY <1>1, <1>7 DEF Progress, Follow, next
  <2> QED BY <1>0, <1>1, <2>1 DEF Progress
<1>8. CASE state = "recovering"
  <2>1. /\ n >= 3 /\ (\A i \in 1..(n - 1) : ~b[i].healthy) /\ b[n].healthy
        /\ next = IF s.healthy THEN "stabilizing" ELSE "failed"
    BY <1>1, <1>8 DEF Progress, Follow, next
  <2>2. ~s.healthy => Fails(b)
    BY <1>1, <2>1 DEF Fails
  <2> QED BY <1>0, <1>1, <2>1, <2>2 DEF Progress
<1>9. CASE state = "stabilizing"
  <2>0. /\ n >= 4 /\ (\A i \in 1..(n - 2) : ~a[i].healthy) /\ a[n - 1].healthy /\ a[n].healthy
        /\ next = IF s.healthy THEN "closed" ELSE "failed"
    BY <1>9 DEF Progress, Follow, next
  <2>1. n >= 4 /\ (\A i \in 1..(n - 2) : ~b[i].healthy) /\ b[n - 1].healthy /\ b[n].healthy
    <3>1. n - 1 \in 1..n /\ n \in 1..n /\ \A i \in 1..(n - 2) : i \in 1..n
      BY <1>1, <2>0
    <3> QED BY <1>1, <2>0, <3>1, Zenon
  <2>2. PICK first \in 3..(n - 1) : first = n - 1
    <3>1. n - 1 \in 3..(n - 1)
      BY <1>1, <2>0
    <3> QED BY <3>1
  <2>3. /\ \A i \in 1..(first - 1) : ~b[i].healthy
        /\ b[first].healthy /\ b[first + 1].healthy /\ b[first + 2] = s
        /\ first \in 3..(Len(b) - 2)
    BY <1>1, <2>1, <2>2
  <2>4. ~s.healthy => Fails(b)
    BY <1>1, <2>3 DEF Fails
  <2>5. s.healthy => Closes(b)
    BY <1>1, <2>3 DEF Closes
  <2> QED BY <1>0, <1>1, <2>0, <2>4, <2>5 DEF Progress
<1> QED BY <1>2, <1>5, <1>6, <1>7, <1>8, <1>9

\* The phases in their order.
Rank(p) == CASE p = "candidate" -> 1 [] p = "confirmed" -> 2
             [] p = "recovering" -> 3 [] p = "terminal" -> 4

\* A record goes on from r to next.
Forward(r, next) ==
  /\ Rank(r.phase) <= Rank(next.phase)
  /\ r.severity <= next.severity
  /\ r.opened = next.opened
  /\ r.phase = "terminal" => /\ next.state = r.state /\ next.severity = r.severity
                             /\ next.terminal = r.terminal

\* The record next has what r has, but for phase, state and terminal time.
Keeps(r, next) ==
  /\ next \in Correlator!Incident
  /\ next.seen = r.seen /\ next.applied = r.applied
  /\ next.opened = r.opened /\ next.severity = r.severity

\* advance leads a record where its signal leads, and never back.
LEMMA Advanced ==
  ASSUME NEW r \in Correlator!Incident, NEW s \in Signals, <<r.phase, r.state>> \in Standing,
         (r.phase = "terminal") <=> (r.terminal > 0)
  PROVE  LET next == Correlator!Advance(r, s)
         IN  /\ next \in Correlator!Incident
             /\ next.seen = r.seen /\ next.applied = r.applied
             /\ next.state = Follow(r.state, s.healthy)
             /\ <<next.phase, next.state>> \in Standing
             /\ (next.phase = "terminal") <=> (next.terminal > 0)
             /\ Forward(r, next)
<1> DEFINE raised == IF s.severity > r.severity THEN [r EXCEPT !.severity = s.severity] ELSE r
           next == Correlator!Advance(r, s)
           state == Follow(r.state, s.healthy)
<1>1. s.at \in Nat \ {0} /\ s.severity \in 1..3 /\ s.healthy \in BOOLEAN
  BY SignalParts
<1>2. /\ raised \in Correlator!Incident /\ raised.severity >= r.severity
      /\ raised.seen = r.seen /\ raised.applied = r.applied /\ raised.opened = r.opened
      /\ raised.phase = r.phase /\ raised.state = r.state /\ raised.terminal = r.terminal
  <2>1. CASE s.severity > r.severity
    BY <1>1, <2>1, SMTT(30) DEF Correlator!Incident
  <2>2. CASE ~(s.severity > r.severity)
    BY <2>2 DEF Correlator!Incident
  <2> QED BY <2>1, <2>2
<1>3. next = IF r.phase = "terminal" THEN r
             ELSE IF s.healthy THEN Correlator!AdvanceHealthy(raised, s.at)
             ELSE Correlator!AdvanceUnhealthy(raised, s.at)
  BY DEF Correlator!Advance
<1>4. /\ Rank("candidate") = 1 /\ Rank("confirmed") = 2 /\ Rank("recovering") = 3
      /\ Rank("terminal") = 4 /\ r.terminal \in Nat /\ r.severity \in 1..3
  BY DEF Rank, Correlator!Incident
<1>5. s.at \in Nat /\ "terminal" \in Correlator!Phase /\ "confirmed" \in Correlator!Phase
      /\ "recovering" \in Correlator!Phase
      /\ {"open", "analyzing", "recovering", "stabilizing", "closed", "failed"}
           \subseteq Correlator!IncidentState
  BY <1>1 DEF Correlator!Phase, Correlator!IncidentState
<1> SUFFICES /\ next \in Correlator!Incident
             /\ next.seen = r.seen /\ next.applied = r.applied
             /\ next.state = state
             /\ <<next.phase, next.state>> \in Standing
             /\ (next.phase = "terminal") <=> (next.terminal > 0)
             /\ Forward(r, next)
  OBVIOUS
<1> HIDE DEF raised, next, state
<1>6. CASE r.phase = "terminal"
  <2>1. next = r /\ state = r.state
    BY <1>3, <1>6 DEF Standing, Follow, state
  <2> QED BY <1>4, <1>6, <2>1 DEF Forward
<1>7. CASE r.phase # "terminal" /\ s.healthy
  <2>1. next = Correlator!AdvanceHealthy(raised, s.at)
    BY <1>3, <1>7
  <2>2. CASE r.phase = "candidate"
    <3>1. next = Correlator!End(raised, "closed", s.at) /\ r.state = "open" /\ state = "closed"
      BY <1>2, <1>7, <2>1, <2>2 DEF Correlator!AdvanceHealthy, Standing, Follow, state
    <3>2. /\ Keeps(raised, next) /\ next.phase = "terminal" /\ next.state = "closed"
          /\ next.terminal = s.at
      BY <1>2, <1>5, <3>1, Zenon DEF Keeps, Correlator!Incident, Correlator!End
    <3> QED BY <1>1, <1>2, <1>4, <2>2, <3>1, <3>2 DEF Keeps, Standing, Forward
  <2>3. CASE r.phase = "confirmed"
    <3>1. /\ next = [raised EXCEPT !.phase = "recovering", !.state = "recovering"]
          /\ r.state = "analyzing" /\ state = "recovering"
      BY <1>2, <1>7, <2>1, <2>3 DEF Correlator!AdvanceHealthy, Standing, Follow, state
    <3>2. /\ Keeps(raised, next) /\ next.phase = "recovering" /\ next.state = "recovering"
          /\ next.terminal = r.terminal
      BY <1>2, <1>5, <3>1, Zenon DEF Keeps, Correlator!Incident, Correlator!End
    <3> QED BY <1>1, <1>2, <1>4, <2>3, <3>1, <3>2 DEF Keeps, Standing, Forward
  <2>4. CASE r.phase = "recovering" /\ r.state = "recovering"
    <3>1. next = [raised EXCEPT !.state = "stabilizing"] /\ state = "stabilizing"
      BY <1>2, <1>7, <2>1, <2>4 DEF Correlator!AdvanceHealthy, Standing, Follow, state
    <3>2. /\ Keeps(raised, next) /\ next.phase = "recovering" /\ next.state = "stabilizing"
          /\ next.terminal = r.terminal
      BY <1>2, <1>5, <2>4, <3>1 DEF Keeps, Correlator!Incident
    <3> QED BY <1>1, <1>2, <1>4, <2>4, <3>1, <3>2 DEF Keeps, Standing, Forward
  <2>5. CASE r.phase = "recovering" /\ r.state = "stabilizing"
    <3>1. next = Correlator!End(raised, "closed", s.at) /\ state = "closed"
      BY <1>2, <1>7, <2>1, <2>5 DEF Correlator!AdvanceHealthy, Standing, Follow, state
    <3>2. /\ Keeps(raised, next) /\ next.phase = "terminal" /\ next.state = "closed"
          /\ next.terminal = s.at
      BY <1>2, <1>5, <3>1, Zenon DEF Keeps, Correlator!Incident, Correlator!End
    <3> QED BY <1>1, <1>2, <1>4, <2>5, <3>1, <3>2 DEF Keeps, Standing, Forward
  <2> QED BY <1>7, <2>2, <2>3, <2>4, <2>5 DEF Standing
<1>8. CASE r.phase # "terminal" /\ ~s.healthy
  <2>1. next = Correlator!AdvanceUnhealthy(raised, s.at)
    BY <1>3, <1>8
  <2>2. CASE r.phase = "candidate"
    <3>1. /\ next = [raised EXCEPT !.phase = "confirmed", !.state = "analyzing"]
          /\ r.state = "open" /\ state = "analyzing"
      BY <1>2, <1>8, <2>1, <2>2 DEF Correlator!AdvanceUnhealthy, Standing, Follow, state
    <3>2. /\ Keeps(raised, next) /\ next.phase = "confirmed" /\ next.state = "analyzing"
          /\ next.terminal = r.terminal
      BY <1>2, <1>5, <3>1, Zenon DEF Keeps, Correlator!Incident, Correlator!End
    <3> QED BY <1>1, <1>2, <1>4, <2>2, <3>1, <3>2 DEF Keeps, Standing, Forward
  <2>3. CASE r.phase = "confirmed"
    <3>1. next = raised /\ r.state = "analyzing" /\ state = "analyzing"
      BY <1>2, <1>8, <2>1, <2>3 DEF Correlator!AdvanceUnhealthy, Standing, Follow, state
    <3> QED BY <1>1, <1>2, <1>4, <2>3, <3>1 DEF Standing, Forward
  <2>4. CASE r.phase = "recovering"
    <3>1. next = Correlator!End(raised, "failed", s.at) /\ state = "failed"
      BY <1>2, <1>8, <2>1, <2>4 DEF Correlator!AdvanceUnhealthy, Standing, Follow, state
    <3>2. /\ Keeps(raised, next) /\ next.phase = "terminal" /\ next.state = "failed"
          /\ next.terminal = s.at
      BY <1>2, <1>5, <3>1, Zenon DEF Keeps, Correlator!Incident, Correlator!End
    <3> QED BY <1>1, <1>2, <1>4, <2>4, <3>1, <3>2 DEF Keeps, Standing, Forward
  <2> QED BY <1>8, <2>2, <2>3, <2>4 DEF Standing
<1> QED BY <1>1, <1>6, <1>7, <1>8

-----------------------------------------------------------------------------
(* Ingest                                                                  *)

NoIncident == Correlator!NoIncident

\* What IncidentsMoveForward says of a step.
MoveForward ==
  /\ \A k \in Correlator!Keys : incidents[k] # NoIncident =>
       incidents'[k] # NoIncident /\ Forward(incidents[k], incidents'[k])
  /\ \A k, l \in Correlator!Keys :
       incidents'[k] # incidents[k] /\ incidents'[l] # incidents[l] => k = l

\* A record is no missing record, and is where it is.
LEMMA RecordStays ==
  ASSUME NEW r \in Correlator!Incident
  PROVE  r # NoIncident /\ Forward(r, r)
<1>1. /\ r.phase \in {"candidate", "confirmed", "recovering", "terminal"}
      /\ r.severity \in 1..3 /\ NoIncident.phase = "none"
  BY DEF Correlator!Incident, Correlator!Phase, NoIncident, Correlator!NoIncident
<1>2. Rank(r.phase) <= Rank(r.phase)
  BY <1>1 DEF Rank
<1> QED BY <1>1, <1>2 DEF Forward

\* A step that writes one sound record, on from the one before it.
LEMMA RecordWritten ==
  ASSUME CorrelatorInv, NEW k \in Correlator!Keys, NEW next,
         RecordSound(k, next), incidents[k] # NoIncident => Forward(incidents[k], next),
         incidents' = [incidents EXCEPT ![k] = next]
  PROVE  CorrelatorInv' /\ MoveForward
<1>1. /\ incidents \in [Correlator!Keys -> Correlator!Incident \cup {NoIncident}]
      /\ \A l \in Correlator!Keys : incidents[l] # NoIncident => RecordSound(l, incidents[l])
  BY DEF CorrelatorInv, NoIncident
<1>2. next \in Correlator!Incident
  BY DEF RecordSound
<1>3. /\ incidents' \in [Correlator!Keys -> Correlator!Incident \cup {NoIncident}]
      /\ incidents'[k] = next
      /\ \A l \in Correlator!Keys : l # k => incidents'[l] = incidents[l]
  BY <1>1, <1>2
<1>4. \A l \in Correlator!Keys : incidents'[l] # NoIncident => RecordSound(l, incidents'[l])
  BY <1>1, <1>3
<1>5. ASSUME NEW l \in Correlator!Keys, incidents[l] # NoIncident
      PROVE  incidents'[l] # NoIncident /\ Forward(incidents[l], incidents'[l])
  <2>1. CASE l = k
    BY <1>2, <1>3, <1>5, <2>1, RecordStays
  <2>2. CASE l # k
    <3>1. incidents[l] \in Correlator!Incident /\ incidents'[l] = incidents[l]
      BY <1>1, <1>3, <1>5, <2>2
    <3> QED BY <3>1, RecordStays
  <2> QED BY <2>1, <2>2
<1>6. CorrelatorInv'
  BY <1>3, <1>4 DEF CorrelatorInv, NoIncident, RecordSound
<1>7. MoveForward
  BY <1>3, <1>5 DEF MoveForward
<1> QED BY <1>6, <1>7

\* Nothing happens to the incidents.
LEMMA RecordsRest ==
  ASSUME CorrelatorInv, UNCHANGED incidents
  PROVE  CorrelatorInv' /\ MoveForward
<1>1. CorrelatorInv'
  BY DEF CorrelatorInv
<1>2. \A l \in Correlator!Keys : incidents[l] # NoIncident =>
        incidents[l] \in Correlator!Incident /\ incidents'[l] = incidents[l]
  BY DEF CorrelatorInv, NoIncident
<1> QED BY <1>1, <1>2, RecordStays DEF MoveForward

\* updateRecord, for a signal that belongs to the incident.
LEMMA UpdateSound ==
  ASSUME CorrelatorInv, NEW k \in Correlator!Keys, NEW s \in Signals,
         incidents[k] # NoIncident, Correlator!UpdateRecord(k, s),
         Belongs(s, k, incidents[k].opened)
  PROVE  CorrelatorInv' /\ MoveForward
<1> DEFINE r == incidents[k]
           a == r.applied
           taken == [r EXCEPT !.seen = Correlator!AppendBounded(@, s.input),
                              !.applied = Append(@, s)]
           next == Correlator!Advance(taken, s)
<1>1. RecordSound(k, r) /\ incidents \in [Correlator!Keys -> Correlator!Incident \cup {NoIncident}]
  BY DEF CorrelatorInv, NoIncident
<1>2. /\ r \in Correlator!Incident /\ a \in Seq(Signals) /\ r.seen \in Seq(Inputs)
      /\ r.state \in Correlator!IncidentState
  BY <1>1, Zenon DEF RecordSound, Correlator!Incident, Inputs
<1>3. CASE Correlator!Contains(r.seen, s.input)
  <2>1. incidents' = [incidents EXCEPT ![k] = r]
    BY <1>3 DEF Correlator!UpdateRecord
  <2>2. UNCHANGED incidents
    BY <1>1, <2>1
  <2> QED BY <2>2, RecordsRest
<1>4. CASE ~Correlator!Contains(r.seen, s.input)
  <2>1. incidents' = [incidents EXCEPT ![k] = next]
    BY <1>4 DEF Correlator!UpdateRecord
  <2> DEFINE seen == Correlator!AppendBounded(r.seen, s.input)
             b == Append(a, s)
  <2>2. seen \in Seq(Inputs) /\ Memory(seen, b) /\ b \in Seq(Signals)
    BY <1>1, <1>2, <1>4, Remembered DEF RecordSound
  <2>3. Progress(Follow(r.state, s.healthy), b)
    BY <1>1, <1>2, Progressed DEF RecordSound
  <2>4. \A i \in 1..Len(b) : Belongs(b[i], k, r.opened)
    <3>1. /\ Len(b) = Len(a) + 1 /\ b[Len(a) + 1] = s /\ \A i \in 1..Len(a) : b[i] = a[i]
          /\ Len(a) \in Nat
      BY <1>2
    <3>2. \A i \in 1..Len(a) : Belongs(a[i], k, r.opened)
      BY <1>1 DEF RecordSound
    <3> QED BY <3>1, <3>2
  <2> HIDE DEF seen, b
  <2>5. taken = [r EXCEPT !.seen = seen, !.applied = b]
    BY DEF seen, b
  <2>6. /\ taken \in Correlator!Incident /\ taken.seen = seen /\ taken.applied = b
        /\ taken.phase = r.phase /\ taken.state = r.state /\ taken.severity = r.severity
        /\ taken.opened = r.opened /\ taken.terminal = r.terminal
    BY <1>2, <2>2, <2>5, Zenon DEF Correlator!Incident, Inputs
  <2> HIDE DEF taken
  <2>7. /\ next \in Correlator!Incident /\ next.seen = seen /\ next.applied = b
        /\ next.state = Follow(r.state, s.healthy)
        /\ <<next.phase, next.state>> \in Standing
        /\ (next.phase = "terminal") <=> (next.terminal > 0)
        /\ Forward(taken, next)
    <3>1. <<taken.phase, taken.state>> \in Standing /\ ((taken.phase = "terminal") <=> (taken.terminal > 0))
      BY <1>1, <2>6, Zenon DEF RecordSound
    <3> QED BY <2>6, <3>1, Advanced
  <2> HIDE DEF next
  <2>8. next.opened = r.opened /\ Forward(r, next)
    BY <2>6, <2>7 DEF Forward
  <2>9. RecordSound(k, next)
    BY <2>2, <2>3, <2>4, <2>7, <2>8 DEF RecordSound
  <2> QED BY <2>1, <2>8, <2>9, RecordWritten, Zenon
<1> QED BY <1>3, <1>4

\* newCandidate, for an unhealthy signal.
LEMMA CandidateSound ==
  ASSUME NEW s \in Signals, ~s.healthy
  PROVE  RecordSound(Correlator!DedupeKey(s), Correlator!Candidate(s))
<1> DEFINE r == Correlator!Candidate(s)
<1>1. /\ s.at \in Nat \ {0} /\ s.severity \in 1..3 /\ s.input \in Inputs
      /\ MaxSeenInputs \in Nat \ {0}
  BY SignalParts
<1>2. /\ r.seen = <<s.input>> /\ r.applied = <<s>> /\ r.state = "open" /\ r.phase = "candidate"
      /\ r.terminal = 0 /\ r.opened = s.at
  BY DEF Correlator!Candidate
<1>3. r.seen \in Seq(Inputs) /\ r.applied \in Seq(Signals)
  BY <1>1, <1>2
<1>4. r \in Correlator!Incident
  BY <1>1, <1>3 DEF Correlator!Candidate, Correlator!Incident, Correlator!Phase,
     Correlator!IncidentState, Inputs
<1>5. /\ Len(r.seen) = 1 /\ Len(r.applied) = 1 /\ r.seen[1] = s.input /\ r.applied[1] = s
  BY <1>2
<1> HIDE DEF r
<1>6. Memory(r.seen, r.applied)
  BY <1>1, <1>5 DEF Memory
<1>7. Progress(r.state, r.applied)
  BY <1>2, <1>5 DEF Progress
<1>8. RecordSound(Correlator!DedupeKey(s), r)
  BY <1>2, <1>4, <1>5, <1>6, <1>7 DEF RecordSound, Standing, Belongs
<1> QED BY <1>8 DEF r

\* Every signal keeps the invariant and moves incidents forward.
LEMMA IngestSound ==
  ASSUME CorrelatorInv, NEW s \in Signals, Correlator!Ingest(s)
  PROVE  CorrelatorInv' /\ MoveForward
<1> DEFINE key == Correlator!DedupeKey(s)
<1>1. key \in Correlator!Keys
  BY SignalParts
<1>2. CASE incidents[key] # NoIncident
  BY <1>1, <1>2, UpdateSound DEF Correlator!Ingest, NoIncident, Belongs
<1>3. CASE incidents[key] = NoIncident /\ ~s.healthy
  BY <1>1, <1>3, CandidateSound, RecordWritten DEF Correlator!Ingest, NoIncident
<1>4. CASE incidents[key] = NoIncident /\ s.healthy
  <2>1. CASE \E k \in Correlator!FindActiveRecord(s) : Correlator!UpdateRecord(k, s)
    <3>1. PICK k \in Correlator!Keys : Correlator!Matches(k, s) /\ Correlator!UpdateRecord(k, s)
      BY <2>1 DEF Correlator!FindActiveRecord
    <3>2. Belongs(s, k, incidents[k].opened) /\ incidents[k] # NoIncident
      BY <1>4, <3>1 DEF Belongs, Correlator!Matches, Correlator!Active, NoIncident
    <3> QED BY <3>1, <3>2, UpdateSound
  <2>2. CASE UNCHANGED incidents
    BY <2>2, RecordsRest
  <2> QED BY <1>4, <2>1, <2>2 DEF Correlator!Ingest, NoIncident
<1> QED BY <1>2, <1>3, <1>4

\* The store begins without incidents.
LEMMA CorrelatorInit == Correlator!Init => CorrelatorInv
BY DEF Correlator!Init, CorrelatorInv

\* Every step keeps the invariant of the correlator and moves incidents forward.
LEMMA CorrelatorStepSound ==
  CorrelatorInv /\ [Correlator!Next]_(Correlator!vars) => CorrelatorInv' /\ MoveForward
<1> SUFFICES ASSUME CorrelatorInv, [Correlator!Next]_(Correlator!vars) PROVE CorrelatorInv' /\ MoveForward
  OBVIOUS
<1>1. CASE Correlator!Next
  BY <1>1, IngestSound DEF Correlator!Next
<1>2. CASE UNCHANGED incidents
  BY <1>2, RecordsRest
<1> QED BY <1>1, <1>2 DEF Correlator!vars

\* The record of an incident says what CorrelatorSound asks of it.
LEMMA RecordMeaning ==
  ASSUME NEW k \in Correlator!Keys, NEW r, RecordSound(k, r)
  PROVE  /\ r \in [phase : Correlator!Phase, state : Correlator!IncidentState, severity : 1..3,
                   opened : Nat, terminal : Nat, seen : {r.seen}, applied : {r.applied}]
         /\ Len(r.seen) \in 1..MaxSeenInputs
         /\ \A i, j \in DOMAIN r.seen : r.seen[i] = r.seen[j] => i = j
         /\ <<r.phase, r.state>> \in Standing
         /\ (r.phase = "terminal") = (r.terminal > 0)
         /\ (r.state = "closed") = Correlator!ClosedCourse(Correlator!Course(r))
         /\ (r.state = "failed") = Correlator!FailedCourse(Correlator!Course(r))
         /\ \A i, j \in DOMAIN r.applied :
              i < j /\ r.applied[i].input = r.applied[j].input => j - i > MaxSeenInputs
         /\ \A i \in DOMAIN r.applied :
              Belongs(r.applied[i], k, r.opened)
<1> DEFINE a == r.applied
           m == Len(r.seen)
           n == Len(a)
<1>1. /\ r \in Correlator!Incident /\ a \in Seq(Signals) /\ r.seen \in Seq(Inputs)
      /\ r.state \in Correlator!IncidentState
  BY DEF RecordSound, Correlator!Incident, Inputs
<1>2. /\ m \in 1..MaxSeenInputs /\ m <= n
      /\ \A i \in 1..m : r.seen[i] = a[n - m + i].input
      /\ \A i, j \in 1..n : i < j /\ a[i].input = a[j].input => j - i > MaxSeenInputs
  BY Zenon DEF RecordSound, Memory
<1>0. m \in Nat /\ n \in Nat /\ DOMAIN a = 1..n /\ DOMAIN r.seen = 1..m
  BY <1>1
<1> HIDE DEF m, n
<1>3. \A i, j \in DOMAIN r.seen : r.seen[i] = r.seen[j] => i = j
  <2>0. m \in 1..MaxSeenInputs /\ m <= n /\ MaxSeenInputs \in Nat
    BY <1>2, CorrelationAssumption DEF Correlator!CorrelatorAssumption
  <2>1. ASSUME NEW i \in 1..m, NEW j \in 1..m, i < j, r.seen[i] = r.seen[j] PROVE FALSE
    <3>1. PICK p \in 1..n, q \in 1..n : p = n - m + i /\ q = n - m + j
      <4>1. n - m + i \in 1..n /\ n - m + j \in 1..n
        BY <1>0, <2>0
      <4> QED BY <4>1
    <3>2. a[p].input = a[q].input
      BY <1>2, <2>1, <3>1, Zenon
    <3>3. p < q /\ ~(q - p > MaxSeenInputs)
      BY <1>0, <2>0, <2>1, <3>1
    <3> QED BY <1>2, <3>2, <3>3, Zenon
  <2>2. ASSUME NEW i \in 1..m, NEW j \in 1..m, r.seen[i] = r.seen[j] PROVE i = j
    <3>1. ~(i < j) /\ ~(j < i)
      BY <2>1, <2>2, Zenon
    <3> QED BY <3>1
  <2> QED BY <1>0, <2>2, Zenon
<1>4. /\ (r.state = "closed") <=> Correlator!ClosedCourse(Correlator!Course(r))
      /\ (r.state = "failed") <=> Correlator!FailedCourse(Correlator!Course(r))
  <2>1. Progress(r.state, a)
    BY DEF RecordSound
  <2>2. (r.state = "closed" => Closes(a)) /\ (r.state = "failed" => Fails(a))
    BY <2>1 DEF Progress
  <2> QED BY <1>1, <2>1, <2>2, CourseDecides, CourseOfSignals
<1>5. r \in [phase : Correlator!Phase, state : Correlator!IncidentState, severity : 1..3,
             opened : Nat, terminal : Nat, seen : {r.seen}, applied : {r.applied}]
  BY <1>1 DEF Correlator!Incident
<1>6. (r.phase = "terminal") = (r.terminal > 0)
  BY <1>1 DEF RecordSound, Correlator!Incident
<1>7. /\ (r.state = "closed") = Correlator!ClosedCourse(Correlator!Course(r))
      /\ (r.state = "failed") = Correlator!FailedCourse(Correlator!Course(r))
  BY <1>4, Zenon DEF Correlator!ClosedCourse, Correlator!FailedCourse
<1>8. /\ \A i \in DOMAIN a : Belongs(a[i], k, r.opened)
      /\ <<r.phase, r.state>> \in Standing
  BY <1>0, Zenon DEF RecordSound, n
<1>9. /\ m \in 1..MaxSeenInputs
      /\ \A i, j \in DOMAIN a : i < j /\ a[i].input = a[j].input => j - i > MaxSeenInputs
  BY <1>0, <1>2, Zenon
<1> QED BY <1>3, <1>5, <1>6, <1>7, <1>8, <1>9, Zenon DEF m

\* Ingest, for any signals in any order: an incident ends exactly as the signals it
\* took say, one of another window is healthy and was not observed before it opened,
\* and an input counts again only after SeenInputs has lost it.
THEOREM CorrelatorStaysSound == Correlator!Spec => []CorrelatorSound
<1>1. CorrelatorInv => CorrelatorSound
  <2> SUFFICES ASSUME CorrelatorInv PROVE CorrelatorSound
    OBVIOUS
  <2>1. \A k \in Correlator!Keys : incidents[k] # NoIncident => RecordSound(k, incidents[k])
    BY DEF CorrelatorInv, NoIncident
  <2>2. Correlator!TypeOK
    BY <2>1, RecordMeaning, Zenon DEF Correlator!TypeOK, Standing, NoIncident
  <2>3. Correlator!OutcomeFollowsSignals
    BY <2>1, RecordMeaning, Zenon DEF Correlator!OutcomeFollowsSignals, NoIncident
  <2>4. Correlator!NoClosureFromBefore /\ Correlator!RepeatsFarApart
    BY <2>1, RecordMeaning, Zenon DEF Correlator!NoClosureFromBefore, Correlator!RepeatsFarApart,
       NoIncident, Belongs
  <2> QED BY <2>2, <2>3, <2>4 DEF CorrelatorSound
<1> QED BY <1>1, CorrelatorInit, CorrelatorStepSound, PTL DEF Correlator!Spec

\* Ingest: a terminal incident never changes again, an open one never goes back, and
\* a signal changes one incident at most.
THEOREM CorrelatorMovesForward == Correlator!Spec => IncidentsMoveForward
<1>1. CorrelatorInv => DOMAIN incidents = Correlator!Keys
  BY DEF CorrelatorInv
<1>2. CorrelatorInv /\ MoveForward =>
        \A k \in DOMAIN incidents : incidents'[k] # incidents[k] =>
          /\ \A l \in DOMAIN incidents : incidents'[l] # incidents[l] => k = l
          /\ incidents[k] # Correlator!NoIncident =>
               LET r == incidents[k]
                   next == incidents'[k]
                   rank(p) == CASE p = "candidate" -> 1 [] p = "confirmed" -> 2
                                [] p = "recovering" -> 3 [] p = "terminal" -> 4
               IN  /\ next # Correlator!NoIncident
                   /\ rank(r.phase) <= rank(next.phase)
                   /\ r.severity <= next.severity
                   /\ r.opened = next.opened
                   /\ r.phase = "terminal" =>
                        /\ next.state = r.state
                        /\ next.severity = r.severity
                        /\ next.terminal = r.terminal
  BY <1>1, Zenon DEF MoveForward, Forward, Rank, NoIncident
<1> QED BY <1>2, CorrelatorInit, CorrelatorStepSound, PTL
        DEF Correlator!Spec, IncidentsMoveForward, Correlator!IncidentsMoveForward

-----------------------------------------------------------------------------
(* The inductive invariant of the ingress                                  *)

\* A call in progress has read the clock, and at that reading the message was
\* within the tolerance.
CallsTimed ==
  \A c \in Calls : calls[c] # Idle =>
    /\ calls[c].at <= now
    /\ WithinTolerance(calls[c].signed, calls[c].at)

\* An acceptance is covered by a receipt until its retention has passed.
Covered(a, held, clock) ==
  \/ \E r \in held : r.id = a.id /\ a.at + Retention <= r.expires
  \/ a.at + Retention <= clock

AcceptancesCovered ==
  \A i \in 1..Len(accepted) :
    /\ Covered(accepted[i], receipts, now)
    /\ WithinTolerance(accepted[i].signed, accepted[i].at)

\* The two sides share a secret, and with every message that may still be
\* verified the ingress shares one too.
SecretsShared ==
  /\ signer \cap verifier # {}
  /\ \A m \in sent : now <= m.at + Tolerance => m.keys \cap verifier # {}

IngressInv ==
  /\ TypeOK
  /\ CallsTimed
  /\ AcceptancesCovered
  /\ AcceptancesFarApart
  /\ ReplayMeansAccepted
  /\ SecretsShared

-----------------------------------------------------------------------------
(* The steps                                                               *)

\* Init establishes the invariant.
LEMMA IngressInit == Init => IngressInv
BY IngressAssumption DEF Init, IngressInv, TypeOK, CallsTimed, AcceptancesCovered,
   AcceptancesFarApart, ReplayMeansAccepted, SecretsShared

\* The constants are numbers.
LEMMA Numbers ==
  Tolerance \in Nat /\ Retention \in Nat /\ Skew \in Nat
BY IngressAssumption

\* What an acceptance is.
LEMMA AcceptanceShape ==
  ASSUME TypeOK, NEW i \in 1..Len(accepted)
  PROVE  accepted[i] \in Acceptance
<1>1. accepted \in Seq(Acceptance)
  BY DEF TypeOK
<1> QED BY <1>1

\* What a call in progress is.
LEMMA CallShape ==
  ASSUME TypeOK, NEW c \in Calls, calls[c].phase # "idle"
  PROVE  calls[c] \in Call /\ calls[c] # Idle
BY DEF TypeOK, Idle

\* A step that leaves the receipts, the acceptances and the time alone keeps what
\* the invariant says of them.
LEMMA KeepAccepted ==
  ASSUME AcceptancesCovered, AcceptancesFarApart, ReplayMeansAccepted,
         UNCHANGED <<now, receipts, accepted>>
  PROVE  AcceptancesCovered' /\ AcceptancesFarApart' /\ ReplayMeansAccepted'
BY DEF AcceptancesCovered, AcceptancesFarApart, ReplayMeansAccepted, Covered, Again

\* Accept up to the signature check.
LEMMA BeginKeeps ==
  ASSUME IngressInv, NEW c \in Calls, NEW m \in sent, Begin(c, m)
  PROVE  IngressInv'
<1> USE DEF IngressInv
<1>1. TypeOK'
  <2>1. m.id \in IDs /\ m.at \in Nat
    BY DEF TypeOK, Message
  <2>2. audited' \in SUBSET Reasons
    BY Zenon DEF Begin, RecordRejected, TypeOK, Reasons
  <2>3. calls' \in [Calls -> Call \cup {Idle}]
    <3>1. [phase |-> "verified", id |-> m.id, signed |-> m.at, at |-> now] \in Call
      BY <2>1 DEF TypeOK, Call
    <3>2. CASE Verify(verifier, m, now)
      BY <3>1, <3>2 DEF Begin, TypeOK
    <3>3. CASE ~Verify(verifier, m, now)
      BY <3>3 DEF Begin, TypeOK
    <3> QED BY <3>2, <3>3
  <2> QED BY <2>2, <2>3 DEF Begin, TypeOK
<1>2. CallsTimed'
  <2>1. CASE ~Verify(verifier, m, now)
    BY <2>1 DEF Begin, CallsTimed
  <2>2. CASE Verify(verifier, m, now)
    <3> DEFINE call == [phase |-> "verified", id |-> m.id, signed |-> m.at, at |-> now]
    <3>1. calls' = [calls EXCEPT ![c] = call] /\ now' = now /\ calls \in [Calls -> Call \cup {Idle}]
      BY <2>2 DEF Begin, TypeOK
    <3>2. call.at <= now
      BY Numbers DEF TypeOK
    <3>3. WithinTolerance(call.signed, call.at)
      BY <2>2 DEF Verify
    <3> SUFFICES ASSUME NEW d \in Calls, calls'[d] # Idle
                 PROVE  /\ calls'[d].at <= now
                        /\ WithinTolerance(calls'[d].signed, calls'[d].at)
      BY <3>1 DEF CallsTimed
    <3> HIDE DEF call
    <3>4. CASE d = c
      BY <3>1, <3>2, <3>3, <3>4
    <3>5. CASE d # c
      BY <3>1, <3>5 DEF CallsTimed
    <3> QED BY <3>4, <3>5
  <2> QED BY <2>1, <2>2
<1>3. AcceptancesCovered' /\ AcceptancesFarApart' /\ ReplayMeansAccepted'
  BY KeepAccepted DEF Begin
<1>4. SecretsShared'
  BY DEF Begin, SecretsShared
<1> QED BY <1>1, <1>2, <1>3, <1>4

\* A call that goes on, or ends without a commit, keeps the invariant.
LEMMA MoveKeeps ==
  ASSUME IngressInv, NEW c \in Calls,
         calls[c].phase # "idle",
         Leave(c) \/ (\E p \in {"checked", "normalized"} : Goto(c, p)),
         audited' \in SUBSET Reasons,
         UNCHANGED <<now, registered, signer, verifier, sent, receipts, accepted>>
  PROVE  IngressInv'
<1> USE DEF IngressInv
<1>1. calls[c] \in Call /\ calls[c] # Idle
  BY CallShape
<1>2. TypeOK'
  <2>1. calls' \in [Calls -> Call \cup {Idle}]
    <3>1. CASE Leave(c)
      BY <3>1 DEF TypeOK, Leave
    <3>2. ASSUME NEW p \in {"checked", "normalized"}, Goto(c, p)
          PROVE  calls' \in [Calls -> Call \cup {Idle}]
      <4>1. [calls[c] EXCEPT !.phase = p] \in Call
        BY <1>1 DEF Call
      <4> QED BY <3>2, <4>1 DEF TypeOK, Goto
    <3> QED BY <3>1, <3>2
  <2> QED BY <2>1 DEF TypeOK
<1>3. CallsTimed'
  <2> SUFFICES ASSUME NEW d \in Calls, calls'[d] # Idle
               PROVE  /\ calls'[d].at <= now
                      /\ WithinTolerance(calls'[d].signed, calls'[d].at)
    BY DEF CallsTimed
  <2>1. calls[d] # Idle /\ calls'[d].at = calls[d].at /\ calls'[d].signed = calls[d].signed
    BY <1>1 DEF TypeOK, Leave, Goto, Call
  <2> QED BY <2>1 DEF CallsTimed
<1>4. AcceptancesCovered' /\ AcceptancesFarApart' /\ ReplayMeansAccepted'
  BY KeepAccepted
<1>5. SecretsShared'
  BY DEF SecretsShared
<1> QED BY <1>2, <1>3, <1>4, <1>5

\* The commit of an alert: the only step that changes receipts.
LEMMA CommitKeeps ==
  ASSUME IngressInv, NEW c \in Calls, Commit(c)
  PROVE  IngressInv'
<1> USE DEF IngressInv
<1> DEFINE call == calls[c]
           kept == Unexpired(call.at)
           new == Taken(call)
<1>1. call \in Call /\ call # Idle
  BY CallShape, Zenon DEF Commit
<1>2. CASE \E r \in kept : r.id = call.id
  <2>1. UNCHANGED <<now, registered, signer, verifier, sent, receipts, accepted, audited>> /\ Leave(c)
    BY <1>2, Zenon DEF Commit
  <2> QED BY <2>1, MoveKeeps, Zenon DEF Commit, TypeOK
<1>3. CASE ~ \E r \in kept : r.id = call.id
  <2>1. /\ receipts' = kept \cup {[id |-> call.id, expires |-> call.at + Retention]}
        /\ accepted' = Append(accepted, new)
        /\ Leave(c)
        /\ UNCHANGED <<now, registered, signer, verifier, sent, audited>>
    BY <1>3, Zenon DEF Commit
  <2>2. /\ new \in Acceptance /\ new.id = call.id /\ new.signed = call.signed
        /\ new.at = call.at /\ new.done = now
    BY <1>1, Zenon DEF Call, Acceptance, Taken, TypeOK
  <2>3. accepted \in Seq(Acceptance)
    BY DEF TypeOK
  <2>4. /\ Len(accepted') = Len(accepted) + 1
        /\ \A i \in 1..Len(accepted) : accepted'[i] = accepted[i]
        /\ accepted'[Len(accepted) + 1] = new
        /\ accepted' \in Seq(Acceptance)
        /\ Len(accepted) \in Nat
    <3> HIDE DEF new
    <3> QED BY <2>1, <2>2, <2>3
  <2>5. /\ call.at \in Nat /\ now \in Nat /\ call.at <= now
        /\ WithinTolerance(call.signed, call.at)
    BY <1>1 DEF CallsTimed, Call, TypeOK
  <2>6. receipts \subseteq Receipt /\ kept \subseteq receipts
    BY DEF TypeOK, Unexpired
  <2>7. TypeOK'
    <3>1. receipts' \in SUBSET Receipt
      BY <2>1, <2>6, <1>1, Numbers DEF Receipt, Call
    <3>2. calls' \in [Calls -> Call \cup {Idle}]
      BY <2>1 DEF TypeOK, Leave
    <3> QED BY <2>1, <2>4, <3>1, <3>2, Zenon DEF TypeOK
  <2>8. CallsTimed'
    BY <2>1, Zenon DEF CallsTimed, Leave, TypeOK
  <2>9. AcceptancesCovered'
    <3>1. ASSUME NEW a \in Acceptance, Covered(a, receipts, now)
          PROVE  Covered(a, receipts', now)
      <4>1. CASE \E r \in receipts : r.id = a.id /\ a.at + Retention <= r.expires
        <5>1. PICK r \in receipts : r.id = a.id /\ a.at + Retention <= r.expires
          BY <4>1
        <5>2. CASE r.expires > call.at
          BY <5>1, <5>2, <2>1, Zenon DEF Unexpired, Covered
        <5>3. CASE ~(r.expires > call.at)
          <6>1. r.expires \in Nat
            BY <2>6 DEF Receipt
          <6>2. a.at + Retention <= now
            <7>1. a.at \in Nat
              BY DEF Acceptance
            <7> QED BY <7>1, <5>1, <5>3, <6>1, <2>5, Numbers
          <6> QED BY <6>2, <2>1 DEF Covered
        <5> QED BY <5>2, <5>3
      <4>2. CASE a.at + Retention <= now
        BY <4>2, <2>1 DEF Covered
      <4> QED BY <3>1, <4>1, <4>2 DEF Covered
    <3>2. Covered(new, receipts', now)
      <4>1. [id |-> call.id, expires |-> call.at + Retention] \in receipts'
        BY <2>1
      <4>2. new.at + Retention <= call.at + Retention
        BY <2>2, <2>5, Numbers
      <4>3. new.id = call.id
        BY <2>2
      <4> HIDE DEF new
      <4> QED BY <4>1, <4>2, <4>3, Zenon DEF Covered
    <3>3. \A i \in 1..Len(accepted) : accepted[i] \in Acceptance
      BY AcceptanceShape
    <3>4. ASSUME NEW i \in 1..Len(accepted')
          PROVE  /\ Covered(accepted'[i], receipts', now)
                 /\ WithinTolerance(accepted'[i].signed, accepted'[i].at)
      <4>1. CASE i = Len(accepted) + 1
        <5>1. accepted'[i] = new
          BY <4>1, <2>4, Zenon
        <5> HIDE DEF new, call
        <5> QED BY <5>1, <2>2, <3>2, <2>5, Zenon
      <4>2. CASE i \in 1..Len(accepted)
        <5>1. accepted'[i] = accepted[i]
          BY <4>2, <2>4, Zenon
        <5>2. Covered(accepted[i], receipts, now) /\ WithinTolerance(accepted[i].signed, accepted[i].at)
          BY <4>2 DEF AcceptancesCovered
        <5>3. accepted[i] \in Acceptance
          BY <4>2, <3>3
        <5> QED BY <5>1, <5>2, <5>3, <3>1, Zenon
      <4> QED BY <4>1, <4>2, <2>4
    <3> QED BY <3>4, <2>1, Zenon DEF AcceptancesCovered
  <2>10. AcceptancesFarApart'
    <3>1. ASSUME NEW i \in 1..Len(accepted), accepted[i].id = call.id
          PROVE  accepted[i].at + Retention <= now
      <4>1. Covered(accepted[i], receipts, now) /\ accepted[i].at \in Nat
        BY AcceptanceShape DEF AcceptancesCovered, Acceptance
      <4>2. CASE accepted[i].at + Retention <= now
        BY <4>2
      <4>3. CASE \E r \in receipts : r.id = call.id /\ accepted[i].at + Retention <= r.expires
        <5>1. PICK r \in receipts : r.id = call.id /\ accepted[i].at + Retention <= r.expires
          BY <4>3
        <5>2. r \notin kept /\ r.expires \in Nat
          BY <5>1, <1>3, <2>6 DEF Receipt
        <5>3. r.expires <= call.at
          BY <5>1, <5>2, <2>5 DEF Unexpired
        <5>4. ASSUME NEW a \in Nat, NEW e \in Nat, NEW t \in Nat, a + Retention <= e, e <= t, t <= now
              PROVE  a + Retention <= now
          BY <5>4, <2>5, Numbers
        <5> HIDE DEF call
        <5> QED BY <4>1, <5>1, <5>2, <5>3, <5>4, <2>5
      <4> QED BY <3>1, <4>1, <4>2, <4>3 DEF Covered
    <3> SUFFICES ASSUME NEW i \in 1..Len(accepted'), NEW j \in 1..Len(accepted'),
                        i < j, accepted'[i].id = accepted'[j].id
                 PROVE  accepted'[i].at + Retention <= accepted'[j].done
      BY DEF AcceptancesFarApart, Again
    <3>2. i \in 1..Len(accepted) /\ accepted'[i] = accepted[i]
      <4>1. i \in Nat /\ j \in Nat /\ 1 <= i /\ j <= Len(accepted) + 1
        BY <2>4
      <4>2. i \in 1..Len(accepted)
        BY <4>1, <2>4
      <4> QED BY <4>2, <2>4, Zenon
    <3>3. CASE j = Len(accepted) + 1
      <4>1. accepted'[j] = new
        BY <3>3, <2>4
      <4>2. accepted[i].id = call.id
        BY <2>2, <4>1, <3>2
      <4>3. accepted[i].at + Retention <= now
        BY <3>1, <3>2, <4>2
      <4>4. accepted'[j].done = now
        BY <2>2, <4>1
      <4> HIDE DEF call, new
      <4> QED BY <3>2, <4>3, <4>4
    <3>4. CASE j \in 1..Len(accepted)
      BY <3>2, <3>4, <2>4, Zenon DEF AcceptancesFarApart, Again
    <3>5. j = Len(accepted) + 1 \/ j \in 1..Len(accepted)
      <4>1. Len(accepted) \in Nat /\ j \in 1..(Len(accepted) + 1)
        BY <2>4
      <4> HIDE DEF call, new
      <4> QED BY <4>1
    <3> QED BY <3>3, <3>4, <3>5
  <2>11. ReplayMeansAccepted'
    <3> SUFFICES ASSUME NEW r \in receipts'
                 PROVE  \E i \in 1..Len(accepted') :
                          accepted'[i].id = r.id /\ r.expires = accepted'[i].at + Retention
      BY DEF ReplayMeansAccepted
    <3>1. CASE r \in receipts
      <4>1. PICK i \in 1..Len(accepted) :
              accepted[i].id = r.id /\ r.expires = accepted[i].at + Retention
        BY <3>1 DEF ReplayMeansAccepted
      <4>2. i \in 1..Len(accepted') /\ accepted'[i] = accepted[i]
        BY <2>4
      <4>3. accepted'[i].id = r.id /\ r.expires = accepted'[i].at + Retention
        BY <4>1, <4>2
      <4> QED BY <4>2, <4>3, Zenon
    <3>2. CASE r = [id |-> call.id, expires |-> call.at + Retention]
      <4>1. Len(accepted) + 1 \in 1..Len(accepted')
        BY <2>4
      <4> HIDE DEF new
      <4> QED BY <3>2, <4>1, <2>2, <2>4
    <3> QED BY <3>1, <3>2, <2>1, <2>6, Zenon
  <2>12. SecretsShared'
    BY <2>1 DEF SecretsShared
  <2> QED BY <2>7, <2>8, <2>9, <2>10, <2>11, <2>12
<1> QED BY <1>2, <1>3

\* The passage of time.
LEMMA TickKeeps ==
  ASSUME IngressInv, Tick
  PROVE  IngressInv'
<1> USE DEF IngressInv
<1>1. TypeOK'
  BY DEF Tick, TypeOK
<1>2. CallsTimed'
  <2> SUFFICES ASSUME NEW c \in Calls, calls[c] # Idle
               PROVE  /\ calls[c].at <= now'
                      /\ WithinTolerance(calls[c].signed, calls[c].at)
    BY DEF CallsTimed, Tick
  <2>1. calls[c].at \in Nat /\ now \in Nat
    BY DEF TypeOK, Call
  <2> QED BY <2>1, Numbers DEF CallsTimed, Tick
<1>3. AcceptancesCovered'
  <2> SUFFICES ASSUME NEW i \in 1..Len(accepted)
               PROVE  /\ Covered(accepted[i], receipts, now')
                      /\ WithinTolerance(accepted[i].signed, accepted[i].at)
    BY DEF Tick, AcceptancesCovered
  <2>1. accepted[i].at \in Nat /\ now \in Nat
    BY AcceptanceShape DEF TypeOK, Acceptance
  <2>2. Covered(accepted[i], receipts, now) /\ WithinTolerance(accepted[i].signed, accepted[i].at)
    BY DEF AcceptancesCovered
  <2> QED BY <2>1, <2>2, Numbers DEF Tick, Covered
<1>4. AcceptancesFarApart' /\ ReplayMeansAccepted'
  BY DEF Tick, AcceptancesFarApart, ReplayMeansAccepted, Again
<1>5. SecretsShared'
  <2> SUFFICES ASSUME NEW m \in sent, now' <= m.at + Tolerance
               PROVE  m.keys \cap verifier # {}
    BY DEF SecretsShared, Tick
  <2>1. m.at \in Nat /\ now \in Nat
    BY DEF TypeOK, Message
  <2> QED BY <2>1, Numbers DEF SecretsShared, Tick
<1> QED BY <1>1, <1>2, <1>3, <1>4, <1>5

\* A restart ends every call.
LEMMA RestartKeeps ==
  ASSUME IngressInv, Restart, UNCHANGED <<now, receipts, accepted>>
  PROVE  /\ calls' \in [Calls -> Call \cup {Idle}]
         /\ CallsTimed' /\ AcceptancesCovered' /\ AcceptancesFarApart' /\ ReplayMeansAccepted'
BY KeepAccepted DEF IngressInv, Restart, CallsTimed

\* The sender, the registry and the operator.
LEMMA EnvironmentKeeps ==
  ASSUME IngressInv,
         (\E id \in IDs : Send(id)) \/ Register \/ DeploySigner \/ DeployVerifier \/ Crash
  PROVE  IngressInv'
<1> USE DEF IngressInv
<1>1. CASE \E id \in IDs : Send(id)
  <2>1. PICK id \in IDs, at \in now..(now + Skew) :
          /\ sent' = sent \cup {Sign(signer, id, at)}
          /\ UNCHANGED <<now, registered, signer, verifier, receipts, calls, audited, accepted>>
    BY <1>1 DEF Send
  <2>2. Sign(signer, id, at) \in Message
    BY Numbers DEF Sign, Message, TypeOK
  <2>3. TypeOK'
    BY <2>1, <2>2 DEF TypeOK
  <2>4. SecretsShared'
    BY <2>1 DEF SecretsShared, Sign
  <2> QED BY <2>1, <2>3, <2>4, KeepAccepted, Zenon DEF CallsTimed
<1>2. CASE Register
  <2>1. TypeOK'
    BY <1>2, IngressAssumption, Zenon DEF Register, TypeOK
  <2> QED BY <1>2, <2>1, KeepAccepted DEF Register, CallsTimed, SecretsShared
<1>3. CASE DeploySigner
  <2>1. signer' \in SUBSET Nat /\ signer' \cap verifier # {}
    <3>1. CASE signer' \in Rotated(signer, verifier)
      BY <3>1 DEF Rotated, TypeOK
    <3>2. CASE signer' \in Retired(signer, verifier)
      BY <3>2 DEF Retired, TypeOK
    <3> QED BY <1>3, <3>1, <3>2, Zenon DEF DeploySigner
  <2>2. TypeOK'
    BY <1>3, <2>1 DEF DeploySigner, TypeOK
  <2> QED BY <1>3, <2>1, <2>2, KeepAccepted DEF DeploySigner, CallsTimed, SecretsShared
<1>4. CASE DeployVerifier
  <2>1. verifier' \in SUBSET Nat /\ signer \cap verifier' # {}
    <3>1. CASE verifier' \in Rotated(verifier, signer)
      BY <3>1 DEF Rotated, TypeOK
    <3>2. CASE verifier' \in Retired(verifier, signer)
      BY <3>2 DEF Retired, TypeOK
    <3> QED BY <1>4, <3>1, <3>2, Zenon DEF DeployVerifier
  <2>2. ASSUME NEW m \in sent, now <= m.at + Tolerance
        PROVE  m.keys \cap verifier' # {}
    <3>1. m.at \in Nat /\ now \in Nat
      BY DEF TypeOK, Message
    <3>2. CASE verifier' \in Rotated(verifier, signer)
      <4>1. verifier \subseteq verifier'
        BY <3>2 DEF Rotated
      <4> QED BY <4>1, <2>2 DEF SecretsShared
    <3>3. CASE verifier' \in Retired(verifier, signer)
      <4>1. PICK k \in verifier : /\ verifier' = {k}
                                  /\ \A n \in sent : k \in n.keys \/ now > n.at + Tolerance
        BY <3>3 DEF Retired
      <4>2. ~(now > m.at + Tolerance)
        BY <3>1, <2>2, Numbers
      <4> QED BY <4>1, <4>2
    <3> QED BY <1>4, <3>2, <3>3, Zenon DEF DeployVerifier
  <2>3. calls' \in [Calls -> Call \cup {Idle}]
        /\ CallsTimed' /\ AcceptancesCovered' /\ AcceptancesFarApart' /\ ReplayMeansAccepted'
    BY <1>4, RestartKeeps DEF DeployVerifier
  <2>4. TypeOK'
    BY <1>4, <2>1, <2>3 DEF DeployVerifier, TypeOK
  <2>5. SecretsShared'
    BY <1>4, <2>1, <2>2, Zenon DEF DeployVerifier, SecretsShared
  <2> QED BY <2>3, <2>4, <2>5
<1>5. CASE Crash
  <2>1. calls' \in [Calls -> Call \cup {Idle}]
        /\ CallsTimed' /\ AcceptancesCovered' /\ AcceptancesFarApart' /\ ReplayMeansAccepted'
    BY <1>5, RestartKeeps DEF Crash
  <2> QED BY <1>5, <2>1 DEF Crash, TypeOK, SecretsShared
<1> QED BY <1>1, <1>2, <1>3, <1>4, <1>5

\* Every step keeps the invariant.
LEMMA IngressStep == IngressInv /\ [Next]_vars => IngressInv'
<1> SUFFICES ASSUME IngressInv, [Next]_vars PROVE IngressInv'
  OBVIOUS
<1>1. ASSUME NEW c \in Calls, Cancel(c) PROVE IngressInv'
  BY <1>1, MoveKeeps DEF Cancel, IngressInv, TypeOK
<1>2. ASSUME NEW c \in Calls, Check(c) PROVE IngressInv'
  BY <1>2, MoveKeeps DEF Check, IngressInv, TypeOK
<1>3. ASSUME NEW c \in Calls, Normalize(c) PROVE IngressInv'
  <2>1. audited' \in SUBSET Reasons
    BY <1>3, Zenon DEF Normalize, RecordRejected, Reasons, IngressInv, TypeOK
  <2> QED BY <1>3, <2>1, MoveKeeps, Zenon DEF Normalize
<1>4. CASE UNCHANGED vars
  <2>1. TypeOK'
    BY <1>4 DEF vars, IngressInv, TypeOK
  <2>2. AcceptancesCovered' /\ AcceptancesFarApart' /\ ReplayMeansAccepted'
    BY <1>4, KeepAccepted DEF vars, IngressInv
  <2>3. CallsTimed' /\ SecretsShared'
    BY <1>4, Zenon DEF vars, IngressInv, CallsTimed, SecretsShared
  <2> QED BY <2>1, <2>2, <2>3 DEF IngressInv
<1> QED BY <1>1, <1>2, <1>3, <1>4, BeginKeeps, CommitKeeps, TickKeeps, EnvironmentKeeps DEF Next

-----------------------------------------------------------------------------
(* The theorems                                                            *)

\* The invariant holds in every state.
THEOREM IngressInvariant == Spec => []IngressInv
BY IngressInit, IngressStep, PTL DEF Spec

\* Two acceptances of one message lie within twice the tolerance by the clock
\* readings of their calls, and the second commit is the retention after the first
\* reading: what is missing is the duration of the second call.
LEMMA FarApartMeansSlow == IngressInv => AcceptedOnce
<1> SUFFICES ASSUME IngressInv, NEW i \in 1..Len(accepted), NEW j \in 1..Len(accepted),
                    Again(i, j), accepted[i].signed = accepted[j].signed
             PROVE  Retention <= 2 * Tolerance + (accepted[j].done - accepted[j].at)
  BY DEF AcceptedOnce
<1>1. /\ accepted[i].at \in Nat /\ accepted[j].at \in Nat /\ accepted[i].signed \in Nat
      /\ accepted[j].done \in Nat
  BY AcceptanceShape DEF IngressInv, Acceptance
<1>2. accepted[i].at + Retention <= accepted[j].done
  BY DEF IngressInv, AcceptancesFarApart
<1>3. /\ WithinTolerance(accepted[i].signed, accepted[i].at)
      /\ WithinTolerance(accepted[j].signed, accepted[j].at)
  BY DEF IngressInv, AcceptancesCovered
<1>4. ASSUME NEW s \in Nat, NEW a \in Nat, NEW b \in Nat, NEW d \in Nat,
             WithinTolerance(s, a), WithinTolerance(s, b), a + Retention <= d
      PROVE  Retention <= 2 * Tolerance + (d - b)
  BY <1>4, Numbers DEF WithinTolerance
<1> QED BY <1>1, <1>2, <1>3, <1>4

\* Accept (alert/ingress.go), whatever the options, the concurrency, the number of
\* deliveries and the restarts: a signed message is taken again only when the
\* retention is within twice the tolerance and the duration of the second call.
THEOREM MessageAcceptedOnce == Spec => []AcceptedOnce
BY IngressInvariant, FarApartMeansSlow, PTL

\* Accept takes an ID that is signed again only once its retention has passed.
THEOREM AcceptancesApart == Spec => []AcceptancesFarApart
<1>1. IngressInv => AcceptancesFarApart
  BY DEF IngressInv
<1> QED BY IngressInvariant, <1>1, PTL

\* A receipt, and so an ErrReplay, means that the alert was taken.
THEOREM ReceiptMeansAccepted == Spec => []ReplayMeansAccepted
<1>1. IngressInv => ReplayMeansAccepted
  BY DEF IngressInv
<1> QED BY IngressInvariant, <1>1, PTL

\* The documented rotation, on both sides and in any order, keeps every message
\* verifiable that is within the tolerance (webhook/standard.go).
THEOREM RotationSafe == Spec => []RotationKeepsTraffic
<1>1. IngressInv => RotationKeepsTraffic
  BY DEF IngressInv, RotationKeepsTraffic, SecretsShared, Verify, Signatures, WithinTolerance
<1> QED BY IngressInvariant, <1>1, PTL

\* Every variable keeps its type, acceptances of an ID are the retention apart and
\* every receipt is that of an acceptance (Accept).
THEOREM ReceiptsStaySound == Spec => []ReceiptsSound
<1>1. IngressInv => ReceiptsSound
  BY DEF IngressInv, ReceiptsSound
<1> QED BY IngressInvariant, <1>1, PTL
=============================================================================
