-------------------------- MODULE ObserverProofs --------------------------
(***************************************************************************)
(* The observer, for every value of its constants: it keeps the promises   *)
(* that Observation states.                                                *)
(***************************************************************************)
EXTENDS Observation, TLAPS

-----------------------------------------------------------------------------
(* The samples of a rule                                                   *)

\* Streak, of the samples g.
StreakOf(g, r, i, n, failed) ==
  /\ i >= n
  /\ \A j \in (i - n + 1)..i :
       /\ g[j].failed = failed
       /\ j > i - n + 1 => g[j].at <= g[j - 1].at + SLOWindow[r]

\* The state that the samples g up to the i-th justify.
Justified(g, r, i) ==
  IF StreakOf(g, r, i, ConsecutiveFailures[r], TRUE) THEN "unhealthy"
  ELSE IF StreakOf(g, r, i, RecoverySamples[r], FALSE) THEN "healthy"
  ELSE "unknown"

\* The counter is the length of the streak at the end of the samples g.
Measures(g, r, kind, count) ==
  \A n \in Nat : StreakOf(g, r, Len(g), n, kind) <=> n <= count

LastAt(g) == IF Len(g) = 0 THEN 0 ELSE g[Len(g)].at

Dated(g) == \A i \in 1..Len(g) : g[i].at > 0

\* The counters s of rule r measure the streaks at the end of its samples g, and
\* every state reported so far is the one that the samples before it justify.
Counts(g, s, r) ==
  /\ s.last = LastAt(g)
  /\ Dated(g)
  /\ Measures(g, r, TRUE, s.failures)
  /\ Measures(g, r, FALSE, s.recoveries)
  /\ \A i \in 1..Len(g) : g[i].state = Justified(g, r, i)

\* The numbers of a rule.
LEMMA RuleNumbers ==
  ASSUME NEW r \in Rules
  PROVE  /\ Interval[r] \in Nat \ {0} /\ SLOWindow[r] \in Nat \ {0}
         /\ ConsecutiveFailures[r] \in Nat \ {0} /\ RecoverySamples[r] \in Nat \ {0}
BY ObservationAssumption DEF Observer!ObserverAssumption

\* A sample more does not touch the streaks before it.
LEMMA StreakStays ==
  ASSUME NEW r \in Rules, NEW g \in Seq(Observer!Sample), NEW e \in Observer!Sample,
         NEW i \in 0..Len(g), NEW n \in Nat, NEW failed \in BOOLEAN
  PROVE  StreakOf(Append(g, e), r, i, n, failed) <=> StreakOf(g, r, i, n, failed)
<1> DEFINE b == Append(g, e)
<1>1. \A j \in 1..Len(g) : b[j] = g[j]
  OBVIOUS
<1>2. Len(g) \in Nat
  OBVIOUS
<1> HIDE DEF b
<1>3. ASSUME i >= n, NEW j \in (i - n + 1)..i
      PROVE  b[j] = g[j] /\ (j > i - n + 1 => b[j - 1] = g[j - 1])
  BY <1>1, <1>2, <1>3
<1>4. StreakOf(b, r, i, n, failed) <=> StreakOf(g, r, i, n, failed)
  BY <1>3, Zenon DEF StreakOf
<1> QED BY <1>4 DEF b

\* A sample more: it is a streak of one, or goes on with the streak before it.
LEMMA StreakGrows ==
  ASSUME NEW r \in Rules, NEW g \in Seq(Observer!Sample), NEW e \in Observer!Sample,
         NEW n \in Nat, NEW failed \in BOOLEAN
  PROVE  StreakOf(Append(g, e), r, Len(g) + 1, n, failed) <=>
           \/ n = 0
           \/ n = 1 /\ e.failed = failed
           \/ /\ n > 1 /\ e.failed = failed /\ Len(g) > 0
              /\ e.at <= g[Len(g)].at + SLOWindow[r]
              /\ StreakOf(g, r, Len(g), n - 1, failed)
<1> DEFINE b == Append(g, e)
           m == Len(g)
<1>1. m \in Nat /\ Len(b) = m + 1 /\ b[m + 1] = e /\ \A j \in 1..m : b[j] = g[j]
  OBVIOUS
<1> HIDE DEF b, m
<1>2. CASE n = 0
  BY <1>1, <1>2 DEF StreakOf, m, b
<1>3. CASE n = 1
  <2>1. StreakOf(b, r, m + 1, n, failed) <=> e.failed = failed
    BY <1>1, <1>3 DEF StreakOf
  <2> QED BY <1>3, <2>1 DEF m, b
<1>4. CASE n > 1
  <2>1. ASSUME StreakOf(b, r, m + 1, n, failed)
        PROVE  /\ e.failed = failed /\ m > 0 /\ e.at <= g[m].at + SLOWindow[r]
               /\ StreakOf(g, r, m, n - 1, failed)
    <3>1. m + 1 >= n /\ m + 1 \in ((m + 1) - n + 1)..(m + 1) /\ m + 1 > (m + 1) - n + 1 /\ m \in 1..m
      BY <1>1, <1>4, <2>1 DEF StreakOf
    <3>2. b[m + 1].failed = failed /\ b[m + 1].at <= b[(m + 1) - 1].at + SLOWindow[r]
      <4>1. /\ \A j \in ((m + 1) - n + 1)..(m + 1) : b[j].failed = failed
            /\ \A j \in ((m + 1) - n + 1)..(m + 1) : j > (m + 1) - n + 1 =>
                 b[j].at <= b[j - 1].at + SLOWindow[r]
        BY <2>1 DEF StreakOf
      <4> QED BY <3>1, <4>1, Zenon
    <3>3. ASSUME NEW j \in (m - (n - 1) + 1)..m
          PROVE  /\ g[j].failed = failed
                 /\ j > m - (n - 1) + 1 => g[j].at <= g[j - 1].at + SLOWindow[r]
      <4>1. j \in ((m + 1) - n + 1)..(m + 1) /\ j \in 1..m /\ m - (n - 1) + 1 = (m + 1) - n + 1
            /\ (j > (m + 1) - n + 1 => j - 1 \in 1..m)
        BY <1>1, <1>4, <3>1
      <4>2. /\ b[j].failed = failed
            /\ j > (m + 1) - n + 1 => b[j].at <= b[j - 1].at + SLOWindow[r]
        BY <2>1, <4>1 DEF StreakOf
      <4> QED BY <1>1, <4>1, <4>2
    <3>4. StreakOf(g, r, m, n - 1, failed)
      BY <1>1, <1>4, <3>1, <3>3 DEF StreakOf
    <3> QED BY <1>1, <3>1, <3>2, <3>4
  <2>2. ASSUME e.failed = failed, m > 0, e.at <= g[m].at + SLOWindow[r],
               StreakOf(g, r, m, n - 1, failed)
        PROVE  StreakOf(b, r, m + 1, n, failed)
    <3>1. m >= n - 1
      BY <2>2 DEF StreakOf
    <3>2. ASSUME NEW j \in ((m + 1) - n + 1)..(m + 1)
          PROVE  /\ b[j].failed = failed
                 /\ j > (m + 1) - n + 1 => b[j].at <= b[j - 1].at + SLOWindow[r]
      <4>1. CASE j = m + 1
        <5>1. b[j] = e /\ j - 1 = m /\ b[m] = g[m]
          BY <1>1, <2>2, <4>1
        <5> QED BY <2>2, <5>1
      <4>2. CASE j # m + 1
        <5>1. j \in (m - (n - 1) + 1)..m /\ j \in 1..m /\ m - (n - 1) + 1 = (m + 1) - n + 1
              /\ (j > (m + 1) - n + 1 => j - 1 \in 1..m)
          BY <1>1, <1>4, <3>1, <4>2
        <5>2. /\ g[j].failed = failed
              /\ j > m - (n - 1) + 1 => g[j].at <= g[j - 1].at + SLOWindow[r]
          BY <2>2, <5>1 DEF StreakOf
        <5> QED BY <1>1, <5>1, <5>2
      <4> QED BY <4>1, <4>2
    <3> QED BY <1>1, <1>4, <3>1, <3>2 DEF StreakOf
  <2> QED BY <1>4, <2>1, <2>2 DEF m, b
<1> QED BY <1>2, <1>3, <1>4

\* The counter of a kind of sample after the sample e, which came after last.
CountOn(count, kind, e, last, r) ==
  IF e.failed # kind THEN 0
  ELSE IF last > 0 /\ e.at > last + SLOWindow[r] THEN 1 ELSE count + 1

\* A counter that measures a streak still does so after a sample more.
LEMMA CounterGrows ==
  ASSUME NEW r \in Rules, NEW g \in Seq(Observer!Sample), NEW e \in Observer!Sample,
         NEW count \in Nat, NEW kind \in BOOLEAN, Dated(g), Measures(g, r, kind, count)
  PROVE  Measures(Append(g, e), r, kind, CountOn(count, kind, e, LastAt(g), r))
<1> DEFINE m == Len(g)
           b == Append(g, e)
           last == LastAt(g)
           next == CountOn(count, kind, e, last, r)
<1>1. m \in Nat /\ e.at \in Nat /\ SLOWindow[r] \in Nat /\ Len(b) = m + 1
  BY RuleNumbers DEF Observer!Sample
<1>2. m = 0 => count = 0 /\ last = 0
  <2>1. StreakOf(g, r, m, count, kind)
    BY DEF Measures
  <2> QED BY <1>1, <2>1 DEF StreakOf, LastAt
<1>3. m > 0 => last = g[m].at /\ last \in Nat /\ last > 0
  <2>1. m > 0 => m \in 1..m /\ g[m] \in Observer!Sample
    BY <1>1
  <2> QED BY <1>1, <2>1 DEF LastAt, Dated, Observer!Sample
<1>4. \A n \in Nat : StreakOf(g, r, m, n, kind) <=> n <= count
  BY DEF Measures
<1>5. next = IF e.failed # kind THEN 0
             ELSE IF last > 0 /\ e.at > last + SLOWindow[r] THEN 1 ELSE count + 1
  BY DEF CountOn
<1>6. \A n \in Nat : StreakOf(b, r, m + 1, n, kind) <=>
        \/ n = 0
        \/ n = 1 /\ e.failed = kind
        \/ /\ n > 1 /\ e.failed = kind /\ m > 0
           /\ e.at <= g[m].at + SLOWindow[r]
           /\ StreakOf(g, r, m, n - 1, kind)
  BY StreakGrows
<1> HIDE DEF m, b, last, next
<1>7. ASSUME NEW n \in Nat PROVE StreakOf(b, r, m + 1, n, kind) <=> n <= next
  <2>1. CASE n <= 1
    <3>1. n = 0 \/ n = 1
      BY <2>1
    <3>2. StreakOf(b, r, m + 1, n, kind) <=> n = 0 \/ e.failed = kind
      BY <1>6, <3>1
    <3>3. next \in Nat /\ (next >= 1 <=> e.failed = kind)
      BY <1>5
    <3> QED BY <3>1, <3>2, <3>3
  <2>2. CASE n > 1
    <3>1. n - 1 \in Nat /\ (StreakOf(g, r, m, n - 1, kind) <=> n - 1 <= count)
      BY <1>4, <2>2
    <3>2. StreakOf(b, r, m + 1, n, kind) <=>
            e.failed = kind /\ m > 0 /\ e.at <= g[m].at + SLOWindow[r] /\ n - 1 <= count
      BY <1>6, <2>2, <3>1
    <3>3. ASSUME e.failed = kind PROVE (m > 0 /\ e.at <= g[m].at + SLOWindow[r] /\ n - 1 <= count) <=> n <= next
      <4>1. CASE m = 0
        BY <1>2, <1>5, <2>2, <3>3, <4>1
      <4>2. CASE m > 0
        <5>1. g[m].at \in Nat /\ next = IF e.at > g[m].at + SLOWindow[r] THEN 1 ELSE count + 1
          BY <1>3, <1>5, <3>3, <4>2
        <5>2. CASE e.at > g[m].at + SLOWindow[r]
          BY <1>1, <2>2, <5>1, <5>2
        <5>3. CASE ~(e.at > g[m].at + SLOWindow[r])
          <6>1. next = count + 1 /\ e.at <= g[m].at + SLOWindow[r]
            BY <1>1, <5>1, <5>3
          <6> QED BY <4>2, <6>1
        <5> QED BY <5>2, <5>3
      <4> QED BY <1>1, <4>1, <4>2
    <3>4. e.failed # kind => ~(n <= next)
      BY <1>5, <2>2
    <3> QED BY <3>2, <3>3, <3>4
  <2> QED BY <2>1, <2>2
<1>8. Measures(b, r, kind, next)
  BY <1>1, <1>7, Zenon DEF Measures
<1> QED BY <1>8 DEF b, next, last

\* evaluate: a sample more is counted, and the state that is reported is justified.
LEMMA EvaluateCounts ==
  ASSUME NEW r \in Rules, NEW g \in Seq(Observer!Sample), NEW s \in Observer!RuleState,
         Counts(g, s, r), NEW clock \in Nat \ {0}, NEW failed \in BOOLEAN
  PROVE  LET counted == Observer!Counted(r, s, clock, failed)
             e == [at |-> clock, failed |-> failed, state |-> Observer!StateOf(r, counted)]
         IN  /\ counted \in Observer!RuleState /\ e \in Observer!Sample
             /\ Counts(Append(g, e), counted, r)
<1> DEFINE counted == Observer!Counted(r, s, clock, failed)
           e == [at |-> clock, failed |-> failed, state |-> Observer!StateOf(r, counted)]
           m == Len(g)
           b == Append(g, e)
           gap == s.last > 0 /\ clock > s.last + SLOWindow[r]
<1>1. /\ s.failures \in Nat /\ s.recoveries \in Nat /\ s.last \in Nat /\ m \in Nat
      /\ SLOWindow[r] \in Nat /\ ConsecutiveFailures[r] \in Nat /\ RecoverySamples[r] \in Nat
  BY RuleNumbers DEF Observer!RuleState
<1>2. /\ counted \in Observer!RuleState /\ counted.last = clock
      /\ counted.failures = IF ~failed THEN 0 ELSE IF gap THEN 1 ELSE s.failures + 1
      /\ counted.recoveries = IF failed THEN 0 ELSE IF gap THEN 1 ELSE s.recoveries + 1
  BY <1>1 DEF Observer!Counted, Observer!RuleState
<1>3. e \in Observer!Sample /\ e.at = clock /\ e.failed = failed
      /\ e.state = Observer!StateOf(r, counted)
  BY DEF Observer!Sample, Observer!Health, Observer!StateOf
<1> HIDE DEF counted, e
<1>4. /\ counted.failures \in Nat /\ counted.recoveries \in Nat
  BY <1>2 DEF Observer!RuleState
<1>5. Len(b) = m + 1 /\ b[m + 1] = e /\ \A i \in 1..m : b[i] = g[i]
  BY <1>1, <1>3
<1>6. /\ s.last = LastAt(g) /\ Dated(g)
      /\ \A i \in 1..m : g[i].at > 0 /\ g[i].state = Justified(g, r, i)
      /\ Measures(g, r, TRUE, s.failures) /\ Measures(g, r, FALSE, s.recoveries)
  BY Zenon DEF Counts, Dated
<1>7. Measures(b, r, TRUE, counted.failures)
  <2>1. counted.failures = CountOn(s.failures, TRUE, e, LastAt(g), r)
    BY <1>2, <1>3, <1>6, Zenon DEF CountOn
  <2> QED BY <1>1, <1>3, <1>6, <2>1, CounterGrows, Zenon
<1>8. Measures(b, r, FALSE, counted.recoveries)
  <2>1. counted.recoveries = CountOn(s.recoveries, FALSE, e, LastAt(g), r)
    BY <1>2, <1>3, <1>6, Zenon DEF CountOn
  <2> QED BY <1>1, <1>3, <1>6, <2>1, CounterGrows, Zenon
<1>9. ASSUME NEW i \in 1..(m + 1) PROVE b[i].at > 0 /\ b[i].state = Justified(b, r, i)
  <2>1. CASE i = m + 1
    <3>1. /\ StreakOf(b, r, i, ConsecutiveFailures[r], TRUE) <=>
               ConsecutiveFailures[r] <= counted.failures
          /\ StreakOf(b, r, i, RecoverySamples[r], FALSE) <=>
               RecoverySamples[r] <= counted.recoveries
      BY <1>1, <1>5, <1>7, <1>8, <2>1, Zenon DEF Measures
    <3>2. e.state = Justified(b, r, i)
      BY <1>1, <1>3, <1>4, <3>1, Zenon DEF Justified, Observer!StateOf
    <3> QED BY <1>3, <1>5, <2>1, <3>2
  <2>2. CASE i # m + 1
    <3>1. i \in 1..m /\ i \in 0..m
      BY <1>1, <2>2
    <3>2. /\ StreakOf(b, r, i, ConsecutiveFailures[r], TRUE) <=>
               StreakOf(g, r, i, ConsecutiveFailures[r], TRUE)
          /\ StreakOf(b, r, i, RecoverySamples[r], FALSE) <=>
               StreakOf(g, r, i, RecoverySamples[r], FALSE)
      BY <1>1, <1>3, <3>1, StreakStays, Zenon
    <3>3. Justified(b, r, i) = Justified(g, r, i)
      BY <3>2, Zenon DEF Justified
    <3> QED BY <1>5, <1>6, <3>1, <3>3
  <2> QED BY <2>1, <2>2
<1> HIDE DEF b
<1>10. Counts(b, counted, r)
  <2>1. counted.last = LastAt(b)
    BY <1>1, <1>2, <1>3, <1>5 DEF LastAt
  <2> QED BY <1>5, <1>7, <1>8, <1>9, <2>1, Zenon DEF Counts, Dated
<1> QED BY <1>2, <1>3, <1>10 DEF b, e, counted

-----------------------------------------------------------------------------
(* RunCycle                                                                *)

\* The rule a cycle is at, and whether it is at its probe.
Least(todo) == CHOOSE r \in todo : \A other \in todo : r <= other
Rule(c) == Least(cycles[c].todo)
Probing(c) == cycles[c].pc \in {"probe", "sequence", "finish"}

\* A cycle that probes its rule has marked it as running; it was due by the rule's
\* last probe, and once there is a result that is the rule's last probe.
CycleSound(c) ==
  /\ cycles[c].pc # "idle" => cycles[c].at > 0
  /\ cycles[c].pc = "rule" \/ Probing(c) => cycles[c].todo # {}
  /\ Probing(c) =>
       LET r == Rule(c)
       IN  /\ r \in running
           /\ cycles[c].pc = "probe" =>
                /\ LastAt(runs[r]) = lastRun[r]
                /\ lastRun[r] = 0 \/ cycles[c].at >= lastRun[r] + Interval[r]
           /\ cycles[c].pc # "probe" =>
                Len(runs[r]) > 0 /\ LastAt(runs[r]) = cycles[c].at
           /\ cycles[c].pc = "sequence" => runs[r][Len(runs[r])].seq = 0

\* No two cycles probe a rule.
Exclusive ==
  \A c, d \in Cycles : Probing(c) /\ Probing(d) /\ Rule(c) = Rule(d) => c = d

\* A rule that does not run was finished after its last probe.
Finished == \A r \in Rules : r \notin running => LastAt(runs[r]) = lastRun[r]

\* The probes of a rule.
RunsSound(h, r, limit) ==
  /\ Dated(h)
  /\ \A i \in 1..Len(h) : h[i].seq <= limit
  /\ \A i, j \in 1..Len(h) : i < j => h[i].at + Interval[r] <= h[j].at
  /\ \A i, j \in 1..Len(h) : i < j /\ h[i].seq > 0 /\ h[j].seq > 0 => h[i].seq < h[j].seq

\* No number is given twice.
Distinct ==
  \A q, r \in Rules : \A i \in 1..Len(runs[q]), j \in 1..Len(runs[r]) :
    runs[q][i].seq > 0 /\ runs[q][i].seq = runs[r][j].seq => q = r /\ i = j

\* The inductive invariant of the observer.
ObserverInv ==
  /\ Observer!TypeOK
  /\ probeClock > 0
  /\ \A c \in Cycles : CycleSound(c)
  /\ Exclusive
  /\ Finished
  /\ \A r \in Rules : RunsSound(runs[r], r, sequence)
  /\ Distinct
  /\ \A r \in Rules : Counts(samples[r], states[r], r)

\* The observer begins in the invariant.
LEMMA ObserverInit == Observer!Init => ObserverInv
<1> SUFFICES ASSUME Observer!Init PROVE ObserverInv
  OBVIOUS
<1>1. /\ \A c \in Cycles : cycles[c] = Observer!Idle /\ cycles[c].pc = "idle"
      /\ \A r \in Rules : runs[r] = <<>> /\ samples[r] = <<>> /\ Len(runs[r]) = 0
      /\ \A r \in Rules : /\ lastRun[r] = 0 /\ states[r].failures = 0
                          /\ states[r].recoveries = 0 /\ states[r].last = 0
  BY DEF Observer!Init, Observer!Idle
<1>2. Observer!TypeOK
  BY DEF Observer!Init, Observer!TypeOK, Observer!Idle, Observer!RuleState
<1>3. (\A c \in Cycles : CycleSound(c)) /\ Exclusive
  BY <1>1 DEF CycleSound, Exclusive, Probing
<1>4. Finished /\ Distinct /\ \A r \in Rules : RunsSound(runs[r], r, sequence)
  BY <1>1 DEF Finished, Distinct, RunsSound, LastAt, Dated
<1>5. ASSUME NEW r \in Rules PROVE Counts(samples[r], states[r], r)
  <2>1. Len(samples[r]) = 0
    BY <1>1
  <2>2. Measures(samples[r], r, TRUE, 0) /\ Measures(samples[r], r, FALSE, 0)
    BY <2>1 DEF Measures, StreakOf
  <2>3. Dated(samples[r]) /\ LastAt(samples[r]) = 0 /\ \A i \in 1..Len(samples[r]) : FALSE
    BY <2>1 DEF Dated, LastAt
  <2> QED BY <1>1, <2>2, <2>3, Zenon DEF Counts
<1> QED BY <1>2, <1>3, <1>4, <1>5 DEF ObserverInv, Observer!Init

\* The rule a cycle is at is one of those it has to do.
LEMMA RuleOfCycle ==
  ASSUME ObserverInv, NEW c \in Cycles, cycles[c].pc = "rule" \/ Probing(c)
  PROVE  /\ cycles[c] \in Observer!Cycle /\ cycles[c].at \in Nat /\ cycles[c].at > 0
         /\ Rule(c) \in cycles[c].todo /\ Rule(c) \in Rules /\ Observer!At(c) = Rule(c)
<1>1. cycles[c] \in Observer!Cycle
  BY DEF ObserverInv, Observer!TypeOK, Observer!Idle, Probing
<1>2. /\ cycles[c].todo \subseteq Rules /\ cycles[c].todo # {} /\ cycles[c].at \in Nat
      /\ cycles[c].at > 0
  BY <1>1 DEF Observer!Cycle, ObserverInv, CycleSound, Probing
<1>3. \E r \in cycles[c].todo : \A other \in cycles[c].todo : r <= other
  BY <1>2, ObservationAssumption DEF Observer!ObserverAssumption
<1>4. Rule(c) \in cycles[c].todo
  BY <1>3 DEF Rule, Least
<1>5. Observer!At(c) = Rule(c)
  BY DEF Observer!At, Rule, Least
<1> QED BY <1>1, <1>2, <1>4, <1>5

\* What holds of a cycle that probes its rule.
LEMMA InProbe ==
  ASSUME ObserverInv, NEW c \in Cycles, Probing(c)
  PROVE  /\ cycles[c] \in Observer!Cycle /\ cycles[c].at \in Nat \ {0} /\ cycles[c].at > 0
         /\ cycles[c].todo # {} /\ Observer!At(c) = Rule(c)
         /\ Rule(c) \in Rules /\ Rule(c) \in running /\ CycleSound(c)
<1>1. CycleSound(c)
  BY Zenon DEF ObserverInv
<1>2. cycles[c].todo # {} /\ Rule(c) \in running
  BY <1>1, Zenon DEF CycleSound
<1>3. /\ cycles[c] \in Observer!Cycle /\ cycles[c].at \in Nat /\ cycles[c].at > 0
      /\ Rule(c) \in Rules /\ Observer!At(c) = Rule(c)
  BY RuleOfCycle, Zenon
<1>4. cycles[c].at \in Nat \ {0}
  BY <1>3
<1> QED BY <1>1, <1>2, <1>3, <1>4, Zenon

\* While c probes its rule, no other cycle probes that rule.
LEMMA ProbesElsewhere ==
  ASSUME ObserverInv, NEW c \in Cycles, Probing(c)
  PROVE  \A d \in Cycles : d # c /\ Probing(d) =>
           Rule(d) # Rule(c) /\ Rule(d) \in Rules /\ Rule(d) \in running
<1>1. Exclusive
  BY Zenon DEF ObserverInv
<1> QED BY <1>1, InProbe, Zenon DEF Exclusive

\* A step that gives no probe a number keeps the numbers distinct.
LEMMA DistinctStays ==
  ASSUME Distinct,
         \A s \in Rules : \A k \in 1..Len(runs'[s]) :
           runs'[s][k].seq > 0 => k \in 1..Len(runs[s]) /\ runs'[s][k] = runs[s][k]
  PROVE  Distinct'
<1>1. ASSUME NEW q \in Rules, NEW r \in Rules, NEW i \in 1..Len(runs'[q]), NEW j \in 1..Len(runs'[r]),
             runs'[q][i].seq > 0, runs'[q][i].seq = runs'[r][j].seq
      PROVE  q = r /\ i = j
  <2>1. runs'[r][j].seq > 0
    BY <1>1, Zenon
  <2>2. /\ i \in 1..Len(runs[q]) /\ runs'[q][i] = runs[q][i]
        /\ j \in 1..Len(runs[r]) /\ runs'[r][j] = runs[r][j]
    BY <1>1, <2>1, Zenon
  <2>3. runs[q][i].seq > 0 /\ runs[q][i].seq = runs[r][j].seq
    BY <1>1, <2>2, Zenon
  <2> QED BY <2>2, <2>3 DEF Distinct
<1> QED BY <1>1 DEF Distinct

\* A cycle whose probe is over, when that is the last probe of its rule.
LEMMA ProbeRecorded ==
  ASSUME NEW c \in Cycles, NEW r, Rule(c)' = r, r \in running',
         cycles'[c].pc \in {"sequence", "finish"}, cycles'[c].at > 0, cycles'[c].todo # {},
         Len(runs'[r]) > 0, LastAt(runs'[r]) = cycles'[c].at,
         cycles'[c].pc = "sequence" => runs'[r][Len(runs'[r])].seq = 0
  PROVE  CycleSound(c)'
<1>1. cycles'[c].pc # "probe" /\ cycles'[c].pc # "idle"
  OBVIOUS
<1> QED BY <1>1, Zenon DEF CycleSound

\* What is recorded of the rules stays sound while it does not change.
LEMMA RecordsStay ==
  ASSUME ObserverInv, UNCHANGED <<states, sequence, runs, samples>>
  PROVE  /\ Distinct' /\ \A r \in Rules : RunsSound(runs[r], r, sequence)'
         /\ \A r \in Rules : Counts(samples[r], states[r], r)'
<1>1. Distinct'
  <2>1. Distinct /\ runs' = runs
    BY DEF ObserverInv
  <2> QED BY <2>1, Zenon DEF Distinct
<1>2. \A r \in Rules : RunsSound(runs[r], r, sequence)'
  BY DEF ObserverInv
<1>3. \A r \in Rules : Counts(samples[r], states[r], r)'
  BY DEF ObserverInv
<1> QED BY <1>1, <1>2, <1>3

\* A step of c leaves the other cycles as they are, when it leaves the rules alone
\* that they probe.
LEMMA OthersSound ==
  ASSUME ObserverInv, NEW c \in Cycles, \A d \in Cycles : d # c => cycles'[d] = cycles[d],
         \A d \in Cycles : d # c /\ Probing(d) =>
           /\ runs'[Rule(d)] = runs[Rule(d)] /\ lastRun'[Rule(d)] = lastRun[Rule(d)]
           /\ Rule(d) \in running'
  PROVE  \A d \in Cycles : d # c => CycleSound(d)'
<1> SUFFICES ASSUME NEW d \in Cycles, d # c PROVE CycleSound(d)'
  OBVIOUS
<1>1. cycles'[d] = cycles[d] /\ CycleSound(d)
  BY DEF ObserverInv
<1>2. Rule(d)' = Rule(d) /\ (Probing(d)' <=> Probing(d))
  BY <1>1 DEF Rule, Probing
<1> QED BY <1>1, <1>2 DEF CycleSound

\* A step of c that ends outside a probe keeps the probes exclusive, and so does one
\* that ends in a probe of a rule that no other cycle probes.
LEMMA ExclusiveStays ==
  ASSUME ObserverInv, NEW c \in Cycles, \A d \in Cycles : d # c => cycles'[d] = cycles[d],
         Probing(c)' => \A d \in Cycles : d # c /\ Probing(d) => Rule(d) # Rule(c)'
  PROVE  Exclusive'
<1>1. \A d \in Cycles : d # c => Rule(d)' = Rule(d) /\ (Probing(d)' <=> Probing(d))
  BY DEF Rule, Probing
<1> QED BY <1>1 DEF Exclusive, ObserverInv

-----------------------------------------------------------------------------
(* The steps of RunCycle                                                   *)

\* A step that changes nothing but the cycle c, which is outside a probe before and
\* after it.
LEMMA OutsideProbe ==
  ASSUME ObserverInv, NEW c \in Cycles, NEW next \in Observer!Cycle \cup {Observer!Idle},
         cycles' = [cycles EXCEPT ![c] = next],
         UNCHANGED <<lastRun, running, states, sequence, runs, samples, probeClock>>,
         next.pc \in {"idle", "rule", "done"}, next.pc = "rule" => next.todo # {},
         next.pc # "idle" => next.at > 0
  PROVE  ObserverInv'
<1>1. /\ cycles' \in [Cycles -> Observer!Cycle \cup {Observer!Idle}] /\ cycles'[c] = next
      /\ \A d \in Cycles : d # c => cycles'[d] = cycles[d]
  BY DEF ObserverInv, Observer!TypeOK
<1>2. Observer!TypeOK'
  BY <1>1 DEF ObserverInv, Observer!TypeOK
<1>3. \A d \in Cycles : Probing(d) => Rule(d) \in running
  BY InProbe, Zenon
<1>4. ~Probing(c)' /\ CycleSound(c)'
  BY <1>1 DEF Probing, CycleSound
<1>5. \A d \in Cycles : CycleSound(d)'
  BY <1>1, <1>3, <1>4, OthersSound
<1>6. Exclusive'
  BY <1>1, <1>4, ExclusiveStays
<1>7. Finished'
  BY DEF ObserverInv, Finished
<1>8. /\ Distinct' /\ \A r \in Rules : RunsSound(runs[r], r, sequence)'
      /\ \A r \in Rules : Counts(samples[r], states[r], r)'
  BY RecordsStay, Zenon
<1> QED BY <1>2, <1>5, <1>6, <1>7, <1>8 DEF ObserverInv

\* RunCycle begins.
LEMMA BeginStep ==
  ASSUME ObserverInv, NEW c \in Cycles, Observer!Begin(c)
  PROVE  ObserverInv'
<1>1. PICK enabled \in SUBSET Rules :
        cycles' = [cycles EXCEPT ![c] =
          [pc |-> IF enabled = {} THEN "done" ELSE "rule", at |-> probeClock, todo |-> enabled,
           err |-> "none"]]
  BY Zenon DEF Observer!Begin
<1> DEFINE next == [pc |-> IF enabled = {} THEN "done" ELSE "rule", at |-> probeClock,
                    todo |-> enabled, err |-> "none"]
<1>2. /\ next \in Observer!Cycle /\ next.pc \in {"rule", "done"} /\ next.at > 0
      /\ next.pc = "rule" => next.todo # {}
  BY DEF Observer!Cycle, ObserverInv, Observer!TypeOK
<1>3. cycles' = [cycles EXCEPT ![c] = next]
  BY <1>1
<1> HIDE DEF next
<1> QED BY <1>2, <1>3, OutsideProbe DEF Observer!Begin

\* The context has ended, or RunCycle returns.
LEMMA EndStep ==
  ASSUME ObserverInv, NEW c \in Cycles, Observer!Cancelled(c) \/ Observer!Return(c)
  PROVE  ObserverInv'
<1>1. CASE Observer!Cancelled(c)
  <2> DEFINE next == [cycles[c] EXCEPT !.pc = "done", !.err = "cancelled"]
  <2>1. cycles' = [cycles EXCEPT ![c] = next] /\ cycles[c].pc = "rule"
    BY <1>1 DEF Observer!Cancelled
  <2>2. cycles[c] \in Observer!Cycle /\ cycles[c].at > 0
    BY <2>1, RuleOfCycle
  <2>3. next \in Observer!Cycle /\ next.pc = "done" /\ next.at > 0
    BY <2>2, Zenon DEF Observer!Cycle
  <2> HIDE DEF next
  <2> QED BY <1>1, <2>1, <2>3, OutsideProbe, Zenon DEF Observer!Cancelled
<1>2. CASE Observer!Return(c)
  <2>1. Observer!Idle.pc = "idle"
    BY DEF Observer!Idle
  <2> QED BY <1>2, <2>1, OutsideProbe, Zenon DEF Observer!Return
<1> QED BY <1>1, <1>2

\* What Advance makes of a cycle.
LEMMA Advances ==
  ASSUME ObserverInv, NEW c \in Cycles, cycles[c].pc = "rule" \/ Probing(c), Observer!Advance(c)
  PROVE  \E next \in Observer!Cycle :
           /\ cycles' = [cycles EXCEPT ![c] = next] /\ next.pc \in {"rule", "done"}
           /\ next.pc = "rule" => next.todo # {}
           /\ next.at > 0
<1> DEFINE rest == cycles[c].todo \ {Rule(c)}
           next == [cycles[c] EXCEPT !.todo = rest,
                     !.pc = IF rest = {} \/ cycles[c].err # "none" THEN "done" ELSE "rule"]
<1>1. /\ cycles[c] \in Observer!Cycle /\ cycles[c].at > 0 /\ Observer!At(c) = Rule(c)
      /\ rest \in SUBSET Rules
  BY RuleOfCycle DEF Observer!Cycle
<1>2. cycles' = [cycles EXCEPT ![c] = next]
  BY <1>1 DEF Observer!Advance
<1> HIDE DEF rest
<1>3. /\ next \in Observer!Cycle /\ next.pc \in {"rule", "done"} /\ next.at > 0
      /\ next.pc = "rule" => next.todo # {}
  BY <1>1, Zenon DEF Observer!Cycle
<1> QED BY <1>2, <1>3, Zenon

\* startDue: the rule is skipped, or its probe begins.
LEMMA StartDueStep ==
  ASSUME ObserverInv, NEW c \in Cycles, Observer!StartDue(c)
  PROVE  ObserverInv'
<1> DEFINE r == Rule(c)
<1>1. /\ cycles[c].pc = "rule" /\ UNCHANGED <<probeClock, lastRun, states, sequence, runs, samples>>
  BY DEF Observer!StartDue
<1>2. /\ cycles[c] \in Observer!Cycle /\ cycles[c].at > 0 /\ r \in Rules /\ Observer!At(c) = r
      /\ r \in cycles[c].todo
  BY <1>1, RuleOfCycle
<1>3. CASE ~Observer!MayStart(r, cycles[c].at)
  <2>1. Observer!Advance(c) /\ UNCHANGED running
    BY <1>2, <1>3 DEF Observer!StartDue
  <2> QED BY <1>1, <2>1, Advances, OutsideProbe
<1>4. CASE Observer!MayStart(r, cycles[c].at)
  <2> DEFINE next == [cycles[c] EXCEPT !.pc = "probe"]
  <2>1. running' = running \cup {r} /\ cycles' = [cycles EXCEPT ![c] = next]
    BY <1>2, <1>4 DEF Observer!StartDue
  <2>2. r \notin running /\ (lastRun[r] = 0 \/ cycles[c].at >= lastRun[r] + Interval[r])
    BY <1>4 DEF Observer!MayStart, Observer!Due
  <2>3. next \in Observer!Cycle /\ next.pc = "probe" /\ next.at = cycles[c].at
        /\ next.todo = cycles[c].todo
    BY <1>2 DEF Observer!Cycle
  <2> HIDE DEF next
  <2>4. /\ cycles' \in [Cycles -> Observer!Cycle \cup {Observer!Idle}] /\ cycles'[c] = next
        /\ \A d \in Cycles : d # c => cycles'[d] = cycles[d]
    BY <2>1, <2>3 DEF ObserverInv, Observer!TypeOK
  <2>5. Observer!TypeOK'
    BY <1>1, <1>2, <2>1, <2>4 DEF ObserverInv, Observer!TypeOK
  <2>6. \A d \in Cycles : Probing(d) => Rule(d) \in running
    BY InProbe, Zenon
  <2>7. Rule(c)' = r /\ Probing(c)'
    BY <2>3, <2>4 DEF Rule, Probing
  <2>8. CycleSound(c)'
    <3>1. LastAt(runs[r]) = lastRun[r]
      BY <1>2, <2>2 DEF ObserverInv, Finished
    <3> QED BY <1>1, <1>2, <2>1, <2>2, <2>3, <2>4, <2>7, <3>1 DEF CycleSound
  <2>9. \A d \in Cycles : CycleSound(d)'
    BY <1>1, <2>1, <2>4, <2>6, <2>8, OthersSound
  <2>10. Exclusive'
    BY <2>2, <2>4, <2>6, <2>7, ExclusiveStays
  <2>11. Finished'
    BY <1>1, <2>1 DEF ObserverInv, Finished
  <2>12. /\ Distinct' /\ \A q \in Rules : RunsSound(runs[q], q, sequence)'
         /\ \A q \in Rules : Counts(samples[q], states[q], q)'
    BY <1>1, RecordsStay, Zenon
  <2> QED BY <1>1, <2>5, <2>9, <2>10, <2>11, <2>12 DEF ObserverInv
<1> QED BY <1>3, <1>4

\* The probe of a rule is over: it is the last one, and far enough from the one before.
LEMMA RunAdded ==
  ASSUME NEW r \in Rules, NEW h \in Seq(Observer!Run), NEW limit \in Nat, RunsSound(h, r, limit),
         NEW clock \in Nat \ {0}, LastAt(h) = 0 \/ clock >= LastAt(h) + Interval[r]
  PROVE  LET b == Append(h, [at |-> clock, seq |-> 0])
         IN  /\ b \in Seq(Observer!Run) /\ RunsSound(b, r, limit) /\ LastAt(b) = clock
             /\ Len(b) = Len(h) + 1 /\ b[Len(b)].seq = 0 /\ \A i \in 1..Len(h) : b[i] = h[i]
<1> DEFINE e == [at |-> clock, seq |-> 0]
           b == Append(h, e)
           m == Len(h)
<1>1. /\ e \in Observer!Run /\ e.at = clock /\ e.seq = 0 /\ m \in Nat
      /\ b \in Seq(Observer!Run) /\ Len(b) = m + 1 /\ b[m + 1] = e /\ \A i \in 1..m : b[i] = h[i]
  BY DEF Observer!Run
<1>2. \A i \in 1..m : h[i].at \in Nat /\ h[i].seq \in Nat /\ h[i].at > 0
  <2>1. \A i \in 1..m : h[i] \in Observer!Run
    OBVIOUS
  <2>2. \A i \in 1..m : h[i].at \in Nat /\ h[i].seq \in Nat
    BY <2>1 DEF Observer!Run
  <2> QED BY <2>2 DEF RunsSound, Dated
<1>3. Interval[r] \in Nat \ {0}
  BY RuleNumbers
<1>4. ASSUME NEW i \in 1..m PROVE h[i].at + Interval[r] <= clock
  <2>1. m \in 1..m /\ LastAt(h) = h[m].at /\ h[m].at > 0
    BY <1>2 DEF LastAt
  <2>2. h[i].at <= h[m].at
    <3>1. i = m \/ i < m
      BY <1>1
    <3>2. i < m => h[i].at + Interval[r] <= h[m].at
      BY <2>1 DEF RunsSound
    <3> QED BY <1>2, <1>3, <2>1, <3>1, <3>2
  <2> QED BY <1>2, <1>3, <2>1, <2>2, SMTT(30)
<1> HIDE DEF b, e
<1>5. Dated(b) /\ \A i \in 1..Len(b) : b[i].seq <= limit
  <2> SUFFICES ASSUME NEW i \in 1..Len(b) PROVE b[i].at > 0 /\ b[i].seq <= limit
    BY DEF Dated
  <2>1. CASE i = m + 1
    BY <1>1, <2>1
  <2>2. CASE i # m + 1
    <3>1. i \in 1..m
      BY <1>1, <2>2
    <3> QED BY <1>1, <1>2, <3>1 DEF RunsSound
  <2> QED BY <2>1, <2>2
<1>6. ASSUME NEW i \in 1..Len(b), NEW j \in 1..Len(b), i < j
      PROVE  /\ b[i].at + Interval[r] <= b[j].at
             /\ b[i].seq > 0 /\ b[j].seq > 0 => b[i].seq < b[j].seq
  <2>1. i \in 1..m /\ b[i] = h[i]
    BY <1>1, <1>6
  <2>2. CASE j = m + 1
    BY <1>1, <1>4, <2>1, <2>2
  <2>3. CASE j # m + 1
    <3>1. j \in 1..m /\ b[j] = h[j]
      BY <1>1, <2>3
    <3> QED BY <1>6, <2>1, <3>1 DEF RunsSound
  <2> QED BY <2>2, <2>3
<1>7. LastAt(b) = clock /\ b[Len(b)].seq = 0
  BY <1>1 DEF LastAt
<1>8. RunsSound(b, r, limit)
  BY <1>5, <1>6, Zenon DEF RunsSound
<1> QED BY <1>1, <1>7, <1>8 DEF b, e

\* The probe of c is over, with or without a value.
LEMMA ProbeOver ==
  ASSUME ObserverInv, NEW c \in Cycles, NEW next \in Observer!Cycle, cycles[c].pc = "probe",
         Observer!Probed(Rule(c), cycles[c].at), UNCHANGED <<lastRun, running, sequence>>,
         cycles' = [cycles EXCEPT ![c] = next], next.pc \in {"sequence", "finish"},
         next.at = cycles[c].at, next.todo = cycles[c].todo
  PROVE  /\ cycles' \in [Cycles -> Observer!Cycle \cup {Observer!Idle}]
         /\ runs' \in [Rules -> Seq(Observer!Run)]
         /\ \A d \in Cycles : CycleSound(d)'
         /\ Exclusive' /\ Finished' /\ Distinct'
         /\ \A r \in Rules : RunsSound(runs'[r], r, sequence)
<1> DEFINE p == Rule(c)
           b == Append(runs[p], [at |-> cycles[c].at, seq |-> 0])
<1>1. /\ Probing(c) /\ CycleSound(c) /\ cycles[c].at \in Nat \ {0} /\ p \in Rules /\ p \in running
  <2>1. Probing(c)
    BY Zenon DEF Probing
  <2> QED BY <2>1, InProbe, Zenon
<1>2. /\ runs[p] \in Seq(Observer!Run) /\ RunsSound(runs[p], p, sequence) /\ sequence \in Nat
      /\ Len(runs[p]) \in Nat
  BY <1>1 DEF ObserverInv, Observer!TypeOK
<1>3. LastAt(runs[p]) = 0 \/ cycles[c].at >= LastAt(runs[p]) + Interval[p]
  BY <1>1 DEF CycleSound
<1>4. /\ b \in Seq(Observer!Run) /\ RunsSound(b, p, sequence) /\ LastAt(b) = cycles[c].at
      /\ Len(b) = Len(runs[p]) + 1 /\ b[Len(b)].seq = 0
      /\ \A i \in 1..Len(runs[p]) : b[i] = runs[p][i]
  <2> DEFINE clock == cycles[c].at
  <2>1. clock \in Nat \ {0}
    BY <1>1
  <2> HIDE DEF p, clock
  <2>2. LET a == Append(runs[p], [at |-> clock, seq |-> 0])
        IN  /\ a \in Seq(Observer!Run) /\ RunsSound(a, p, sequence) /\ LastAt(a) = clock
            /\ Len(a) = Len(runs[p]) + 1 /\ a[Len(a)].seq = 0
            /\ \A i \in 1..Len(runs[p]) : a[i] = runs[p][i]
    BY <1>1, <1>2, <1>3, <2>1, RunAdded, Zenon DEF clock
  <2> QED BY <2>2 DEF clock
<1>5. runs' = [runs EXCEPT ![p] = b]
  BY DEF Observer!Probed
<1> HIDE DEF p, b
<1>6. /\ runs' \in [Rules -> Seq(Observer!Run)] /\ runs'[p] = b
      /\ \A q \in Rules : q # p => runs'[q] = runs[q]
  BY <1>1, <1>4, <1>5, Zenon DEF ObserverInv, Observer!TypeOK
<1>7. /\ cycles' \in [Cycles -> Observer!Cycle \cup {Observer!Idle}] /\ cycles'[c] = next
      /\ \A d \in Cycles : d # c => cycles'[d] = cycles[d]
  BY DEF ObserverInv, Observer!TypeOK
<1>8. Rule(c)' = p /\ Probing(c)' /\ next.todo # {} /\ next.at > 0
  <2>1. Rule(c)' = p /\ Probing(c)'
    BY <1>7 DEF Rule, Probing, p
  <2> QED BY <1>1, <2>1, InProbe, Zenon
<1>9. CycleSound(c)'
  <2>1. Len(runs'[p]) > 0
    BY <1>2, <1>4, <1>6
  <2> QED BY <1>1, <1>4, <1>6, <1>7, <1>8, <2>1, ProbeRecorded, ZenonT(60)
<1>10. \A d \in Cycles : d # c /\ Probing(d) => Rule(d) # p /\ Rule(d) \in Rules /\ Rule(d) \in running
  BY <1>1, ProbesElsewhere, Zenon DEF p
<1>11. \A d \in Cycles : CycleSound(d)'
  BY <1>6, <1>7, <1>9, <1>10, OthersSound, Zenon
<1>12. Exclusive'
  BY <1>7, <1>8, <1>10, ExclusiveStays, Zenon
<1>13. Finished'
  BY <1>1, <1>6 DEF ObserverInv, Finished, p
<1>14. \A r \in Rules : RunsSound(runs'[r], r, sequence)
  BY <1>4, <1>6 DEF ObserverInv
<1>15. Distinct'
  <2>1. ASSUME NEW s \in Rules, NEW k \in 1..Len(runs'[s]), runs'[s][k].seq > 0
        PROVE  k \in 1..Len(runs[s]) /\ runs'[s][k] = runs[s][k]
    <3>1. CASE s = p
      <4>1. k # Len(b) /\ k \in 1..Len(b)
        BY <1>4, <1>6, <2>1, <3>1
      <4>2. k \in 1..Len(runs[p])
        BY <1>2, <1>4, <4>1
      <4> QED BY <1>4, <1>6, <3>1, <4>2
    <3>2. CASE s # p
      BY <1>6, <3>2
    <3> QED BY <3>1, <3>2
  <2>2. Distinct
    BY Zenon DEF ObserverInv
  <2> QED BY <2>1, <2>2, DistinctStays, Zenon
<1> QED BY <1>6, <1>7, <1>11, <1>12, <1>13, <1>14, <1>15

\* A probe without a value.
LEMMA ProbeErrorStep ==
  ASSUME ObserverInv, NEW c \in Cycles, Observer!ProbeError(c)
  PROVE  ObserverInv'
<1>1. cycles[c].pc = "probe" /\ UNCHANGED <<probeClock, lastRun, running, states, sequence, samples>>
  BY DEF Observer!ProbeError
<1>2. cycles[c] \in Observer!Cycle /\ Observer!At(c) = Rule(c)
  BY <1>1, RuleOfCycle DEF Probing
<1>3. PICK err \in {"failed", "cancelled"} :
        cycles' = [cycles EXCEPT ![c] = [cycles[c] EXCEPT !.pc = "finish", !.err = err]]
  BY Zenon DEF Observer!ProbeError
<1>4. Observer!Probed(Rule(c), cycles[c].at)
  BY <1>2 DEF Observer!ProbeError
<1> DEFINE next == [cycles[c] EXCEPT !.pc = "finish", !.err = err]
<1>5. /\ next \in Observer!Cycle /\ next.pc = "finish" /\ next.at = cycles[c].at
      /\ next.todo = cycles[c].todo
  BY <1>2, Zenon DEF Observer!Cycle
<1> HIDE DEF next
<1>6. /\ cycles' \in [Cycles -> Observer!Cycle \cup {Observer!Idle}]
      /\ runs' \in [Rules -> Seq(Observer!Run)]
      /\ \A d \in Cycles : CycleSound(d)'
      /\ Exclusive' /\ Finished' /\ Distinct'
      /\ \A r \in Rules : RunsSound(runs'[r], r, sequence)
  BY <1>1, <1>3, <1>4, <1>5, ProbeOver, Zenon DEF next
<1>7. Observer!TypeOK'
  BY <1>1, <1>6 DEF ObserverInv, Observer!TypeOK
<1> QED BY <1>1, <1>6, <1>7 DEF ObserverInv

\* A probe with a value: evaluate counts it.
LEMMA EvaluateStep ==
  ASSUME ObserverInv, NEW c \in Cycles, Observer!Evaluate(c)
  PROVE  ObserverInv'
<1> DEFINE p == Rule(c)
           clock == cycles[c].at
<1>1. cycles[c].pc = "probe" /\ UNCHANGED <<probeClock, lastRun, running, sequence>>
  BY DEF Observer!Evaluate
<1>2. cycles[c] \in Observer!Cycle /\ Observer!At(c) = p /\ p \in Rules /\ clock \in Nat \ {0}
  BY <1>1, RuleOfCycle DEF Probing
<1>3. PICK failed \in BOOLEAN :
        LET counted == Observer!Counted(p, states[p], clock, failed)
        IN  /\ states' = [states EXCEPT ![p] = counted]
            /\ samples' = [samples EXCEPT ![p] =
                 Append(@, [at |-> clock, failed |-> failed, state |-> Observer!StateOf(p, counted)])]
  BY <1>2, Zenon DEF Observer!Evaluate, Observer!Sampled
<1>4. Observer!Probed(p, clock)
  BY <1>2 DEF Observer!Evaluate
<1> DEFINE next == [cycles[c] EXCEPT !.pc = "sequence"]
           counted == Observer!Counted(p, states[p], clock, failed)
           e == [at |-> clock, failed |-> failed, state |-> Observer!StateOf(p, counted)]
<1>5. cycles' = [cycles EXCEPT ![c] = next]
  BY DEF Observer!Evaluate
<1>6. /\ next \in Observer!Cycle /\ next.pc = "sequence" /\ next.at = cycles[c].at
      /\ next.todo = cycles[c].todo
  BY <1>2 DEF Observer!Cycle
<1>7. /\ states' = [states EXCEPT ![p] = counted]
      /\ samples' = [samples EXCEPT ![p] = Append(samples[p], e)]
  BY <1>3
<1> HIDE DEF next
<1>8. /\ cycles' \in [Cycles -> Observer!Cycle \cup {Observer!Idle}]
      /\ runs' \in [Rules -> Seq(Observer!Run)]
      /\ \A d \in Cycles : CycleSound(d)'
      /\ Exclusive' /\ Finished' /\ Distinct'
      /\ \A r \in Rules : RunsSound(runs'[r], r, sequence)
  BY <1>1, <1>4, <1>5, <1>6, ProbeOver, Zenon
<1> HIDE DEF clock, p
<1>9. samples[p] \in Seq(Observer!Sample) /\ states[p] \in Observer!RuleState /\ Counts(samples[p], states[p], p)
  BY <1>2 DEF ObserverInv, Observer!TypeOK
<1>10. counted \in Observer!RuleState /\ e \in Observer!Sample /\ Counts(Append(samples[p], e), counted, p)
  BY <1>2, <1>9, EvaluateCounts
<1> HIDE DEF counted, e
<1>11. /\ states' \in [Rules -> Observer!RuleState] /\ states'[p] = counted
       /\ \A r \in Rules : r # p => states'[r] = states[r]
  BY <1>2, <1>7, <1>10 DEF ObserverInv, Observer!TypeOK
<1>12. /\ samples' \in [Rules -> Seq(Observer!Sample)] /\ samples'[p] = Append(samples[p], e)
       /\ \A r \in Rules : r # p => samples'[r] = samples[r]
  BY <1>2, <1>7, <1>9, <1>10 DEF ObserverInv, Observer!TypeOK
<1>13. Observer!TypeOK'
  BY <1>1, <1>8, <1>11, <1>12 DEF ObserverInv, Observer!TypeOK
<1>14. ASSUME NEW r \in Rules PROVE Counts(samples'[r], states'[r], r)
  <2>1. CASE r = p
    BY <1>10, <1>11, <1>12, <2>1, Zenon
  <2>2. CASE r # p
    BY <1>11, <1>12, <2>2, Zenon DEF ObserverInv
  <2> QED BY <2>1, <2>2
<1> QED BY <1>1, <1>8, <1>13, <1>14 DEF ObserverInv

\* The last probe of a rule gets the next sequence number.
Numbered(b, h, n) == b = [h EXCEPT ![Len(h)].seq = n]

\* That keeps the probes sound.
LEMMA NumberGiven ==
  ASSUME NEW r \in Rules, NEW h \in Seq(Observer!Run), NEW limit \in Nat, RunsSound(h, r, limit),
         Len(h) > 0, NEW b, Numbered(b, h, limit + 1)
  PROVE  /\ b \in Seq(Observer!Run) /\ RunsSound(b, r, limit + 1) /\ LastAt(b) = LastAt(h)
         /\ Len(b) = Len(h) /\ b[Len(h)].seq = limit + 1
         /\ \A i \in 1..Len(h) : i # Len(h) => b[i] = h[i]
<1> DEFINE m == Len(h)
           e == [h[m] EXCEPT !.seq = limit + 1]
<1>1. m \in Nat /\ m \in 1..m /\ h[m] \in Observer!Run /\ h[m].at \in Nat
  <2>1. m \in Nat /\ m \in 1..m /\ h[m] \in Observer!Run
    OBVIOUS
  <2> QED BY <2>1 DEF Observer!Run
<1>2. e \in Observer!Run /\ e.at = h[m].at /\ e.seq = limit + 1
  <2>1. limit + 1 \in Nat
    OBVIOUS
  <2> QED BY <1>1, <2>1, Zenon DEF Observer!Run
<1> HIDE DEF e
<1>3. /\ b \in Seq(Observer!Run) /\ Len(b) = m /\ b[m] = e
      /\ \A i \in 1..m : i # m => b[i] = h[i]
  <2>1. b = [h EXCEPT ![m] = e]
    BY DEF e, Numbered
  <2> QED BY <1>1, <1>2, <2>1
<1>4. \A i \in 1..m : h[i].at \in Nat /\ h[i].seq \in Nat
  <2>1. \A i \in 1..m : h[i] \in Observer!Run
    OBVIOUS
  <2> QED BY <2>1 DEF Observer!Run
<1>5. \A i \in 1..m : b[i].at = h[i].at
  BY <1>2, <1>3
<1>6. Dated(b) /\ LastAt(b) = LastAt(h)
  BY <1>1, <1>3, <1>5 DEF RunsSound, Dated, LastAt
<1>7. \A i \in 1..m : (i # m => b[i].seq = h[i].seq /\ h[i].seq <= limit) /\ b[i].seq <= limit + 1
  BY <1>2, <1>3, <1>4 DEF RunsSound
<1>8. ASSUME NEW i \in 1..m, NEW j \in 1..m, i < j
      PROVE  /\ b[i].at + Interval[r] <= b[j].at
             /\ b[i].seq > 0 /\ b[j].seq > 0 => b[i].seq < b[j].seq
  <2>1. b[i].at + Interval[r] <= b[j].at
    BY <1>5, <1>8 DEF RunsSound
  <2>2. i # m
    BY <1>1, <1>8
  <2>3. CASE j = m
    <3>1. b[i].seq <= limit /\ b[j].seq = limit + 1 /\ b[i].seq \in Nat
      BY <1>2, <1>3, <1>4, <1>7, <2>2, <2>3
    <3> QED BY <2>1, <3>1
  <2>4. CASE j # m
    <3>1. b[i].seq = h[i].seq /\ b[j].seq = h[j].seq
      BY <1>7, <2>2, <2>4
    <3>2. h[i].seq > 0 /\ h[j].seq > 0 => h[i].seq < h[j].seq
      BY <1>8 DEF RunsSound
    <3> QED BY <2>1, <3>1, <3>2
  <2> QED BY <2>3, <2>4
<1>9. RunsSound(b, r, limit + 1)
  BY <1>3, <1>6, <1>7, <1>8, Zenon DEF RunsSound
<1> QED BY <1>2, <1>3, <1>6, <1>9

\* A greater limit holds as well.
LEMMA LimitRises ==
  ASSUME NEW r \in Rules, NEW h \in Seq(Observer!Run), NEW limit \in Nat, RunsSound(h, r, limit)
  PROVE  RunsSound(h, r, limit + 1)
<1>1. \A i \in 1..Len(h) : h[i] \in Observer!Run
  OBVIOUS
<1>2. \A i \in 1..Len(h) : h[i].seq <= limit + 1
  BY <1>1 DEF RunsSound, Observer!Run
<1> QED BY <1>2 DEF RunsSound

\* newID and the next sequence number, or an error.
LEMMA SequenceStep ==
  ASSUME ObserverInv, NEW c \in Cycles, Observer!Sequence(c)
  PROVE  ObserverInv'
<1> DEFINE p == Rule(c)
<1>1. cycles[c].pc = "sequence" /\ UNCHANGED <<probeClock, lastRun, running, states, samples>>
  BY DEF Observer!Sequence
<1>2. /\ cycles[c] \in Observer!Cycle /\ Observer!At(c) = p /\ p \in Rules /\ cycles[c].at > 0
      /\ Probing(c) /\ CycleSound(c) /\ p \in running
  <2>1. Probing(c)
    BY <1>1, Zenon DEF Probing
  <2> QED BY <2>1, InProbe, Zenon
<1>3. PICK err \in {"none", "failed", "cancelled"} : cycles' =
        [cycles EXCEPT ![c] = [cycles[c] EXCEPT !.pc = "finish", !.err = err]]
  <2>1. CASE cycles' = [cycles EXCEPT ![c] = [cycles[c] EXCEPT !.pc = "finish"]]
    <3>1. cycles[c].err \in {"none", "failed", "cancelled"}
      BY <1>2 DEF Observer!Cycle
    <3>2. [cycles[c] EXCEPT !.pc = "finish"] = [cycles[c] EXCEPT !.pc = "finish", !.err = cycles[c].err]
      BY <1>2, Zenon DEF Observer!Cycle
    <3> QED BY <2>1, <3>1, <3>2, Zenon
  <2>2. CASE cycles' = [cycles EXCEPT ![c] = [cycles[c] EXCEPT !.pc = "finish", !.err = "failed"]]
    BY <2>2
  <2> QED BY <2>1, <2>2 DEF Observer!Sequence
<1> DEFINE next == [cycles[c] EXCEPT !.pc = "finish", !.err = err]
<1>4. /\ next \in Observer!Cycle /\ next.pc = "finish" /\ next.at = cycles[c].at
      /\ next.todo = cycles[c].todo
  BY <1>2, Zenon DEF Observer!Cycle
<1> HIDE DEF next
<1>5. /\ cycles' \in [Cycles -> Observer!Cycle \cup {Observer!Idle}] /\ cycles'[c] = next
      /\ \A d \in Cycles : d # c => cycles'[d] = cycles[d]
  BY <1>3, <1>4 DEF ObserverInv, Observer!TypeOK, next
<1>6. Rule(c)' = p /\ Probing(c)' /\ next.todo # {} /\ next.at > 0
  <2>1. Rule(c)' = p /\ Probing(c)'
    BY <1>4, <1>5, Zenon DEF Rule, Probing
  <2> QED BY <1>2, <1>4, <2>1, InProbe, Zenon
<1>7. /\ runs[p] \in Seq(Observer!Run) /\ RunsSound(runs[p], p, sequence) /\ sequence \in Nat
      /\ Len(runs[p]) > 0 /\ LastAt(runs[p]) = cycles[c].at /\ runs[p][Len(runs[p])].seq = 0
      /\ Len(runs[p]) \in Nat
  <2>1. /\ runs[p] \in Seq(Observer!Run) /\ RunsSound(runs[p], p, sequence) /\ sequence \in Nat
        /\ Len(runs[p]) \in Nat
    BY <1>2 DEF ObserverInv, Observer!TypeOK
  <2>2. Len(runs[p]) > 0 /\ LastAt(runs[p]) = cycles[c].at /\ runs[p][Len(runs[p])].seq = 0
    BY <1>1, <1>2, Zenon DEF CycleSound
  <2> QED BY <2>1, <2>2
<1> HIDE DEF p
<1>8. /\ sequence' \in Nat /\ runs' \in [Rules -> Seq(Observer!Run)] /\ Len(runs'[p]) = Len(runs[p])
      /\ LastAt(runs'[p]) = LastAt(runs[p]) /\ \A q \in Rules : q # p => runs'[q] = runs[q]
      /\ \A r \in Rules : RunsSound(runs'[r], r, sequence')
      /\ Distinct'
  <2>1. CASE UNCHANGED <<sequence, runs>>
    <3>1. sequence' \in Nat /\ runs' \in [Rules -> Seq(Observer!Run)]
      BY <2>1 DEF ObserverInv, Observer!TypeOK
    <3>2. Distinct' /\ \A r \in Rules : RunsSound(runs'[r], r, sequence')
      BY <1>1, <2>1, RecordsStay, Zenon
    <3> QED BY <2>1, <3>1, <3>2, Zenon
  <2>2. CASE sequence' = sequence + 1 /\
             runs' = [runs EXCEPT ![p] = [@ EXCEPT ![Len(runs[p])].seq = sequence + 1]]
    <3> DEFINE b == [runs[p] EXCEPT ![Len(runs[p])].seq = sequence + 1]
               m == Len(runs[p])
    <3>1. /\ b \in Seq(Observer!Run) /\ RunsSound(b, p, sequence + 1) /\ LastAt(b) = LastAt(runs[p])
          /\ Len(b) = m /\ b[m].seq = sequence + 1
          /\ \A i \in 1..m : i # m => b[i] = runs[p][i]
      <4>1. b = [runs[p] EXCEPT ![Len(runs[p])].seq = sequence + 1]
        OBVIOUS
      <4> DEFINE h == runs[p]
      <4>2. /\ p \in Rules /\ h \in Seq(Observer!Run) /\ RunsSound(h, p, sequence)
            /\ sequence \in Nat /\ Len(h) > 0
        BY <1>2, <1>7 DEF p
      <4>3. Numbered(b, h, sequence + 1)
        BY <4>1 DEF Numbered
      <4> HIDE DEF b, h
      <4>4. /\ b \in Seq(Observer!Run) /\ RunsSound(b, p, sequence + 1) /\ LastAt(b) = LastAt(h)
            /\ Len(b) = Len(h) /\ b[Len(h)].seq = sequence + 1
            /\ \A i \in 1..Len(h) : i # Len(h) => b[i] = h[i]
        BY <4>2, <4>3, NumberGiven
      <4> QED BY <4>4 DEF h
    <3>2. runs' = [runs EXCEPT ![p] = b]
      BY <2>2
    <3> HIDE DEF b
    <3>3. /\ runs' \in [Rules -> Seq(Observer!Run)] /\ runs'[p] = b
          /\ \A q \in Rules : q # p => runs'[q] = runs[q]
      BY <1>2, <3>1, <3>2, Zenon DEF ObserverInv, Observer!TypeOK
    <3>4. ASSUME NEW r \in Rules PROVE RunsSound(runs'[r], r, sequence')
      <4>1. CASE r = p
        BY <2>2, <3>1, <3>3, <4>1, Zenon
      <4>2. CASE r # p
        <5>1. runs[r] \in Seq(Observer!Run) /\ RunsSound(runs[r], r, sequence)
          BY DEF ObserverInv, Observer!TypeOK
        <5> QED BY <1>7, <2>2, <3>3, <4>2, <5>1, LimitRises
      <4> QED BY <4>1, <4>2
    <3>5. ASSUME NEW s \in Rules, NEW k \in 1..Len(runs'[s])
          PROVE  /\ k \in 1..Len(runs[s])
                 /\ \/ s = p /\ k = m /\ runs'[s][k].seq = sequence + 1
                    \/ /\ ~(s = p /\ k = m) /\ runs'[s][k] = runs[s][k]
                       /\ runs[s][k].seq \in Nat /\ runs[s][k].seq <= sequence
      <4>1. runs[s] \in Seq(Observer!Run) /\ RunsSound(runs[s], s, sequence)
        BY DEF ObserverInv, Observer!TypeOK
      <4>2. k \in 1..Len(runs[s])
        BY <3>1, <3>3
      <4>3. runs[s][k].seq <= sequence /\ runs[s][k] \in Observer!Run
        BY <4>1, <4>2 DEF RunsSound
      <4>4. runs[s][k].seq \in Nat
        BY <4>3 DEF Observer!Run
      <4>5. ~(s = p /\ k = m) => runs'[s][k] = runs[s][k]
        BY <3>1, <3>3, <4>2
      <4> QED BY <3>1, <3>3, <4>2, <4>3, <4>4, <4>5, Zenon
    <3>6. ASSUME NEW q \in Rules, NEW r \in Rules,
                 NEW i \in 1..Len(runs'[q]), NEW j \in 1..Len(runs'[r]),
                 runs'[q][i].seq > 0, runs'[q][i].seq = runs'[r][j].seq
          PROVE  q = r /\ i = j
      <4> HIDE DEF m
      <4>1. CASE (q = p /\ i = m) \/ (r = p /\ j = m)
        <5>1. /\ \/ q = p /\ i = m /\ runs'[q][i].seq = sequence + 1
                 \/ ~(q = p /\ i = m) /\ runs'[q][i].seq \in Nat /\ runs'[q][i].seq <= sequence
              /\ \/ r = p /\ j = m /\ runs'[r][j].seq = sequence + 1
                 \/ ~(r = p /\ j = m) /\ runs'[r][j].seq \in Nat /\ runs'[r][j].seq <= sequence
          BY <3>5, Zenon
        <5> QED BY <1>7, <3>6, <4>1, <5>1
      <4>2. CASE ~((q = p /\ i = m) \/ (r = p /\ j = m))
        <5>1. /\ i \in 1..Len(runs[q]) /\ j \in 1..Len(runs[r])
              /\ runs'[q][i] = runs[q][i] /\ runs'[r][j] = runs[r][j]
          BY <3>5, <4>2
        <5>2. Distinct
          BY Zenon DEF ObserverInv
        <5> QED BY <3>6, <5>1, <5>2 DEF Distinct
      <4> QED BY <4>1, <4>2
    <3>7. Distinct'
      BY <3>6 DEF Distinct
    <3>8. Len(runs'[p]) = Len(runs[p]) /\ LastAt(runs'[p]) = LastAt(runs[p])
      BY <3>1, <3>3, Zenon
    <3>9. sequence' \in Nat
      BY <1>7, <2>2
    <3> HIDE DEF m
    <3> QED BY <3>3, <3>4, <3>7, <3>8, <3>9
  <2> QED BY <1>2, <2>1, <2>2 DEF Observer!Sequence, p
<1>9. CycleSound(c)'
  BY <1>1, <1>2, <1>4, <1>5, <1>6, <1>7, <1>8, ProbeRecorded, Zenon
<1>10. \A d \in Cycles : d # c /\ Probing(d) => Rule(d) # p /\ Rule(d) \in Rules /\ Rule(d) \in running
  BY <1>2, ProbesElsewhere, Zenon DEF p
<1>11. \A d \in Cycles : CycleSound(d)'
  BY <1>1, <1>5, <1>8, <1>9, <1>10, OthersSound, Zenon
<1>12. Exclusive'
  BY <1>5, <1>6, <1>10, ExclusiveStays, Zenon
<1>13. Finished'
  BY <1>1, <1>2, <1>8, Zenon DEF ObserverInv, Finished
<1>14. Observer!TypeOK'
  BY <1>1, <1>5, <1>8 DEF ObserverInv, Observer!TypeOK
<1>15. \A r \in Rules : Counts(samples[r], states[r], r)'
  BY <1>1 DEF ObserverInv
<1> QED BY <1>1, <1>8, <1>11, <1>12, <1>13, <1>14, <1>15 DEF ObserverInv

\* finish: the rule is free again, and its last run is the last probe.
LEMMA FinishStep ==
  ASSUME ObserverInv, NEW c \in Cycles, Observer!Finish(c)
  PROVE  ObserverInv'
<1> DEFINE p == Rule(c)
<1>1. cycles[c].pc = "finish" /\ UNCHANGED <<probeClock, states, sequence, runs, samples>>
  BY DEF Observer!Finish
<1>2. /\ cycles[c].at \in Nat /\ Observer!At(c) = p /\ p \in Rules /\ Probing(c)
      /\ CycleSound(c) /\ LastAt(runs[p]) = cycles[c].at
  <2>1. Probing(c)
    BY <1>1, Zenon DEF Probing
  <2>2. /\ cycles[c].at \in Nat \ {0} /\ Observer!At(c) = p /\ p \in Rules /\ CycleSound(c)
    BY <2>1, InProbe, Zenon
  <2>3. LastAt(runs[p]) = cycles[c].at
    BY <1>1, <2>1, <2>2, Zenon DEF CycleSound
  <2> QED BY <2>1, <2>2, <2>3
<1>3. /\ running' = running \ {p} /\ lastRun' = [lastRun EXCEPT ![p] = cycles[c].at]
      /\ Observer!Advance(c)
  BY <1>2 DEF Observer!Finish
<1>4. PICK next \in Observer!Cycle :
        /\ cycles' = [cycles EXCEPT ![c] = next] /\ next.pc \in {"rule", "done"}
        /\ next.pc = "rule" => next.todo # {}
        /\ next.at > 0
  BY <1>2, <1>3, Advances, Zenon
<1> HIDE DEF p
<1>5. /\ cycles' \in [Cycles -> Observer!Cycle \cup {Observer!Idle}] /\ cycles'[c] = next
      /\ \A d \in Cycles : d # c => cycles'[d] = cycles[d]
  BY <1>4 DEF ObserverInv, Observer!TypeOK
<1>6. /\ lastRun' \in [Rules -> Nat] /\ lastRun'[p] = cycles[c].at
      /\ \A q \in Rules : q # p => lastRun'[q] = lastRun[q]
  BY <1>2, <1>3 DEF ObserverInv, Observer!TypeOK
<1>7. Observer!TypeOK'
  BY <1>1, <1>3, <1>5, <1>6 DEF ObserverInv, Observer!TypeOK
<1>8. ~Probing(c)' /\ CycleSound(c)'
  BY <1>4, <1>5, Zenon DEF Probing, CycleSound
<1>9. \A d \in Cycles : d # c /\ Probing(d) => Rule(d) # p /\ Rule(d) \in Rules /\ Rule(d) \in running
  BY <1>2, ProbesElsewhere, Zenon DEF p
<1>10. \A d \in Cycles : CycleSound(d)'
  <2>1. \A d \in Cycles : d # c /\ Probing(d) =>
          /\ runs'[Rule(d)] = runs[Rule(d)] /\ lastRun'[Rule(d)] = lastRun[Rule(d)]
          /\ Rule(d) \in running'
    BY <1>1, <1>3, <1>6, <1>9
  <2> QED BY <1>5, <1>8, <2>1, OthersSound, Zenon
<1>11. Exclusive'
  BY <1>5, <1>8, ExclusiveStays, Zenon
<1>12. Finished'
  BY <1>1, <1>2, <1>3, <1>6, Zenon DEF ObserverInv, Finished
<1>13. /\ Distinct' /\ \A r \in Rules : RunsSound(runs[r], r, sequence)'
       /\ \A r \in Rules : Counts(samples[r], states[r], r)'
  BY <1>1, RecordsStay, Zenon
<1> QED BY <1>1, <1>7, <1>10, <1>11, <1>12, <1>13, Zenon DEF ObserverInv

\* The clock goes on, or the observer stands still.
LEMMA ObserverRests ==
  ASSUME ObserverInv, probeClock' \in Nat, probeClock' > 0,
         UNCHANGED <<cycles, lastRun, running, states, sequence, runs, samples>>
  PROVE  ObserverInv'
<1>1. Observer!TypeOK'
  BY DEF ObserverInv, Observer!TypeOK
<1>2. \A c \in Cycles : (Rule(c)' = Rule(c)) /\ (Probing(c)' <=> Probing(c))
  BY DEF Rule, Probing
<1>3. (\A c \in Cycles : CycleSound(c)') /\ Exclusive'
  <2>1. ASSUME NEW c \in Cycles PROVE CycleSound(c)'
    <3>1. CycleSound(c)
      BY Zenon DEF ObserverInv
    <3> QED BY <1>2, <3>1, Zenon DEF CycleSound
  <2>2. Exclusive'
    <3>1. Exclusive
      BY Zenon DEF ObserverInv
    <3> QED BY <1>2, <3>1, Zenon DEF Exclusive
  <2> QED BY <2>1, <2>2
<1>4. Finished'
  BY DEF ObserverInv, Finished
<1>5. /\ Distinct' /\ \A r \in Rules : RunsSound(runs[r], r, sequence)'
      /\ \A r \in Rules : Counts(samples[r], states[r], r)'
  BY RecordsStay, Zenon
<1> QED BY <1>1, <1>3, <1>4, <1>5, Zenon DEF ObserverInv

\* Every step of the observer keeps the invariant.
LEMMA ObserverStepSound ==
  ASSUME ObserverInv, Observer!Next
  PROVE  ObserverInv'
<1>1. CASE Observer!Tick
  <2>1. probeClock' \in Nat /\ probeClock' > 0
    BY <1>1 DEF Observer!Tick, ObserverInv, Observer!TypeOK
  <2> QED BY <1>1, <2>1, ObserverRests DEF Observer!Tick
<1>2. ASSUME NEW c \in Cycles,
             \/ Observer!Begin(c) \/ Observer!Cancelled(c) \/ Observer!StartDue(c)
             \/ Observer!ProbeError(c) \/ Observer!Evaluate(c) \/ Observer!Sequence(c)
             \/ Observer!Finish(c) \/ Observer!Return(c)
      PROVE  ObserverInv'
  BY <1>2, BeginStep, EndStep, StartDueStep, ProbeErrorStep, EvaluateStep, SequenceStep, FinishStep
<1> QED BY <1>1, <1>2 DEF Observer!Next

\* What the invariant says of the observer.
LEMMA ObserverMeaning == ObserverInv => ObserverSound
<1> SUFFICES ASSUME ObserverInv PROVE ObserverSound
  OBVIOUS
<1>1. \A r \in Rules : /\ runs[r] \in Seq(Observer!Run) /\ samples[r] \in Seq(Observer!Sample)
                       /\ Len(runs[r]) \in Nat /\ RunsSound(runs[r], r, sequence)
                       /\ Counts(samples[r], states[r], r)
  BY DEF ObserverInv, Observer!TypeOK
<1>2. Observer!RunsApart
  <2>1. ASSUME NEW c \in Cycles, NEW d \in Cycles, c # d, Probing(c), Probing(d),
               Observer!At(c) = Observer!At(d)
        PROVE  FALSE
    BY <2>1, RuleOfCycle, Zenon DEF ObserverInv, Exclusive
  <2>2. ASSUME NEW r \in Rules, NEW i \in 1..(Len(runs[r]) - 1)
        PROVE  runs[r][i].at + Interval[r] <= runs[r][i + 1].at
    <3>1. i \in 1..Len(runs[r]) /\ i + 1 \in 1..Len(runs[r]) /\ i < i + 1
      BY <1>1
    <3> QED BY <1>1, <3>1 DEF RunsSound
  <2> QED BY <2>1, <2>2, Zenon DEF Observer!RunsApart, Probing
<1>3. Observer!StateJustified
  <2> SUFFICES ASSUME NEW r \in Rules, NEW i \in DOMAIN samples[r]
               PROVE  samples[r][i].state =
                        IF Observer!Streak(r, i, ConsecutiveFailures[r], TRUE) THEN "unhealthy"
                        ELSE IF Observer!Streak(r, i, RecoverySamples[r], FALSE) THEN "healthy"
                        ELSE "unknown"
    BY Zenon DEF Observer!StateJustified
  <2>1. i \in 1..Len(samples[r])
    BY <1>1
  <2>2. samples[r][i].state = Justified(samples[r], r, i)
    BY <1>1, <2>1, Zenon DEF Counts
  <2> QED BY <2>2, Zenon DEF Justified, StreakOf, Observer!Streak
<1>4. Observer!SequenceFollowsTime
  <2>1. \A r \in Rules : DOMAIN runs[r] = 1..Len(runs[r])
    BY <1>1
  <2>2. ASSUME NEW r \in Rules, NEW i \in 1..Len(runs[r]), NEW j \in 1..Len(runs[r]), i < j,
               runs[r][i].seq > 0, runs[r][j].seq > 0
        PROVE  runs[r][i].seq < runs[r][j].seq /\ runs[r][i].at < runs[r][j].at
    <3>1. runs[r][i] \in Observer!Run /\ runs[r][j] \in Observer!Run
      BY <1>1
    <3>2. runs[r][i].at \in Nat /\ runs[r][j].at \in Nat /\ Interval[r] \in Nat \ {0}
      BY <3>1, RuleNumbers DEF Observer!Run
    <3>3. /\ runs[r][i].at + Interval[r] <= runs[r][j].at
          /\ runs[r][i].seq < runs[r][j].seq
      BY <1>1, <2>2 DEF RunsSound
    <3> QED BY <3>2, <3>3
  <2>3. Distinct
    BY DEF ObserverInv
  <2>4. \A r \in Rules : \A i, j \in DOMAIN runs[r] :
          i < j /\ runs[r][i].seq > 0 /\ runs[r][j].seq > 0 =>
            runs[r][i].seq < runs[r][j].seq /\ runs[r][i].at < runs[r][j].at
    BY <2>1, <2>2
  <2>5. ASSUME NEW q \in Rules, NEW r \in Rules, NEW i \in DOMAIN runs[q], NEW j \in DOMAIN runs[r],
               runs[q][i].seq > 0, runs[q][i].seq = runs[r][j].seq
        PROVE  q = r /\ i = j
    <3>1. i \in 1..Len(runs[q]) /\ j \in 1..Len(runs[r])
      BY <2>1
    <3> QED BY <2>3, <2>5, <3>1, Zenon DEF Distinct
  <2> QED BY <2>4, <2>5, Zenon DEF Observer!SequenceFollowsTime
<1> QED BY <1>2, <1>3, <1>4 DEF ObserverSound, ObserverInv

\* RunCycle, for any rules and any number of cycles at a time, whatever the probes
\* answer and however old a cycle's clock reading becomes: no rule is probed by two
\* cycles at a time, its probes are its Interval apart, the state reported is the
\* one that the samples justify, and sequence numbers follow the time of observation.
THEOREM ObserverStaysSound == Observer!Spec => []ObserverSound
<1>1. ObserverInv /\ [Observer!Next]_(Observer!vars) => ObserverInv'
  <2> SUFFICES ASSUME ObserverInv, [Observer!Next]_(Observer!vars) PROVE ObserverInv'
    OBVIOUS
  <2>1. CASE Observer!Next
    BY <2>1, ObserverStepSound
  <2>2. CASE UNCHANGED Observer!vars
    <3>1. probeClock' \in Nat /\ probeClock' > 0
      BY <2>2 DEF Observer!vars, ObserverInv, Observer!TypeOK
    <3> QED BY <2>2, <3>1, ObserverRests DEF Observer!vars
  <2> QED BY <2>1, <2>2
<1> QED BY <1>1, ObserverInit, ObserverMeaning, PTL DEF Observer!Spec
=============================================================================
