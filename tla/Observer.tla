------------------------------ MODULE Observer ------------------------------
(***************************************************************************)
(* internal/observer/observer.go: a Scheduler whose RunCycle may be called *)
(* concurrently.  A cycle takes one snapshot of the targets and one clock  *)
(* reading, and probes the rules that are due, one after the other, by     *)
(* that reading, however old it has become.                                *)
(*                                                                         *)
(* Rules are numbered in the order of the snapshot.  A probe that fails or *)
(* yields no usable value ends its cycle with an error.                    *)
(***************************************************************************)
EXTENDS Naturals, Sequences

CONSTANTS
  Cycles,               \* concurrent callers of RunCycle
  Rules,                \* the rules of all targets, as numbers
  Interval, SLOWindow,  \* the numbers of every rule: [Rules -> Nat]
  ConsecutiveFailures,
  RecoverySamples,
  MaxTime,              \* bound on the clock, which starts at 1
  MaxRuns               \* bound on the probes of one rule

\* What the constants have to satisfy: RunCycle goes through the rules in an
\* order, so of those that are left there is a first one.
ObserverAssumption ==
  /\ \A some \in SUBSET Rules : some # {} => \E r \in some : \A other \in some : r <= other
  /\ {Interval, SLOWindow, ConsecutiveFailures, RecoverySamples} \subseteq [Rules -> Nat \ {0}]

VARIABLES
  now,
  cycles,    \* RunCycle calls in progress
  lastRun,   \* Scheduler.lastRun; 0 is the zero time
  running,   \* Scheduler.running
  states,    \* Scheduler.states; of the samples only the last one's time is read
  sequence,  \* Scheduler.sequence
  runs,      \* history: the probes of every rule, in the order of their results
  samples    \* history: what evaluate counted and reported, rule by rule

vars == <<now, cycles, lastRun, running, states, sequence, runs, samples>>

Idle == [pc |-> "idle"]

RuleState == [failures : Nat, recoveries : Nat, last : Nat]

Health == {"healthy", "unhealthy", "unknown"}

\* A probe and the sequence number of its observation, 0 without one.
Run == [at : Nat, seq : Nat]

Sample == [at : Nat, failed : BOOLEAN, state : Health]

Cycle == [pc : {"rule", "probe", "sequence", "finish", "done"}, at : Nat, todo : SUBSET Rules,
          err : {"none", "failed", "cancelled"}]

Init ==
  /\ now = 1
  /\ cycles = [c \in Cycles |-> Idle]
  /\ lastRun = [r \in Rules |-> 0]
  /\ running = {}
  /\ states = [r \in Rules |-> [failures |-> 0, recoveries |-> 0, last |-> 0]]
  /\ sequence = 0
  /\ runs = [r \in Rules |-> <<>>]
  /\ samples = [r \in Rules |-> <<>>]

Due(r, clock) == lastRun[r] = 0 \/ clock >= lastRun[r] + Interval[r]

\* The rule a cycle is at.
At(c) == CHOOSE r \in cycles[c].todo : \A other \in cycles[c].todo : r <= other

-----------------------------------------------------------------------------
(* RunCycle                                                                *)

\* The snapshot, with any of the targets enabled, and the clock reading.
Begin(c) ==
  /\ cycles[c] = Idle
  /\ \E enabled \in SUBSET Rules :
       cycles' = [cycles EXCEPT ![c] =
         [pc |-> IF enabled = {} THEN "done" ELSE "rule", at |-> now, todo |-> enabled,
          err |-> "none"]]
  /\ UNCHANGED <<now, lastRun, running, states, sequence, runs, samples>>

\* Mutant: the index runs past the last rule.
AdvanceStuck(c) ==
  cycles' = [cycles EXCEPT ![c] = [cycles[c] EXCEPT !.todo = {At(c) + 1},
                                    !.pc = IF cycles[c].err # "none" THEN "done" ELSE "rule"]]

\* The cycle goes on to its next rule, or ends.
Advance(c) ==
  LET rest == cycles[c].todo \ {At(c)}
  IN  cycles' = [cycles EXCEPT ![c] =
        [cycles[c] EXCEPT !.todo = rest,
                          !.pc = IF rest = {} \/ cycles[c].err # "none" THEN "done" ELSE "rule"]]

\* Mutant: the running flag is not consulted.
MayStartOverlapping(r, clock) == Due(r, clock)

\* Mutant: a clock reading from before the last run counts as due.
MayStartBackwards(r, clock) == r \notin running /\ (Due(r, clock) \/ clock < lastRun[r])

\* What startDue requires.
MayStart(r, clock) == r \notin running /\ Due(r, clock)

\* The context has ended before the next probe.
Cancelled(c) ==
  /\ cycles[c].pc = "rule"
  /\ cycles' = [cycles EXCEPT ![c] = [cycles[c] EXCEPT !.pc = "done", !.err = "cancelled"]]
  /\ UNCHANGED <<now, lastRun, running, states, sequence, runs, samples>>

StartDue(c) ==
  LET r == At(c)
  IN  /\ cycles[c].pc = "rule"
      /\ IF MayStart(r, cycles[c].at)
         THEN /\ running' = running \cup {r}
              /\ cycles' = [cycles EXCEPT ![c] = [cycles[c] EXCEPT !.pc = "probe"]]
         ELSE Advance(c) /\ UNCHANGED running
      /\ UNCHANGED <<now, lastRun, states, sequence, runs, samples>>

\* The probe of rule r is over.
Probed(r, clock) == runs' = [runs EXCEPT ![r] = Append(@, [at |-> clock, seq |-> 0])]

\* probe.Observe fails, also because the context ended, or its values lack the
\* rule's signal (failedSample).
ProbeError(c) ==
  LET r == At(c)
  IN  /\ cycles[c].pc = "probe"
      /\ Probed(r, cycles[c].at)
      /\ \E err \in {"failed", "cancelled"} :
           cycles' = [cycles EXCEPT ![c] = [cycles[c] EXCEPT !.pc = "finish", !.err = err]]
      /\ UNCHANGED <<now, lastRun, running, states, sequence, samples>>

\* Mutant: a gap longer than the window does not reset the counters.
CountedNoGap(r, old, clock, failed) ==
  [failures |-> IF failed THEN old.failures + 1 ELSE 0,
   recoveries |-> IF failed THEN 0 ELSE old.recoveries + 1,
   last |-> clock]

\* evaluate: the counters after a sample.
Counted(r, old, clock, failed) ==
  LET gap == old.last > 0 /\ clock > old.last + SLOWindow[r]
      failures == IF gap THEN 0 ELSE old.failures
      recoveries == IF gap THEN 0 ELSE old.recoveries
  IN  [failures |-> IF failed THEN failures + 1 ELSE 0,
       recoveries |-> IF failed THEN 0 ELSE recoveries + 1,
       last |-> clock]

\* evaluate: the state they mean.
StateOf(r, s) ==
  IF s.failures >= ConsecutiveFailures[r] THEN "unhealthy"
  ELSE IF s.recoveries >= RecoverySamples[r] THEN "healthy"
  ELSE "unknown"

\* What a value that boundedValues keeps may be: on either side of the threshold.
Sampled == BOOLEAN

\* The probe yields a value, and evaluate counts it under the mutex.
Evaluate(c) ==
  LET r == At(c)
  IN  /\ cycles[c].pc = "probe"
      /\ \E failed \in Sampled :
           LET counted == Counted(r, states[r], cycles[c].at, failed)
           IN  /\ states' = [states EXCEPT ![r] = counted]
               /\ samples' = [samples EXCEPT ![r] =
                    Append(@, [at |-> cycles[c].at, failed |-> failed, state |-> StateOf(r, counted)])]
      /\ Probed(r, cycles[c].at)
      /\ cycles' = [cycles EXCEPT ![c] = [cycles[c] EXCEPT !.pc = "sequence"]]
      /\ UNCHANGED <<now, lastRun, running, sequence>>

\* newID, which may fail, and the next sequence number under the mutex again.
Sequence(c) ==
  LET r == At(c)
  IN  /\ cycles[c].pc = "sequence"
      /\ \/ /\ sequence' = sequence + 1
            /\ runs' = [runs EXCEPT ![r] = [@ EXCEPT ![Len(runs[r])].seq = sequence + 1]]
            /\ cycles' = [cycles EXCEPT ![c] = [cycles[c] EXCEPT !.pc = "finish"]]
         \/ /\ cycles' = [cycles EXCEPT ![c] = [cycles[c] EXCEPT !.pc = "finish", !.err = "failed"]]
            /\ UNCHANGED <<sequence, runs>>
      /\ UNCHANGED <<now, lastRun, running, states, samples>>

\* finish, also after an error.
Finish(c) ==
  LET r == At(c)
  IN  /\ cycles[c].pc = "finish"
      /\ running' = running \ {r}
      /\ lastRun' = [lastRun EXCEPT ![r] = cycles[c].at]
      /\ Advance(c)
      /\ UNCHANGED <<now, states, sequence, runs, samples>>

Return(c) ==
  /\ cycles[c].pc = "done"
  /\ cycles' = [cycles EXCEPT ![c] = Idle]
  /\ UNCHANGED <<now, lastRun, running, states, sequence, runs, samples>>

Tick ==
  /\ now < MaxTime
  /\ now' = now + 1
  /\ UNCHANGED <<cycles, lastRun, running, states, sequence, runs, samples>>

Next ==
  /\ \/ \E c \in Cycles : \/ Begin(c) \/ Cancelled(c) \/ StartDue(c) \/ ProbeError(c)
                          \/ Evaluate(c) \/ Sequence(c) \/ Finish(c) \/ Return(c)
     \/ Tick
  /\ \A r \in Rules : Len(runs'[r]) <= MaxRuns

Spec == Init /\ [][Next]_vars

-----------------------------------------------------------------------------
(* Properties                                                              *)

\* Type invariant.
TypeOK ==
  /\ now \in Nat
  /\ cycles \in [Cycles -> Cycle \cup {Idle}]
  /\ lastRun \in [Rules -> Nat]
  /\ running \subseteq Rules
  /\ states \in [Rules -> RuleState]
  /\ sequence \in Nat
  /\ runs \in [Rules -> Seq(Run)]
  /\ samples \in [Rules -> Seq(Sample)]

\* observer.go:60: "a rule already running is skipped": no rule is probed by two
\* cycles at a time, and whatever readings the cycles go by, two probes of a rule
\* are its Interval apart.
RunsApart ==
  /\ \A c, d \in Cycles : c # d =>
       ~ /\ cycles[c].pc \in {"probe", "sequence", "finish"}
         /\ cycles[d].pc \in {"probe", "sequence", "finish"}
         /\ At(c) = At(d)
  /\ \A r \in Rules : \A i \in 1..(Len(runs[r]) - 1) :
       runs[r][i].at + Interval[r] <= runs[r][i + 1].at

\* The last n samples of the rule up to the i-th are alike and without a gap.
Streak(r, i, n, failed) ==
  /\ i >= n
  /\ \A j \in (i - n + 1)..i :
       /\ samples[r][j].failed = failed
       /\ j > i - n + 1 => samples[r][j].at <= samples[r][j - 1].at + SLOWindow[r]

\* evaluate reports a rule as unhealthy exactly when its last ConsecutiveFailures
\* samples failed, as healthy exactly when its last RecoverySamples passed, both
\* without a gap longer than the window, and as unknown otherwise, whatever cycles
\* took the samples.
StateJustified ==
  \A r \in Rules : \A i \in DOMAIN samples[r] :
    samples[r][i].state =
      IF Streak(r, i, ConsecutiveFailures[r], TRUE) THEN "unhealthy"
      ELSE IF Streak(r, i, RecoverySamples[r], FALSE) THEN "healthy"
      ELSE "unknown"

\* The sequence numbers of one rule's observations rise with ObservedAt, although
\* the number is taken in another critical section than the sample, and no number
\* is given twice.
SequenceFollowsTime ==
  /\ \A r \in Rules : \A i, j \in DOMAIN runs[r] :
       i < j /\ runs[r][i].seq > 0 /\ runs[r][j].seq > 0 =>
         runs[r][i].seq < runs[r][j].seq /\ runs[r][i].at < runs[r][j].at
  /\ \A q, r \in Rules : \A i \in DOMAIN runs[q], j \in DOMAIN runs[r] :
       runs[q][i].seq > 0 /\ runs[q][i].seq = runs[r][j].seq => q = r /\ i = j
=============================================================================
