---------------------------- MODULE Observation ----------------------------
(***************************************************************************)
(* The observer (Observer) on its own, with the promises it makes to the   *)
(* rest of the daemon.                                                     *)
(***************************************************************************)
EXTENDS Naturals, Sequences

CONSTANTS
  Cycles, Rules, Interval, SLOWindow, ConsecutiveFailures, RecoverySamples, MaxProbeTime, MaxRuns

VARIABLES cycles, lastRun, running, states, sequence, runs, samples, probeClock

Observer == INSTANCE Observer WITH now <- probeClock, MaxTime <- MaxProbeTime

ASSUME ObservationAssumption == Observer!ObserverAssumption

observerVars == <<cycles, lastRun, running, states, sequence, runs, samples, probeClock>>

\* RunCycle: probes of a rule do not overlap and keep its Interval, the reported
\* state is the one the samples justify, and sequence numbers rise with the time
\* of the observation, however old the clock reading of a cycle has become.
ObserverSound ==
  /\ Observer!TypeOK /\ Observer!RunsApart
  /\ Observer!StateJustified /\ Observer!SequenceFollowsTime
=============================================================================
