---------------------------- MODULE Correlation ----------------------------
(***************************************************************************)
(* The correlator (Correlator) on its own, with the promises it makes to   *)
(* the rest of the daemon.                                                 *)
(***************************************************************************)
EXTENDS Naturals, Sequences

CONSTANTS Signals, DedupeWindow, MaxSeenInputs, MaxApplied

VARIABLE incidents

Correlator == INSTANCE Correlator WITH Window <- DedupeWindow

ASSUME CorrelationAssumption == Correlator!CorrelatorAssumption

\* Ingest: an incident ends exactly as the signals it took say; a signal of another
\* window that it took is a healthy one and was not observed before it opened,
\* while one of its own window may have been; and an input counts again only after
\* the bounded SeenInputs has lost it.
CorrelatorSound ==
  /\ Correlator!TypeOK /\ Correlator!OutcomeFollowsSignals
  /\ Correlator!NoClosureFromBefore /\ Correlator!RepeatsFarApart

\* Ingest: incidents move forward, one at a time, and terminal ones rest.
IncidentsMoveForward == Correlator!IncidentsMoveForward
=============================================================================
