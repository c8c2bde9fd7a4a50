----------------------------- MODULE Correlator -----------------------------
(***************************************************************************)
(* internal/correlator/correlator.go: Ingest turns normalized signals of   *)
(* the observer and of external monitors into incidents.  One call is one  *)
(* store transaction, and all state is in the store.                       *)
(*                                                                         *)
(* A Rule stands for a target and one of its rules.  Signals may arrive in *)
(* any order, late, and more than once.                                    *)
(***************************************************************************)
EXTENDS Naturals, Sequences

CONSTANTS
  Signals,       \* the signals producers send: [input, rule, at, healthy, severity]
  Window,        \* DedupeWindow
  MaxSeenInputs, \* maxSeenInputs (256 in the code)
  MaxApplied     \* bound on the signals one incident takes

\* What the constants have to satisfy.
CorrelatorAssumption ==
  /\ {Window, MaxSeenInputs} \subseteq Nat \ {0}
  /\ \A s \in Signals : s.at \in Nat \ {0} /\ s.healthy \in BOOLEAN /\ s.severity \in 1..3

VARIABLE
  incidents      \* BucketIncidents: [dedupe key -> persistedIncident or NoIncident]

vars == <<incidents>>

\* dedupeKey: the rule and the start of the window the observation lies in.
DedupeKey(s) == <<s.rule, s.at \div Window>>

Keys == {DedupeKey(s) : s \in Signals}

Phase == {"candidate", "confirmed", "recovering", "terminal"}

IncidentState == {"open", "analyzing", "recovering", "stabilizing", "closed", "failed"}

\* persistedIncident.  applied is history: the signals that were taken, in the
\* order in which they came.
Incident == [phase : Phase, state : IncidentState, severity : 1..3, opened : Nat,
             terminal : Nat, seen : Seq({s.input : s \in Signals}), applied : Seq(Signals)]

NoIncident == [phase |-> "none"]

Active(k) == incidents[k] # NoIncident /\ incidents[k].phase # "terminal"

Init == incidents = [k \in Keys |-> NoIncident]

-----------------------------------------------------------------------------
(* The life of an incident                                                 *)

\* newCandidate
Candidate(s) ==
  [phase |-> "candidate", state |-> "open", severity |-> s.severity, opened |-> s.at,
   terminal |-> 0, seen |-> <<s.input>>, applied |-> <<s>>]

\* Mutant: every input is remembered.
AppendBoundedNever(seen, input) == Append(seen, input)

\* Mutant: one input fewer is remembered.
AppendBoundedShort(seen, input) ==
  IF Len(seen) < MaxSeenInputs THEN Append(seen, input)
  ELSE SubSeq(Append(seen, input), 3, Len(seen) + 1)

\* appendBounded: the last MaxSeenInputs inputs.
AppendBounded(seen, input) ==
  IF Len(seen) < MaxSeenInputs THEN Append(seen, input)
  ELSE Append(Tail(seen), input)

End(r, state, at) == [r EXCEPT !.phase = "terminal", !.state = state, !.terminal = at]

\* Mutant: an unhealthy signal fails any incident that is confirmed.
AdvanceUnhealthyHasty(r, at) ==
  IF r.phase = "candidate" THEN [r EXCEPT !.phase = "confirmed", !.state = "analyzing"]
  ELSE End(r, "failed", at)

AdvanceUnhealthy(r, at) ==
  CASE r.phase = "candidate" -> [r EXCEPT !.phase = "confirmed", !.state = "analyzing"]
    [] r.phase = "confirmed" -> r
    [] r.phase = "recovering" -> End(r, "failed", at)

AdvanceHealthy(r, at) ==
  CASE r.phase = "candidate" -> End(r, "closed", at)
    [] r.phase = "confirmed" -> [r EXCEPT !.phase = "recovering", !.state = "recovering"]
    [] r.phase = "recovering" /\ r.state = "recovering" -> [r EXCEPT !.state = "stabilizing"]
    [] r.phase = "recovering" /\ r.state = "stabilizing" -> End(r, "closed", at)

\* Mutant: a terminal incident is opened again.
AdvanceReopens(r, s) ==
  IF r.phase = "terminal" /\ ~s.healthy THEN Candidate(s)
  ELSE IF r.phase = "terminal" THEN r
  ELSE IF s.healthy THEN AdvanceHealthy(r, s.at) ELSE AdvanceUnhealthy(r, s.at)

\* advance: nothing happens to a terminal incident; a severity is only raised.
Advance(r, s) ==
  LET raised == IF s.severity > r.severity THEN [r EXCEPT !.severity = s.severity] ELSE r
  IN  IF r.phase = "terminal" THEN r
      ELSE IF s.healthy THEN AdvanceHealthy(raised, s.at) ELSE AdvanceUnhealthy(raised, s.at)

\* contains
Contains(inputs, input) == \E i \in DOMAIN inputs : inputs[i] = input

\* updateRecord: an input that the record remembers changes nothing.
UpdateRecord(k, s) ==
  LET r == incidents[k]
      taken == [r EXCEPT !.seen = AppendBounded(@, s.input), !.applied = Append(@, s)]
  IN  incidents' = [incidents EXCEPT ![k] =
                      IF Contains(r.seen, s.input) THEN r ELSE Advance(taken, s)]

-----------------------------------------------------------------------------
(* Ingest                                                                  *)

\* Mutant: a healthy signal may belong to an incident that opened after it.
MatchesLate(k, s) == Active(k) /\ k[1] = s.rule

\* matchesActiveRecord
Matches(k, s) == Active(k) /\ k[1] = s.rule /\ s.at >= incidents[k].opened

\* findActiveRecord: of the incidents that match, the one that opened last, if any.
FindActiveRecord(s) ==
  {k \in Keys : /\ Matches(k, s)
                /\ \A other \in Keys :
                     Matches(other, s) => incidents[other].opened <= incidents[k].opened}

\* The record Ingest works on: that of the signal's own window, or, for a
\* healthy signal without one, the latest active incident.  A healthy signal
\* without either is ignored.
Ingest(s) ==
  LET key == DedupeKey(s)
  IN  IF incidents[key] # NoIncident THEN UpdateRecord(key, s)
      ELSE IF ~s.healthy
      THEN incidents' = [incidents EXCEPT ![key] = Candidate(s)]
      ELSE \/ \E k \in FindActiveRecord(s) : UpdateRecord(k, s)
           \/ (\A k \in Keys : ~Matches(k, s)) /\ UNCHANGED incidents

Next ==
  \E s \in Signals :
    /\ Ingest(s)
    /\ \A k \in Keys : incidents'[k] # NoIncident => Len(incidents'[k].applied) <= MaxApplied

Spec == Init /\ [][Next]_vars

-----------------------------------------------------------------------------
(* Properties                                                              *)

\* Type invariant; phase and state of a record agree (phaseMatchesIncident), and
\* exactly a terminal one has a terminal time.
TypeOK ==
  \A k \in Keys : incidents[k] # NoIncident =>
    LET r == incidents[k]
    IN  /\ r \in [phase : Phase, state : IncidentState, severity : 1..3, opened : Nat,
                  terminal : Nat, seen : {r.seen}, applied : {r.applied}]
        /\ Len(r.seen) \in 1..MaxSeenInputs
        /\ \A i, j \in DOMAIN r.seen : r.seen[i] = r.seen[j] => i = j
        /\ <<r.phase, r.state>> \in
             {<<"candidate", "open">>, <<"confirmed", "analyzing">>,
              <<"recovering", "recovering">>, <<"recovering", "stabilizing">>,
              <<"terminal", "closed">>, <<"terminal", "failed">>}
        /\ (r.phase = "terminal") = (r.terminal > 0)

\* The healthy flags of the signals an incident took.
Course(r) == [i \in DOMAIN r.applied |-> r.applied[i].healthy]

\* A course ends in a closed incident when its second signal was healthy, or when
\* three healthy signals followed the unhealthy ones; in a failed one when an
\* unhealthy signal came after the first or second of these.
ClosedCourse(c) ==
  \/ Len(c) >= 2 /\ ~c[1] /\ c[2]
  \/ \E n \in 3..(Len(c) - 2) : /\ \A i \in 1..(n - 1) : ~c[i]
                                /\ c[n] /\ c[n + 1] /\ c[n + 2]

FailedCourse(c) ==
  \E n \in 3..(Len(c) - 1) : /\ \A i \in 1..(n - 1) : ~c[i]
                             /\ c[n]
                             /\ ~c[n + 1] \/ (n + 2 <= Len(c) /\ ~c[n + 2])

\* An incident is closed or failed exactly when the signals it took, in the order
\* in which they came, say so; whatever order, lateness and repetition they have,
\* none is skipped and none ends an incident early.
OutcomeFollowsSignals ==
  \A k \in Keys : incidents[k] # NoIncident =>
    LET r == incidents[k]
    IN  /\ (r.state = "closed") = ClosedCourse(Course(r))
        /\ (r.state = "failed") = FailedCourse(Course(r))

\* Ingest takes an input twice into one incident only when more than
\* MaxSeenInputs others came in between (SeenInputs is bounded).
RepeatsFarApart ==
  \A k \in Keys : incidents[k] # NoIncident =>
    LET a == incidents[k].applied
    IN  \A i, j \in DOMAIN a : i < j /\ a[i].input = a[j].input => j - i > MaxSeenInputs

\* A terminal incident never changes again, an open one never goes back to an
\* earlier phase and its severity never drops, and a signal changes the incident
\* of one window of its own rule at most.
IncidentsMoveForward ==
  [][\A k \in DOMAIN incidents : incidents'[k] # incidents[k] =>
       /\ \A l \in DOMAIN incidents : incidents'[l] # incidents[l] => k = l
       /\ incidents[k] # NoIncident =>
            LET r == incidents[k]
                next == incidents'[k]
                rank(p) == CASE p = "candidate" -> 1 [] p = "confirmed" -> 2
                             [] p = "recovering" -> 3 [] p = "terminal" -> 4
            IN  /\ next # NoIncident
                /\ rank(r.phase) <= rank(next.phase)
                /\ r.severity <= next.severity
                /\ r.opened = next.opened
                /\ r.phase = "terminal" =>
                     /\ next.state = r.state
                     /\ next.severity = r.severity
                     /\ next.terminal = r.terminal]_vars

\* A signal outside the window of an incident reaches it only when it is healthy
\* and was not observed before the incident opened; a signal of its own window
\* counts whenever it was observed (findActiveRecord, matchesActiveRecord).
NoClosureFromBefore ==
  \A k \in Keys : incidents[k] # NoIncident =>
    LET a == incidents[k].applied
    IN  \A i \in DOMAIN a :
          DedupeKey(a[i]) = k \/ (a[i].healthy /\ a[i].at >= incidents[k].opened)
=============================================================================
