--------------------------- MODULE Stabilization ---------------------------
(***************************************************************************)
(* internal/stabilization/verifier.go: Verify takes one health sample      *)
(* after a recovery action, keeps the samples of an attempt in a durable   *)
(* result, and ends the command in the coordinator's journal               *)
(* (CompleteStabilization) before it stores the end of the attempt.        *)
(*                                                                         *)
(* The clock read, each transaction and the probe are steps of their own,  *)
(* so several Verify calls interleave.  Submit is what a scheduled retry   *)
(* has to go through.  An Effect stands for its command, as in Recovery.   *)
(***************************************************************************)
EXTENDS Naturals

CONSTANTS
  Caller,           \* goroutines that may call Verify
  Effect,           \* recovery effects
  IdemKey,          \* request idempotency keys
  RecoverySamples,  \* StabilizationPolicy: consecutive healthy samples
  Window,           \* StabilizationPolicy: length of the window
  MaxAttempts,      \* RetryPolicy: attempts, the first one included
  AttemptOf,        \* [Effect -> the attempt its command is verified as]
  Paced,            \* callers take at most one sample per reading of the clock
  MaxSamples,       \* maxRecoverySamples (256 in the code)
  MaxTime,          \* bound on the clock
  MaxStops          \* bound on process stops

\* What the constants have to satisfy.
StabilizationAssumption ==
  /\ RecoverySamples \in 1..MaxSamples
  /\ {Window, MaxAttempts} \subseteq Nat \ {0}
  /\ {MaxSamples, MaxTime, MaxStops} \subseteq Nat
  /\ AttemptOf \in [Effect -> 0..(MaxAttempts - 1)]
  /\ Paced \in BOOLEAN
  /\ "none" \notin Effect

VARIABLES
  journal,   \* [Effect -> state of its command in the recovery journal]
  index,     \* [IdemKey -> effect the key is bound to, or "none"]
  results,   \* [Effect -> durable resultRecord of its attempt, or NoResult]
  now,       \* the clock
  call,      \* [Caller -> Verify call in flight]
  held,      \* [Caller -> command state in the copy the caller holds]
  seen,      \* history: [Effect -> samples the probe returned]
  stops      \* process stops so far

vars == <<journal, index, results, now, call, held, seen, stops>>

Outcome == {"none", "pending", "succeeded", "retry_scheduled", "failed"}

\* "other": metric_regression, docker_unavailable and probe_failed.
Reason == {"none", "unhealthy", "flapping", "timeout", "other"}

\* resultRecord: StartedAt, HealthySamples, Outcome, FailureReason and
\* NextAttempt, with 0 for the code's -1.
ResultRecord == [outcome : Outcome, started : Nat, samples : Nat,
                 reason : Reason, next : Nat]

NoResult == [outcome |-> "none", started |-> 0, samples |-> 0,
             reason |-> "none", next |-> 0]

IdleCall == [pc |-> "idle", effect |-> "none", at |-> 0, record |-> NoResult]

Call == [pc : {"idle", "load", "observe", "complete", "persist"},
         effect : Effect \cup {"none"}, at : Nat, record : ResultRecord]

\* Healthy samples, the ones since the last sample that was not healthy, and
\* the earliest clock reading of one (0: none).
Seen == [healthy : Nat, streak : Nat, since : Nat]

Init ==
  /\ journal = [e \in Effect |-> "none"]
  /\ index = [k \in IdemKey |-> "none"]
  /\ results = [e \in Effect |-> NoResult]
  /\ now = 1
  /\ call = [p \in Caller |-> IdleCall]
  /\ held = [p \in Caller |-> [e \in Effect |-> "none"]]
  /\ seen = [e \in Effect |-> [healthy |-> 0, streak |-> 0, since |-> 0]]
  /\ stops = 0

history == <<seen, stops>>

Return(p) ==
  call' = [call EXCEPT ![p] = [IdleCall EXCEPT !.at = IF Paced THEN call[p].at ELSE 0]]

Goto(p, label, record) ==
  call' = [call EXCEPT ![p] = [@ EXCEPT !.pc = label, !.record = record]]

-----------------------------------------------------------------------------
(* The coordinator: a new command for an effect, and its end               *)

\* Submit through persistNew: one command per effect for ever, whatever its
\* state.  A new command is taken to be executed, so that it stabilizes.
Submit(p, e, k) ==
  /\ index[k] \in {"none", e}
  /\ index' = [index EXCEPT ![k] = e]
  /\ IF journal[e] = "none"
     THEN journal' = [journal EXCEPT ![e] = "stabilizing"]
     ELSE UNCHANGED journal
  /\ held' = [held EXCEPT ![p] = [@ EXCEPT ![e] = journal'[e]]]
  /\ UNCHANGED <<results, now, call, history>>

\* CompleteStabilization: ends a stabilizing command, accepts a repeat of its
\* end, and rejects the opposite end (errCommandNotExecutable).
Completable(e, state) == journal[e] \in {"stabilizing", state}

-----------------------------------------------------------------------------
(* Verify                                                                  *)

\* validateRequest and the clock.  The caller's copy of the command must be
\* stabilizing, which says nothing about the stored command.
Verify(p, e) ==
  /\ call[p].pc = "idle"
  /\ held[p][e] = "stabilizing"
  /\ Paced => now > call[p].at
  /\ call' = [call EXCEPT ![p] = [IdleCall EXCEPT !.pc = "load", !.effect = e, !.at = now]]
  /\ UNCHANGED <<journal, index, results, now, held, history>>

\* fail: the samples are dropped, and a retry is scheduled when attempts are
\* left and the policy, read again, allows one; an error denies it.
Failure(c, record, reason) ==
  LET failed == [record EXCEPT !.outcome = "failed", !.samples = 0, !.reason = reason]
      next == AttemptOf[c.effect] + 1
      retry == [failed EXCEPT !.outcome = "retry_scheduled", !.next = next]
  IN  {failed} \cup (IF next < MaxAttempts THEN {retry} ELSE {})

Deadline(record) == record.started + Window

\* Mutant: a stored end of the attempt is not returned as it is.
LoadAgain(p) ==
  LET c == call[p]
  IN  /\ c.pc = "load"
      /\ Goto(p, "observe", [NoResult EXCEPT !.outcome = "pending", !.started = c.at])
      /\ UNCHANGED <<journal, index, results, now, held, history>>

\* Mutant: a window that is over does not end the attempt.
LoadPatient(p) ==
  LET c == call[p]
      stored == results[c.effect]
  IN  /\ c.pc = "load"
      /\ IF stored = NoResult
         THEN Goto(p, "observe", [NoResult EXCEPT !.outcome = "pending", !.started = c.at])
         ELSE IF stored.outcome # "pending" THEN Return(p)
         ELSE Goto(p, "observe", stored)
      /\ UNCHANGED <<journal, index, results, now, held, history>>

\* load: a result that has ended is returned, a missing one starts now, and
\* one whose window is over fails without a sample.
Load(p) ==
  LET c == call[p]
      stored == results[c.effect]
      record == IF stored = NoResult
                THEN [NoResult EXCEPT !.outcome = "pending", !.started = c.at]
                ELSE stored
  IN  /\ c.pc = "load"
      /\ IF record.outcome # "pending" THEN Return(p)
         ELSE IF c.at > Deadline(record)
         THEN \E r \in Failure(c, record, "timeout") : Goto(p, "complete", r)
         ELSE Goto(p, "observe", record)
      /\ UNCHANGED <<journal, index, results, now, held, history>>

\* Mutant: the window is not waited for.
StableEarly(c, record) == record.samples >= RecoverySamples

\* Enough consecutive samples, the last one not before the deadline.
Stable(c, record) ==
  record.samples >= RecoverySamples /\ c.at >= Deadline(record)

\* The history counts as far as the required samples.
AtLeast(n) == IF n < RecoverySamples THEN n ELSE RecoverySamples

\* A healthy sample that meets the registered thresholds.
ObserveHealthy(p) ==
  LET c == call[p]
      record == [c.record EXCEPT !.samples = @ + 1]
  IN  /\ c.pc = "observe"
      /\ IF Stable(c, record)
         THEN Goto(p, "complete", [record EXCEPT !.outcome = "succeeded"])
         ELSE Goto(p, "persist", record)
      /\ seen' = [seen EXCEPT ![c.effect] =
                    [healthy |-> AtLeast(@.healthy + 1), streak |-> AtLeast(@.streak + 1),
                     since |-> IF @.since \in 1..c.at THEN @.since ELSE c.at]]
      /\ UNCHANGED <<journal, index, results, now, held, stops>>

\* Mutant: a sample that is not healthy is skipped.
ObserveFailureSkips(p) ==
  LET c == call[p]
  IN  /\ c.pc = "observe"
      /\ Goto(p, "persist", c.record)
      /\ seen' = [seen EXCEPT ![c.effect] = [@ EXCEPT !.streak = 0]]
      /\ UNCHANGED <<journal, index, results, now, held, stops>>

\* Any other sample, or a probe error, ends the attempt.
ObserveFailure(p) ==
  LET c == call[p]
      unhealthy == IF c.record.samples > 0 THEN "flapping" ELSE "unhealthy"
  IN  /\ c.pc = "observe"
      /\ \E reason \in {unhealthy, "timeout", "other"} :
           \E r \in Failure(c, c.record, reason) : Goto(p, "complete", r)
      /\ seen' = [seen EXCEPT ![c.effect] = [@ EXCEPT !.streak = 0]]
      /\ UNCHANGED <<journal, index, results, now, held, stops>>

\* Mutant: a rejected completion does not end the call.
CompleteTrusting(p) ==
  LET c == call[p]
      state == IF c.record.outcome = "succeeded" THEN "succeeded" ELSE "failed"
  IN  /\ c.pc = "complete"
      /\ journal' = IF Completable(c.effect, state)
                    THEN [journal EXCEPT ![c.effect] = state] ELSE journal
      /\ Goto(p, "persist", c.record)
      /\ UNCHANGED <<index, results, now, held, history>>

\* complete: the command ends first; when it cannot, the result is not stored.
Complete(p) ==
  LET c == call[p]
      state == IF c.record.outcome = "succeeded" THEN "succeeded" ELSE "failed"
  IN  /\ c.pc = "complete"
      /\ IF Completable(c.effect, state)
         THEN /\ journal' = [journal EXCEPT ![c.effect] = state]
              /\ Goto(p, "persist", c.record)
         ELSE Return(p) /\ UNCHANGED journal
      /\ UNCHANGED <<index, results, now, held, history>>

\* Mutant: the record is not validated before it is stored.
PersistUnchecked(p) ==
  LET c == call[p]
  IN  /\ c.pc = "persist"
      /\ results' = [results EXCEPT ![c.effect] = c.record]
      /\ Return(p)
      /\ UNCHANGED <<journal, index, now, held, history>>

\* persist: an unconditional Put of a valid record; another one is refused.
Persist(p) ==
  LET c == call[p]
  IN  /\ c.pc = "persist"
      /\ IF c.record.samples <= MaxSamples THEN results' = [results EXCEPT ![c.effect] = c.record]
         ELSE UNCHANGED results
      /\ Return(p)
      /\ UNCHANGED <<journal, index, now, held, history>>

\* A transaction fails: Verify returns its error.
StoreFails(p) ==
  /\ call[p].pc \in {"load", "complete", "persist"}
  /\ stops < MaxStops
  /\ stops' = stops + 1
  /\ Return(p)
  /\ UNCHANGED <<journal, index, results, now, held, seen>>

\* The process stops; callers read the commands again when it is back.
Stop ==
  /\ stops < MaxStops
  /\ stops' = stops + 1
  /\ call' = [p \in Caller |-> IdleCall]
  /\ held' = [p \in Caller |-> journal]
  /\ UNCHANGED <<journal, index, results, now, seen>>

Tick ==
  /\ now < MaxTime
  /\ now' = now + 1
  /\ UNCHANGED <<journal, index, results, call, held, history>>

Step(p) == Load(p) \/ ObserveHealthy(p) \/ ObserveFailure(p) \/ Complete(p) \/ Persist(p)

Next ==
  \/ \E p \in Caller, e \in Effect, k \in IdemKey : Submit(p, e, k)
  \/ \E p \in Caller, e \in Effect : Verify(p, e)
  \/ \E p \in Caller : Step(p) \/ StoreFails(p)
  \/ Stop
  \/ Tick

Spec == Init /\ [][Next]_vars

-----------------------------------------------------------------------------
(* Properties                                                              *)

\* Type invariant; a failed end has a reason and no samples, and only a
\* scheduled retry names a next attempt (validateRecord).
TypeOK ==
  /\ journal \in [Effect -> {"none", "stabilizing", "succeeded", "failed"}]
  /\ index \in [IdemKey -> Effect \cup {"none"}]
  /\ results \in [Effect -> ResultRecord]
  /\ call \in [Caller -> Call]
  /\ seen \in [Effect -> Seen]
  /\ \A e \in Effect :
       LET record == results[e]
       IN  /\ record.samples <= MaxSamples
           /\ (record.reason # "none") = (record.outcome \in {"retry_scheduled", "failed"})
           /\ record.reason # "none" => record.samples = 0
           /\ record.next = IF record.outcome = "retry_scheduled" THEN AttemptOf[e] + 1 ELSE 0

Ended(e) == results[e].outcome \in {"succeeded", "retry_scheduled", "failed"}

\* The end stored for an attempt is the end of its command, however calls of
\* Verify interleave and wherever the process stops between CompleteStabilization
\* and the write of the result: a succeeded attempt has a succeeded command, and a
\* failed or retried one a failed command.
ResultTruthful ==
  \A e \in Effect :
    /\ results[e].outcome = "succeeded" => journal[e] = "succeeded"
    /\ results[e].outcome \in {"retry_scheduled", "failed"} => journal[e] = "failed"

\* Verify ends a command as succeeded only when its attempt has seen at least
\* RecoverySamples healthy samples and the whole window has passed since the
\* earliest one, also when concurrent calls lose each other's samples and stored
\* start times.
SuccessJustified ==
  \A e \in Effect : journal[e] = "succeeded" =>
    /\ seen[e].healthy >= RecoverySamples
    /\ now >= seen[e].since + Window

\* With one caller at a time, a result that has ended is never written again:
\* Verify returns it without a sample.
EndedResultStays ==
  [][\A e \in Effect : Ended(e) => results'[e] = results[e]]_vars

\* With one caller, no fault and at most MaxSamples samples in a window, an
\* attempt that has started and whose window ends within the clock's bound does
\* not stay pending: Verify ends it with a sample that is not healthy, with a
\* success at the deadline, or with a timeout after it.
AttemptSettles ==
  \A e \in Effect :
    results[e].outcome = "pending" /\ Deadline(results[e]) < MaxTime ~> Ended(e)

\* With one caller at a time, verifier.go:204 holds: "A command completes only after
\* the required consecutive samples and the full stabilization window pass."
ConsecutiveSamples ==
  [][\A e \in Effect : journal[e] = "stabilizing" /\ journal'[e] = "succeeded" =>
       seen[e].streak >= RecoverySamples]_vars
=============================================================================
