------------------------- MODULE VerificationProofs -------------------------
(***************************************************************************)
(* The verifier, for any number of concurrent callers, effects, samples,   *)
(* process stops and failing transactions: what it stores is true, and a   *)
(* success is earned.                                                      *)
(***************************************************************************)
EXTENDS Verification, TLAPS

-----------------------------------------------------------------------------
(* The inductive invariant                                                 *)

\* What validateRecord accepts as the record of an attempt of e.
Wellformed(e, r) ==
  /\ (r.reason # "none") = (r.outcome \in {"retry_scheduled", "failed"})
  /\ r.reason # "none" => r.samples = 0
  /\ r.next = IF r.outcome = "retry_scheduled" THEN AttemptOf[e] + 1 ELSE 0

\* The samples a record counts were seen, the first of them not after it started:
\* a call that lost others' samples has counted fewer, never more.
Covered(e, r) ==
  /\ r.samples > 0
  /\ seen[e].since \in 1..r.started
  /\ seen[e].healthy >= Verifier!AtLeast(r.samples)

\* What SuccessJustified asks for, with a first sample that there was.
Earned(e) ==
  /\ seen[e].healthy >= StableSamples
  /\ seen[e].since > 0
  /\ verifyClock >= seen[e].since + StableWindow

\* The end in a record is that of the command.
Truthful(e, r) ==
  /\ r.outcome = "succeeded" => journal[e] = "succeeded"
  /\ r.outcome \in {"retry_scheduled", "failed"} => journal[e] = "failed"

\* What holds of a stored result, its command and the samples seen.
EffectSound(e) ==
  /\ results[e].outcome = "pending" => Covered(e, results[e])
  /\ Truthful(e, results[e])
  /\ journal[e] = "succeeded" => Earned(e)
  /\ seen[e].healthy <= StableSamples

\* What a call relies on when it goes on, by the step it is at.
CallSound(c) ==
  /\ c.effect \in Effect /\ c.at \in 1..verifyClock
  /\ c.pc # "load" => Wellformed(c.effect, c.record)
  /\ c.pc = "observe" =>
       /\ c.record.outcome = "pending"
       /\ Covered(c.effect, c.record) \/ (c.record.samples = 0 /\ c.record.started = c.at)
  /\ c.pc = "complete" =>
       /\ c.record.outcome \in {"succeeded", "retry_scheduled", "failed"}
       /\ c.record.outcome = "succeeded" => Earned(c.effect)
  /\ c.pc = "persist" =>
       /\ c.record.outcome # "none"
       /\ c.record.outcome = "pending" => Covered(c.effect, c.record)
       /\ Truthful(c.effect, c.record)

\* The inductive invariant of the verifier.
VerifierInv ==
  /\ Verifier!TypeOK
  /\ verifyClock \in Nat \ {0}
  /\ \A e \in Effect : EffectSound(e)
  /\ \A p \in Verifiers : call[p].pc # "idle" => CallSound(call[p])

-----------------------------------------------------------------------------
(* Helpers                                                                 *)

\* What the constants are.
LEMMA VerifierNumbers ==
  /\ StableSamples \in Nat /\ StableSamples >= 1 /\ StableWindow \in Nat
  /\ MaxAttempts \in Nat /\ MaxSamples \in Nat
  /\ AttemptOf \in [Effect -> Nat]
  /\ "none" \notin Effect
BY VerificationAssumption DEF Verifier!StabilizationAssumption

\* The invariant holds at the start.
LEMMA VerifierInit == Verifier!Init => VerifierInv
BY VerifierNumbers DEF Verifier!Init, VerifierInv, Verifier!TypeOK, EffectSound, Truthful,
   Verifier!NoResult, Verifier!IdleCall, Verifier!ResultRecord, Verifier!Call, Verifier!Seen,
   Verifier!Outcome, Verifier!Reason

\* The clock and the samples seen never go back, and an ended command rests.
Grows ==
  /\ verifyClock' \in Nat /\ verifyClock' >= verifyClock
  /\ \A e \in Effect :
       /\ seen[e].since > 0 => seen'[e].since \in 1..seen[e].since
       /\ seen'[e].healthy \in seen[e].healthy..StableSamples
       /\ journal[e] \in {"succeeded", "failed"} => journal'[e] = journal[e]

\* What is covered, earned and truthful stays so.
LEMMA EffectKept ==
  ASSUME VerifierInv, Grows, NEW e \in Effect, NEW r \in Verifier!ResultRecord
  PROVE  /\ Covered(e, r) => Covered(e, r)'
         /\ Earned(e) => Earned(e)'
         /\ Truthful(e, r) => Truthful(e, r)'
<1>1. Covered(e, r) => Covered(e, r)'
  BY VerifierNumbers DEF VerifierInv, Verifier!TypeOK, Covered, Grows, Verifier!AtLeast, Verifier!Seen,
     Verifier!ResultRecord
<1>2. Earned(e) => Earned(e)'
  BY VerifierNumbers DEF VerifierInv, Verifier!TypeOK, Earned, Grows, Verifier!Seen
<1>3. Truthful(e, r) => Truthful(e, r)'
  BY DEF Truthful, Grows
<1>4. QED
  BY <1>1, <1>2, <1>3

\* A call that does not move stays sound.
LEMMA CallKept ==
  ASSUME VerifierInv, Grows, NEW p \in Verifiers, call'[p] = call[p], call[p].pc # "idle"
  PROVE  CallSound(call[p])'
<1> DEFINE c == call[p]
<1>1. CallSound(c) /\ c \in Verifier!Call
  BY DEF VerifierInv, Verifier!TypeOK
<1>2. c.effect \in Effect /\ c.record \in Verifier!ResultRecord
  BY <1>1 DEF CallSound, Verifier!Call
<1>3. /\ Covered(c.effect, c.record) => Covered(c.effect, c.record)'
      /\ Earned(c.effect) => Earned(c.effect)'
      /\ Truthful(c.effect, c.record) => Truthful(c.effect, c.record)'
  BY <1>2, EffectKept
<1>4. Wellformed(c.effect, c.record)' = Wellformed(c.effect, c.record)
  BY DEF Wellformed
<1>5. c.at \in 1..verifyClock'
  BY <1>1 DEF CallSound, VerifierInv, Verifier!Call, Grows
<1>6. QED
  BY <1>1, <1>3, <1>4, <1>5 DEF CallSound

\* A step without a sample lets them grow.
LEMMA NothingSeen ==
  ASSUME VerifierInv, seen' = seen, verifyClock' = verifyClock \/ verifyClock' = verifyClock + 1,
         \A e \in Effect : journal[e] \in {"succeeded", "failed"} => journal'[e] = journal[e]
  PROVE  Grows
<1>1. ASSUME NEW e \in Effect
      PROVE  seen[e].since \in Nat /\ seen[e].healthy \in 0..StableSamples
  BY VerifierNumbers DEF VerifierInv, Verifier!TypeOK, EffectSound, Verifier!Seen
<1>2. verifyClock' \in Nat /\ verifyClock' >= verifyClock
  BY DEF VerifierInv
<1>3. QED
  BY <1>1, <1>2, VerifierNumbers DEF Grows

\* A step that lets them grow and stores no result has to be checked only for the
\* call that takes it and the command it ends.
LEMMA StepKeeps ==
  ASSUME VerifierInv, Grows, Verifier!TypeOK',
         \A e \in Effect : /\ results'[e] = results[e]
                           /\ journal'[e] = "succeeded" => journal[e] = "succeeded" \/ Earned(e)',
         \A p \in Verifiers : call'[p].pc # "idle" => call'[p] = call[p] \/ CallSound(call[p])'
  PROVE  VerifierInv'
<1>1. ASSUME NEW e \in Effect PROVE EffectSound(e)'
  <2>1. EffectSound(e) /\ results[e] \in Verifier!ResultRecord
    BY DEF VerifierInv, Verifier!TypeOK
  <2>2. seen'[e].healthy <= StableSamples
    BY VerifierNumbers DEF Grows, VerifierInv, Verifier!TypeOK, Verifier!Seen
  <2>3. QED
    BY <2>1, <2>2, EffectKept DEF EffectSound
<1>2. ASSUME NEW p \in Verifiers, call'[p].pc # "idle" PROVE CallSound(call[p])'
  BY <1>2, CallKept
<1>3. QED
  BY <1>1, <1>2 DEF VerifierInv, Grows

-----------------------------------------------------------------------------
(* Steps                                                                   *)

\* Submit starts a command at most, and ends none.
LEMMA SubmitSound ==
  ASSUME VerifierInv, NEW p \in Verifiers, NEW e \in Effect, NEW k \in IdemKey, Verifier!Submit(p, e, k)
  PROVE  VerifierInv'
<1> USE DEF Verifier!Submit, Verifier!history
<1>1. Verifier!TypeOK'
  BY DEF VerifierInv, Verifier!TypeOK
<1>2. Grows
  <2>1. \A f \in Effect : journal[f] \in {"succeeded", "failed"} => journal'[f] = journal[f]
    BY DEF VerifierInv, Verifier!TypeOK
  <2>2. QED
    BY <2>1, NothingSeen, Zenon
<1>3. \A f \in Effect : journal'[f] = "succeeded" => journal[f] = "succeeded"
  BY DEF VerifierInv, Verifier!TypeOK
<1>4. QED
  BY <1>1, <1>2, <1>3, StepKeeps

\* Verify only starts a call.
LEMMA VerifySound ==
  ASSUME VerifierInv, NEW p \in Verifiers, NEW e \in Effect, Verifier!Verify(p, e)
  PROVE  VerifierInv'
<1> USE DEF Verifier!Verify, Verifier!history
<1>1. Verifier!TypeOK'
  BY Zenon DEF VerifierInv, Verifier!TypeOK, Verifier!Call, Verifier!IdleCall, Verifier!NoResult, Verifier!ResultRecord,
    Verifier!Outcome, Verifier!Reason
<1>2. Grows
  BY NothingSeen, Zenon
<1>3. CallSound(call[p])'
  BY DEF VerifierInv, Verifier!TypeOK, CallSound, Verifier!IdleCall
<1>4. \A q \in Verifiers : q # p => call'[q] = call[q]
  BY DEF VerifierInv, Verifier!TypeOK
<1>5. QED
  BY <1>1, <1>2, <1>3, <1>4, StepKeeps

\* What Return does to the calls.
LEMMA ReturnKeeps ==
  ASSUME VerifierInv, NEW p \in Verifiers, Verifier!Return(p)
  PROVE  /\ call' \in [Verifiers -> Verifier!Call]
         /\ call'[p].pc = "idle"
         /\ \A q \in Verifiers : q # p => call'[q] = call[q]
BY DEF VerifierInv, Verifier!TypeOK, Verifier!Return, Verifier!Call, Verifier!IdleCall, Verifier!NoResult,
   Verifier!ResultRecord, Verifier!Outcome, Verifier!Reason

\* What Goto does to the calls.
LEMMA GotoKeeps ==
  ASSUME VerifierInv, NEW p \in Verifiers, NEW label \in {"observe", "complete", "persist"},
         NEW r \in Verifier!ResultRecord, Verifier!Goto(p, label, r)
  PROVE  /\ call' \in [Verifiers -> Verifier!Call]
         /\ call'[p].pc = label /\ call'[p].effect = call[p].effect
         /\ call'[p].at = call[p].at /\ call'[p].record = r
         /\ \A q \in Verifiers : q # p => call'[q] = call[q]
<1>1. call \in [Verifiers -> Verifier!Call]
  BY DEF VerifierInv, Verifier!TypeOK
<1> DEFINE d == [call[p] EXCEPT !.pc = label, !.record = r]
<1>2. call[p] \in Verifier!Call
  BY <1>1
<1>3. d \in Verifier!Call
  BY <1>2, Zenon DEF Verifier!Call
<1>4. d.pc = label /\ d.effect = call[p].effect /\ d.at = call[p].at /\ d.record = r
  BY <1>2 DEF Verifier!Call
<1> HIDE DEF d
<1>5. call' = [call EXCEPT ![p] = d]
  BY DEF Verifier!Goto, d
<1>6. QED
  BY <1>1, <1>3, <1>4, <1>5

\* fail makes well-formed records of a failed attempt.
LEMMA FailureRecords ==
  ASSUME NEW c \in Verifier!Call, NEW r \in Verifier!ResultRecord, NEW reason \in Verifier!Reason \ {"none"},
         c.effect \in Effect, r.next = 0, NEW f \in Verifier!Failure(c, r, reason)
  PROVE  /\ f \in Verifier!ResultRecord
         /\ Wellformed(c.effect, f)
         /\ f.outcome \in {"retry_scheduled", "failed"}
<1> DEFINE failed == [r EXCEPT !.outcome = "failed", !.samples = 0, !.reason = reason]
           retry == [failed EXCEPT !.outcome = "retry_scheduled", !.next = AttemptOf[c.effect] + 1]
<1>1. failed \in Verifier!ResultRecord
  BY Zenon DEF Verifier!ResultRecord, Verifier!Outcome, Verifier!Reason
<1>2. failed.outcome = "failed" /\ failed.samples = 0 /\ failed.reason = reason /\ failed.next = 0
  BY DEF Verifier!ResultRecord
<1>3. f \in {failed, retry}
  BY DEF Verifier!Failure
<1> HIDE DEF failed
<1>4. AttemptOf[c.effect] + 1 \in Nat
  BY VerifierNumbers
<1>5. retry \in Verifier!ResultRecord
  BY <1>1, <1>4, Zenon DEF Verifier!ResultRecord, Verifier!Outcome
<1>6. /\ retry.outcome = "retry_scheduled" /\ retry.samples = 0 /\ retry.reason = reason
      /\ retry.next = AttemptOf[c.effect] + 1
  BY <1>1, <1>2 DEF Verifier!ResultRecord
<1> HIDE DEF retry
<1>7. QED
  BY <1>1, <1>2, <1>3, <1>5, <1>6 DEF Wellformed, Verifier!Reason

\* load: what is stored is covered, and a fresh record counts nothing.
LEMMA LoadSound ==
  ASSUME VerifierInv, NEW p \in Verifiers, Verifier!Load(p)
  PROVE  VerifierInv'
<1> DEFINE c == call[p]
           stored == results[c.effect]
           record == IF stored = Verifier!NoResult
                     THEN [Verifier!NoResult EXCEPT !.outcome = "pending", !.started = c.at]
                     ELSE stored
<1>1. /\ c.pc = "load" /\ CallSound(c) /\ c \in Verifier!Call /\ c.effect \in Effect
      /\ UNCHANGED <<journal, index, results, verifyClock, held, seen, stops>>
  BY DEF VerifierInv, Verifier!TypeOK, Verifier!Load, Verifier!history, CallSound
<1>2. /\ record \in Verifier!ResultRecord
      /\ Wellformed(c.effect, record)
      /\ record.outcome = "pending" =>
           Covered(c.effect, record) \/ (record.samples = 0 /\ record.started = c.at)
  <2> DEFINE fresh == [Verifier!NoResult EXCEPT !.outcome = "pending", !.started = c.at]
  <2>1. c.at \in Nat /\ Verifier!NoResult \in Verifier!ResultRecord
    BY <1>1 DEF Verifier!NoResult, Verifier!Call, Verifier!ResultRecord, Verifier!Outcome, Verifier!Reason
  <2>2. fresh \in Verifier!ResultRecord
    BY <2>1, Zenon DEF Verifier!ResultRecord, Verifier!Outcome
  <2>6. fresh.outcome = "pending" /\ fresh.started = c.at /\ fresh.samples = 0 /\ fresh.reason = "none" /\ fresh.next = 0
    BY DEF Verifier!NoResult
  <2>7. Wellformed(c.effect, fresh)
    BY <2>6 DEF Wellformed
  <2> HIDE DEF fresh
  <2>3. stored \in Verifier!ResultRecord /\ Wellformed(c.effect, stored)
    BY <1>1 DEF VerifierInv, Verifier!TypeOK, Wellformed
  <2>4. stored.outcome = "pending" => Covered(c.effect, stored)
    BY <1>1 DEF VerifierInv, EffectSound
  <2>5. QED
    BY <2>2, <2>3, <2>4, <2>6, <2>7 DEF fresh
<1>3. \/ record.outcome # "pending" /\ Verifier!Return(p)
      \/ /\ record.outcome = "pending"
         /\ \E r \in Verifier!Failure(c, record, "timeout") : Verifier!Goto(p, "complete", r)
      \/ record.outcome = "pending" /\ Verifier!Goto(p, "observe", record)
  BY DEF Verifier!Load
<1> HIDE DEF record, stored
<1> DEFINE Moved == /\ call' \in [Verifiers -> Verifier!Call]
                    /\ \A q \in Verifiers : q # p => call'[q] = call[q]
                    /\ call'[p].pc # "idle" => CallSound(call[p])'
<1>4. Moved
  <2>1. CASE record.outcome # "pending" /\ Verifier!Return(p)
    BY <2>1, ReturnKeeps
  <2>2. ASSUME record.outcome = "pending", NEW r \in Verifier!Failure(c, record, "timeout"),
               Verifier!Goto(p, "complete", r)
        PROVE  Moved
    <3>1. /\ r \in Verifier!ResultRecord /\ Wellformed(c.effect, r)
          /\ r.outcome \in {"retry_scheduled", "failed"}
      BY <1>1, <1>2, <2>2, FailureRecords DEF Verifier!Reason, Wellformed
    <3>2. /\ call' \in [Verifiers -> Verifier!Call]
          /\ call'[p].pc = "complete" /\ call'[p].effect = c.effect
          /\ call'[p].at = c.at /\ call'[p].record = r
          /\ \A q \in Verifiers : q # p => call'[q] = call[q]
      BY <2>2, <3>1, GotoKeeps
    <3>3. CallSound(call[p])'
      BY <1>1, <3>1, <3>2 DEF CallSound, Wellformed
    <3>4. QED
      BY <3>2, <3>3
  <2>3. CASE record.outcome = "pending" /\ Verifier!Goto(p, "observe", record)
    <3>2. /\ call' \in [Verifiers -> Verifier!Call]
          /\ call'[p].pc = "observe" /\ call'[p].effect = c.effect
          /\ call'[p].at = c.at /\ call'[p].record = record
          /\ \A q \in Verifiers : q # p => call'[q] = call[q]
      BY <1>2, <2>3, GotoKeeps
    <3>3. CallSound(call[p])'
      BY <1>1, <1>2, <2>3, <3>2, Zenon DEF CallSound, Wellformed, Covered, Verifier!AtLeast
    <3>4. QED
      BY <3>2, <3>3
  <2>4. QED
    BY <1>3, <2>1, <2>2, <2>3
<1>5. Verifier!TypeOK'
  BY <1>1, <1>4 DEF VerifierInv, Verifier!TypeOK
<1>6. Grows
  BY <1>1, NothingSeen, Zenon
<1>7. QED
  BY <1>1, <1>4, <1>5, <1>6, StepKeeps

\* A healthy sample: the record counts it, and so does the history; at the deadline
\* the success is earned.
LEMMA ObserveHealthySound ==
  ASSUME VerifierInv, NEW p \in Verifiers, Verifier!ObserveHealthy(p)
  PROVE  VerifierInv'
<1>0. PICK c \in Verifier!Call : c = call[p]
  BY DEF VerifierInv, Verifier!TypeOK
<1>1. /\ c.pc = "observe" /\ CallSound(c)
      /\ UNCHANGED <<journal, index, results, verifyClock, held, stops>>
  BY <1>0 DEF VerifierInv, Verifier!ObserveHealthy
<1>2. /\ c.record \in Verifier!ResultRecord /\ c.at \in Nat /\ c.at \in 1..verifyClock
      /\ verifyClock \in Nat /\ seen \in [Effect -> Verifier!Seen]
  BY <1>1 DEF Verifier!Call, CallSound, VerifierInv, Verifier!TypeOK
<1> DEFINE counted == [c.record EXCEPT !.samples = @ + 1]
<1>3. PICK e \in Effect, record \in Verifier!ResultRecord :
        /\ e = c.effect /\ record = counted
        /\ record.samples = c.record.samples + 1
        /\ record.outcome = "pending" /\ record.started = c.record.started
        /\ record.reason = c.record.reason /\ record.next = c.record.next
  <2>1. counted \in Verifier!ResultRecord
    BY <1>2 DEF Verifier!ResultRecord
  <2>2. /\ counted.samples = c.record.samples + 1
        /\ counted.outcome = "pending" /\ counted.started = c.record.started
        /\ counted.reason = c.record.reason /\ counted.next = c.record.next
    BY <1>1, <1>2 DEF Verifier!ResultRecord, CallSound
  <2> HIDE DEF counted
  <2>3. QED
    BY <1>1, <2>1, <2>2 DEF CallSound
<1>4. PICK done \in Verifier!ResultRecord :
        /\ done = [record EXCEPT !.outcome = "succeeded"]
        /\ done.outcome = "succeeded"
        /\ done.reason = c.record.reason /\ done.next = c.record.next /\ done.samples = record.samples
  <2> DEFINE d == [record EXCEPT !.outcome = "succeeded"]
  <2>1. /\ d \in Verifier!ResultRecord /\ d.outcome = "succeeded"
        /\ d.reason = record.reason /\ d.next = record.next /\ d.samples = record.samples
    BY DEF Verifier!ResultRecord, Verifier!Outcome
  <2> HIDE DEF d
  <2>2. QED
    BY <1>3, <2>1, Zenon DEF d
<1>5. /\ seen' \in [Effect -> Verifier!Seen]
      /\ \A f \in Effect : f # e => seen'[f] = seen[f]
      /\ seen'[e].healthy = Verifier!AtLeast(seen[e].healthy + 1)
      /\ seen'[e].since = IF seen[e].since \in 1..c.at THEN seen[e].since ELSE c.at
  <2> DEFINE new == [healthy |-> Verifier!AtLeast(seen[e].healthy + 1),
                     streak |-> Verifier!AtLeast(seen[e].streak + 1),
                     since |-> IF seen[e].since \in 1..c.at THEN seen[e].since ELSE c.at]
  <2>1. seen[e].healthy \in Nat /\ seen[e].streak \in Nat /\ seen[e].since \in Nat
    BY <1>1, <1>2 DEF Verifier!Seen
  <2>2. \A n \in Nat : Verifier!AtLeast(n + 1) \in Nat
    BY VerifierNumbers DEF Verifier!AtLeast
  <2>3. new \in Verifier!Seen
    BY <1>2, <2>1, <2>2 DEF Verifier!Seen
  <2>4. seen' = [seen EXCEPT ![e] = new]
    BY <1>0, <1>3 DEF Verifier!ObserveHealthy
  <2>5. new.healthy = Verifier!AtLeast(seen[e].healthy + 1)
        /\ new.since = IF seen[e].since \in 1..c.at THEN seen[e].since ELSE c.at
    OBVIOUS
  <2> HIDE DEF new
  <2>6. QED
    BY <1>1, <1>2, <2>3, <2>4, <2>5
<1>6. seen[e].healthy \in 0..StableSamples /\ seen[e].since \in Nat
  BY <1>1, <1>2 DEF VerifierInv, EffectSound, Verifier!Seen
<1>7. Grows
  <2>1. \A f \in Effect : seen[f].healthy \in Nat /\ seen[f].healthy <= StableSamples /\ seen[f].since \in Nat
    BY <1>2 DEF VerifierInv, EffectSound, Verifier!Seen
  <2>2. seen'[e].healthy \in seen[e].healthy..StableSamples
    BY <1>5, <1>6, VerifierNumbers DEF Verifier!AtLeast
  <2>3. seen[e].since > 0 => seen'[e].since \in 1..seen[e].since
    BY <1>2, <1>5, <1>6
  <2>4. ASSUME NEW f \in Effect
        PROVE  /\ seen[f].since > 0 => seen'[f].since \in 1..seen[f].since
               /\ seen'[f].healthy \in seen[f].healthy..StableSamples
    BY <1>5, <2>1, <2>2, <2>3, VerifierNumbers
  <2>5. QED
    BY <1>1, <1>2, <2>4 DEF Grows
<1>8. Covered(e, record)'
  <2>1. seen'[e].since \in 1..c.record.started
    <3>1. CASE c.record.samples = 0 /\ c.record.started = c.at
      BY <1>2, <1>5, <1>6, <3>1
    <3>2. CASE Covered(e, c.record)
      <4>1. seen[e].since \in 1..c.record.started /\ c.record.started \in Nat
        BY <1>2, <3>2 DEF Covered, Verifier!ResultRecord
      <4>2. QED
        BY <1>2, <1>5, <1>6, <4>1
    <3>3. QED
      BY <1>1, <1>3, <3>1, <3>2 DEF CallSound
  <2>2. seen[e].healthy >= Verifier!AtLeast(c.record.samples)
    BY <1>1, <1>3, <1>6, VerifierNumbers DEF CallSound, Covered, Verifier!AtLeast
  <2>3. seen'[e].healthy >= Verifier!AtLeast(c.record.samples + 1)
    BY <1>2, <1>5, <1>6, <2>2, VerifierNumbers DEF Verifier!AtLeast, Verifier!ResultRecord
  <2>4. c.record.samples \in Nat
    BY <1>2 DEF Verifier!ResultRecord
  <2>5. record.samples = c.record.samples + 1 /\ record.samples > 0 /\ record.started = c.record.started
    BY <1>3, <2>4
  <2>6. QED
    BY <2>1, <2>3, <2>5 DEF Covered, Verifier!AtLeast
<1>9. Verifier!Stable(c, record) => Earned(e)'
  <2> SUFFICES ASSUME Verifier!Stable(c, record) PROVE Earned(e)'
    OBVIOUS
  <2>1. /\ record.samples \in Nat /\ record.started \in Nat
        /\ record.samples >= StableSamples /\ c.at >= record.started + StableWindow
    BY <1>3 DEF Verifier!Stable, Verifier!Deadline, Verifier!ResultRecord
  <2>2. seen'[e].healthy \in Nat
    BY <1>1, <1>5 DEF Verifier!Seen
  <2>3. seen'[e].healthy >= StableSamples
    BY <1>8, <2>1, <2>2, VerifierNumbers DEF Covered, Verifier!AtLeast
  <2>4. seen'[e].since \in 1..record.started
    BY <1>8 DEF Covered
  <2>5. QED
    BY <1>1, <1>2, <2>1, <2>3, <2>4, VerifierNumbers DEF Earned
<1>10. Wellformed(e, record) /\ Wellformed(e, done)
  BY <1>1, <1>3, <1>4 DEF CallSound, Wellformed
<1> HIDE DEF counted
<1>11. /\ call' \in [Verifiers -> Verifier!Call]
       /\ \A q \in Verifiers : q # p => call'[q] = call[q]
       /\ CallSound(call[p])'
  <2>1. CASE Verifier!Stable(c, record)
    <3>1. Verifier!Goto(p, "complete", done)
      BY <1>0, <1>3, <1>4, <2>1 DEF Verifier!ObserveHealthy, counted
    <3>2. /\ call' \in [Verifiers -> Verifier!Call]
          /\ call'[p].pc = "complete" /\ call'[p].effect = e
          /\ call'[p].at = c.at /\ call'[p].record = done
          /\ \A q \in Verifiers : q # p => call'[q] = call[q]
      BY <1>0, <1>3, <1>4, <3>1, GotoKeeps
    <3>3. Earned(call[p].effect)'
      BY <1>9, <2>1, <3>2 DEF Earned
    <3>4. QED
      BY <1>1, <1>2, <1>3, <1>4, <1>10, <3>2, <3>3 DEF CallSound, Wellformed
  <2>2. CASE ~Verifier!Stable(c, record)
    <3>1. Verifier!Goto(p, "persist", record)
      BY <1>0, <1>3, <1>4, <2>2 DEF Verifier!ObserveHealthy, counted
    <3>2. /\ call' \in [Verifiers -> Verifier!Call]
          /\ call'[p].pc = "persist" /\ call'[p].effect = e
          /\ call'[p].at = c.at /\ call'[p].record = record
          /\ \A q \in Verifiers : q # p => call'[q] = call[q]
      BY <1>0, <1>3, <3>1, GotoKeeps
    <3>3. Covered(call[p].effect, call[p].record)' /\ Truthful(call[p].effect, call[p].record)'
      BY <1>3, <1>8, <3>2 DEF Covered, Truthful, Verifier!AtLeast
    <3>4. QED
      BY <1>1, <1>2, <1>3, <1>10, <3>2, <3>3, Zenon DEF CallSound, Wellformed
  <2>3. QED
    BY <2>1, <2>2
<1>12. Verifier!TypeOK'
  BY <1>1, <1>5, <1>11 DEF VerifierInv, Verifier!TypeOK
<1>13. QED
  BY <1>1, <1>7, <1>11, <1>12, StepKeeps

\* A sample that is not healthy ends the attempt.
LEMMA ObserveFailureSound ==
  ASSUME VerifierInv, NEW p \in Verifiers, Verifier!ObserveFailure(p)
  PROVE  VerifierInv'
<1> DEFINE c == call[p]
<1>1. /\ c.pc = "observe" /\ CallSound(c) /\ c \in Verifier!Call /\ c.effect \in Effect
      /\ UNCHANGED <<journal, index, results, verifyClock, held, stops>>
      /\ c.record \in Verifier!ResultRecord
  BY DEF VerifierInv, Verifier!TypeOK, Verifier!ObserveFailure, CallSound, Verifier!Call
<1>2. /\ seen' \in [Effect -> Verifier!Seen]
      /\ \A f \in Effect : seen'[f].healthy = seen[f].healthy /\ seen'[f].since = seen[f].since
  BY <1>1, SMTT(30) DEF VerifierInv, Verifier!TypeOK, Verifier!ObserveFailure, Verifier!Seen
<1>3. Grows
  <2>1. ASSUME NEW f \in Effect
        PROVE  seen[f].since \in Nat /\ seen[f].healthy \in 0..StableSamples
    BY VerifierNumbers DEF VerifierInv, Verifier!TypeOK, EffectSound, Verifier!Seen
  <2>2. verifyClock \in Nat
    BY DEF VerifierInv
  <2>3. QED
    BY <1>1, <1>2, <2>1, <2>2, VerifierNumbers DEF Grows
<1>4. PICK reason \in Verifier!Reason \ {"none"} :
        \E r \in Verifier!Failure(c, c.record, reason) : Verifier!Goto(p, "complete", r)
  BY DEF Verifier!ObserveFailure, Verifier!Reason
<1>5. PICK r \in Verifier!Failure(c, c.record, reason) : Verifier!Goto(p, "complete", r)
  BY <1>4
<1>6. /\ r \in Verifier!ResultRecord /\ Wellformed(c.effect, r)
      /\ r.outcome \in {"retry_scheduled", "failed"}
  <2>1. c.record.next = 0
    BY <1>1 DEF CallSound, Wellformed
  <2>2. QED
    BY <1>1, <1>5, <2>1, FailureRecords, Zenon
<1>7. /\ call' \in [Verifiers -> Verifier!Call]
      /\ call'[p].pc = "complete" /\ call'[p].effect = c.effect
      /\ call'[p].at = c.at /\ call'[p].record = r
      /\ \A q \in Verifiers : q # p => call'[q] = call[q]
  BY <1>5, <1>6, GotoKeeps
<1>8. CallSound(call[p])'
  BY <1>1, <1>6, <1>7, Zenon DEF CallSound, Wellformed
<1>9. Verifier!TypeOK'
  BY <1>1, <1>2, <1>7, Zenon DEF VerifierInv, Verifier!TypeOK
<1>10. QED
  BY <1>1, <1>3, <1>7, <1>8, <1>9, StepKeeps, Zenon

\* complete: the command gets its first end, or keeps the one it has.
LEMMA CompleteSound ==
  ASSUME VerifierInv, NEW p \in Verifiers, Verifier!Complete(p)
  PROVE  VerifierInv'
<1>0. PICK c \in Verifier!Call : c = call[p]
  BY DEF VerifierInv, Verifier!TypeOK
<1> DEFINE state == IF c.record.outcome = "succeeded" THEN "succeeded" ELSE "failed"
<1>1. /\ c.pc = "complete" /\ CallSound(c) /\ c.record \in Verifier!ResultRecord /\ c.effect \in Effect
      /\ UNCHANGED <<index, results, verifyClock, held, seen, stops>>
  BY <1>0, Zenon DEF VerifierInv, Verifier!Complete, Verifier!history, Verifier!Call, CallSound
<1>2. CASE Verifier!Completable(c.effect, state)
  <2>1. journal' = [journal EXCEPT ![c.effect] = state] /\ Verifier!Goto(p, "persist", c.record)
    BY <1>0, <1>2, Zenon DEF Verifier!Complete
  <2>2. /\ call' \in [Verifiers -> Verifier!Call]
        /\ call'[p].pc = "persist" /\ call'[p].effect = c.effect
        /\ call'[p].at = c.at /\ call'[p].record = c.record
        /\ \A q \in Verifiers : q # p => call'[q] = call[q]
    BY <1>0, <1>1, <2>1, GotoKeeps
  <2>3. Verifier!TypeOK'
    BY <1>1, <2>1, <2>2 DEF VerifierInv, Verifier!TypeOK
  <2>4. \A f \in Effect : journal[f] \in {"succeeded", "failed"} => journal'[f] = journal[f]
    BY <1>1, <1>2, <2>1, Zenon DEF VerifierInv, Verifier!TypeOK, Verifier!Completable
  <2>5. Grows
    BY <1>1, <2>4, NothingSeen, Zenon
  <2>6. state = "succeeded" => Earned(c.effect)'
    BY <1>1, <2>5, EffectKept DEF CallSound
  <2>7. \A f \in Effect : journal'[f] = "succeeded" => journal[f] = "succeeded" \/ Earned(f)'
    BY <1>1, <2>1, <2>6, Zenon DEF VerifierInv, Verifier!TypeOK
  <2>8. Truthful(call[p].effect, call[p].record)'
    BY <1>1, <2>1, <2>2, Zenon DEF CallSound, Truthful, VerifierInv, Verifier!TypeOK
  <2>9. CallSound(call[p])'
    BY <1>1, <2>2, <2>8, Zenon DEF CallSound, Wellformed
  <2>10. QED
    BY <1>1, <2>2, <2>3, <2>5, <2>7, <2>9, StepKeeps, Zenon
<1>3. CASE ~Verifier!Completable(c.effect, state)
  <2>1. Verifier!Return(p) /\ journal' = journal
    BY <1>0, <1>3 DEF Verifier!Complete
  <2>2. Verifier!TypeOK'
    BY <1>1, <2>1, ReturnKeeps, Zenon DEF VerifierInv, Verifier!TypeOK
  <2>3. Grows
    BY <1>1, <2>1, NothingSeen, Zenon
  <2>4. QED
    BY <1>1, <2>1, <2>2, <2>3, ReturnKeeps, StepKeeps, Zenon
<1>4. QED
  BY <1>2, <1>3

\* persist: what is stored was checked against the command before.
LEMMA PersistSound ==
  ASSUME VerifierInv, NEW p \in Verifiers, Verifier!Persist(p)
  PROVE  VerifierInv'
<1>0. PICK c \in Verifier!Call : c = call[p]
  BY DEF VerifierInv, Verifier!TypeOK
<1>1. /\ c.pc = "persist" /\ CallSound(c) /\ c.record \in Verifier!ResultRecord /\ c.effect \in Effect
      /\ UNCHANGED <<journal, index, verifyClock, held, seen, stops>> /\ Verifier!Return(p)
  BY <1>0, Zenon DEF VerifierInv, Verifier!Persist, Verifier!history, Verifier!Call, CallSound
<1>2. \/ results' = results
      \/ c.record.samples <= MaxSamples /\ results' = [results EXCEPT ![c.effect] = c.record]
  BY <1>0 DEF Verifier!Persist
<1>3. ASSUME NEW e \in Effect
      PROVE  \/ results'[e] = results[e]
             \/ c.record.samples <= MaxSamples /\ results'[e] = c.record /\ e = c.effect
  BY <1>2, Zenon DEF VerifierInv, Verifier!TypeOK
<1>4. Verifier!TypeOK'
  <2>1. results' \in [Effect -> Verifier!ResultRecord]
    BY <1>1, <1>2 DEF VerifierInv, Verifier!TypeOK
  <2>2. Wellformed(c.effect, c.record)
    BY <1>1 DEF CallSound
  <2>3. ASSUME NEW e \in Effect PROVE results'[e].samples <= MaxSamples /\ Wellformed(e, results'[e])
    BY <1>3, <2>2, Zenon DEF VerifierInv, Verifier!TypeOK, Wellformed
  <2>4. QED
    BY <1>1, <2>1, <2>3, ReturnKeeps, Zenon DEF VerifierInv, Verifier!TypeOK, Wellformed
<1>5. Grows
  BY <1>1, NothingSeen, Zenon
<1>6. ASSUME NEW e \in Effect PROVE EffectSound(e)'
  <2>1. EffectSound(e) /\ results[e] \in Verifier!ResultRecord
    BY DEF VerifierInv, Verifier!TypeOK
  <2>2. e = c.effect => /\ c.record.outcome = "pending" => Covered(e, c.record)
                        /\ Truthful(e, c.record)
    BY <1>1, Zenon DEF CallSound
  <2>3. PICK r \in Verifier!ResultRecord :
          /\ r = results'[e]
          /\ r.outcome = "pending" => Covered(e, r)
          /\ Truthful(e, r)
    BY <1>1, <1>3, <2>1, <2>2, Zenon DEF EffectSound
  <2>4. (r.outcome = "pending" => Covered(e, r)') /\ Truthful(e, r)'
    BY <1>5, <2>3, EffectKept, Zenon
  <2>5. journal'[e] = "succeeded" => Earned(e)'
    BY <1>1, <1>5, <2>1, EffectKept DEF EffectSound
  <2>6. seen'[e].healthy <= StableSamples
    BY <1>1, <2>1 DEF EffectSound
  <2>7. QED
    BY <2>3, <2>4, <2>5, <2>6 DEF EffectSound, Covered, Truthful, Verifier!AtLeast
<1>7. ASSUME NEW q \in Verifiers, call'[q].pc # "idle" PROVE CallSound(call[q])'
  BY <1>1, <1>5, <1>7, ReturnKeeps, CallKept
<1>8. QED
  <2>1. verifyClock' \in Nat \ {0}
    BY <1>1 DEF VerifierInv
  <2>2. QED
    BY <1>4, <1>6, <1>7, <2>1, Zenon DEF VerifierInv

-----------------------------------------------------------------------------
(* The theorem                                                             *)

\* Every step of the verifier keeps the invariant.
LEMMA VerifierStepSound == VerifierInv /\ [Verifier!Next]_(Verifier!vars) => VerifierInv'
<1> SUFFICES ASSUME VerifierInv, [Verifier!Next]_(Verifier!vars) PROVE VerifierInv'
  OBVIOUS
<1>1. ASSUME NEW p \in Verifiers, Verifier!StoreFails(p) PROVE VerifierInv'
  <2>1. /\ UNCHANGED <<journal, index, results, verifyClock, held, seen>> /\ Verifier!Return(p)
    BY <1>1 DEF Verifier!StoreFails
  <2>2. Grows
    BY <2>1, NothingSeen, Zenon
  <2>3. Verifier!TypeOK'
    BY <2>1, ReturnKeeps DEF VerifierInv, Verifier!TypeOK
  <2>4. QED
    BY <2>1, <2>2, <2>3, ReturnKeeps, StepKeeps, Zenon
<1>2. CASE Verifier!Stop
  <2>1. /\ UNCHANGED <<journal, index, results, verifyClock, seen>>
        /\ call' = [p \in Verifiers |-> Verifier!IdleCall]
    BY <1>2 DEF Verifier!Stop
  <2>2. Grows
    BY <2>1, NothingSeen, Zenon
  <2>3. Verifier!IdleCall \in Verifier!Call /\ Verifier!IdleCall.pc = "idle"
    BY DEF Verifier!Call, Verifier!IdleCall, Verifier!NoResult, Verifier!ResultRecord, Verifier!Outcome,
       Verifier!Reason
  <2>4. Verifier!TypeOK'
    BY <2>1, <2>3 DEF VerifierInv, Verifier!TypeOK
  <2>5. QED
    BY <2>1, <2>2, <2>3, <2>4, StepKeeps, Zenon
<1>3. CASE Verifier!Tick
  <2>1. /\ UNCHANGED <<journal, index, results, call, held, seen, stops>>
        /\ verifyClock' = verifyClock + 1
    BY <1>3 DEF Verifier!Tick, Verifier!history
  <2>2. Grows
    BY <2>1, NothingSeen, Zenon
  <2>3. Verifier!TypeOK'
    BY <2>1 DEF VerifierInv, Verifier!TypeOK
  <2>4. QED
    BY <2>1, <2>2, <2>3, StepKeeps
<1>4. CASE UNCHANGED Verifier!vars
  <2>1. UNCHANGED <<journal, index, results, verifyClock, call, seen>>
    BY <1>4 DEF Verifier!vars
  <2>2. Grows
    BY <2>1, NothingSeen, Zenon
  <2>3. Verifier!TypeOK'
    BY <2>1 DEF VerifierInv, Verifier!TypeOK
  <2>4. QED
    BY <2>1, <2>2, <2>3, StepKeeps
<1>5. QED
  BY <1>1, <1>2, <1>3, <1>4, SubmitSound, VerifySound, LoadSound, ObserveHealthySound, ObserveFailureSound,
     CompleteSound, PersistSound DEF Verifier!Next, Verifier!Step

\* Verify, for any number of concurrent callers, effects and stops: a stored end is
\* the end of its command, and a success was earned by enough samples over the
\* whole window.
THEOREM VerifierTruthful == Verifier!Spec => []VerifierSound
<1>1. VerifierInv => VerifierSound
  BY DEF VerifierInv, VerifierSound, EffectSound, Truthful, Earned, Verifier!ResultTruthful,
     Verifier!SuccessJustified
<1>2. QED
  BY <1>1, VerifierInit, VerifierStepSound, PTL DEF Verifier!Spec

-----------------------------------------------------------------------------
(* One caller                                                              *)

\* There is one caller at most.
SoleCaller == \A p, q \in Verifiers : p = q

\* A call that is past load works on an attempt that has not ended.
OpenInv ==
  \A p \in Verifiers :
    call[p].pc \in {"observe", "complete", "persist"} => ~Verifier!Ended(call[p].effect)

\* With one caller, no step writes over a result that has ended.
LEMMA OpenStep ==
  ASSUME SoleCaller, VerifierInv, OpenInv, [Verifier!Next]_(Verifier!vars)
  PROVE  /\ OpenInv'
         /\ \A e \in Effect : Verifier!Ended(e) => results'[e] = results[e]
<1>1. /\ call \in [Verifiers -> Verifier!Call] /\ results \in [Effect -> Verifier!ResultRecord]
      /\ \A p \in Verifiers : call[p].pc # "idle" => call[p].effect \in Effect
  BY Zenon DEF VerifierInv, Verifier!TypeOK, CallSound
<1>2. ASSUME NEW p \in Verifiers, results' = results, call'[p].effect = call[p].effect,
             call'[p].pc \in {"observe", "complete", "persist"} =>
               ~Verifier!Ended(call[p].effect)
      PROVE  OpenInv'
  BY <1>2 DEF OpenInv, SoleCaller, Verifier!Ended
<1>3. ASSUME results' = results, \A p \in Verifiers : call'[p].pc \in {"idle", "load"}
      PROVE  OpenInv'
  BY <1>3 DEF OpenInv
<1>4. ASSUME NEW p \in Verifiers, Verifier!Return(p) PROVE call'[p].pc = "idle"
  BY <1>1, <1>4 DEF Verifier!Return, Verifier!IdleCall
<1>5. ASSUME NEW p \in Verifiers, NEW label, NEW r, Verifier!Goto(p, label, r)
      PROVE  call'[p].effect = call[p].effect /\ call'[p].pc = label
  BY <1>1, <1>5 DEF Verifier!Goto, Verifier!Call
<1>6. ASSUME NEW p \in Verifiers, Verifier!Return(p), results' = results PROVE OpenInv'
  BY <1>3, <1>4, <1>6 DEF SoleCaller
<1>7. ASSUME NEW p \in Verifiers, Verifier!Load(p) PROVE OpenInv' /\ results' = results
  <2> DEFINE stored == results[call[p].effect]
  <2>1. results' = results /\ call[p].pc = "load"
    BY <1>7 DEF Verifier!Load
  <2>2. CASE stored.outcome \notin {"succeeded", "retry_scheduled", "failed"}
    <3> DEFINE record == IF stored = Verifier!NoResult
                         THEN [Verifier!NoResult EXCEPT !.outcome = "pending",
                                                        !.started = call[p].at]
                         ELSE stored
    <3>1. \/ Verifier!Return(p)
          \/ \E r \in Verifier!Failure(call[p], record, "timeout") :
               Verifier!Goto(p, "complete", r)
          \/ Verifier!Goto(p, "observe", record)
      BY <1>7 DEF Verifier!Load
    <3> HIDE DEF record
    <3> QED BY <1>2, <1>5, <1>6, <2>1, <2>2, <3>1 DEF Verifier!Ended
  <2>3. CASE stored.outcome \in {"succeeded", "retry_scheduled", "failed"}
    <3>1. Verifier!Return(p)
      BY <1>7, <2>3 DEF Verifier!Load, Verifier!NoResult
    <3> QED BY <1>6, <2>1, <3>1
  <2> QED BY <2>1, <2>2, <2>3
<1>8. ASSUME NEW p \in Verifiers,
             Verifier!ObserveHealthy(p) \/ Verifier!ObserveFailure(p) \/ Verifier!Complete(p)
      PROVE  OpenInv' /\ results' = results
  <2>1. results' = results /\ call[p].pc \in {"observe", "complete"}
    BY <1>8 DEF Verifier!ObserveHealthy, Verifier!ObserveFailure, Verifier!Complete
  <2>2. \/ Verifier!Return(p)
        \/ \E label \in {"complete", "persist"} : \E r : Verifier!Goto(p, label, r)
    BY <1>8 DEF Verifier!ObserveHealthy, Verifier!ObserveFailure, Verifier!Complete
  <2> QED BY <1>2, <1>5, <1>6, <2>1, <2>2 DEF OpenInv
<1>9. ASSUME NEW p \in Verifiers, Verifier!Persist(p)
      PROVE  OpenInv' /\ \A e \in Effect : Verifier!Ended(e) => results'[e] = results[e]
  <2>1. Verifier!Return(p) /\ ~Verifier!Ended(call[p].effect)
    BY <1>9 DEF Verifier!Persist, OpenInv
  <2>2. OpenInv'
    BY <1>4, <2>1 DEF OpenInv, SoleCaller
  <2>3. \A e \in Effect : Verifier!Ended(e) => results'[e] = results[e]
    BY <1>1, <1>9, <2>1 DEF Verifier!Persist
  <2> QED BY <2>2, <2>3
<1>10. CASE UNCHANGED <<results, call>>
  BY <1>10 DEF OpenInv, Verifier!Ended
<1>11. ASSUME NEW p \in Verifiers, NEW e \in Effect, Verifier!Verify(p, e)
       PROVE  OpenInv' /\ results' = results
  <2>1. results' = results /\ call'[p].pc = "load"
    BY <1>1, <1>11 DEF Verifier!Verify, Verifier!IdleCall
  <2> QED BY <1>3, <2>1 DEF SoleCaller
<1>12. CASE Verifier!Stop
  <2>1. results' = results /\ \A p \in Verifiers : call'[p].pc = "idle"
    BY <1>12 DEF Verifier!Stop, Verifier!IdleCall
  <2> QED BY <1>3, <2>1
<1>13. ASSUME NEW p \in Verifiers, Verifier!StoreFails(p) PROVE OpenInv' /\ results' = results
  BY <1>6, <1>13 DEF Verifier!StoreFails
<1>14. ASSUME NEW p \in Verifiers, NEW e \in Effect, NEW k \in IdemKey, Verifier!Submit(p, e, k)
       PROVE  UNCHANGED <<results, call>>
  BY <1>14 DEF Verifier!Submit
<1>15. Verifier!Tick \/ UNCHANGED Verifier!vars => UNCHANGED <<results, call>>
  BY DEF Verifier!Tick, Verifier!vars
<1> QED
  BY <1>7, <1>8, <1>9, <1>10, <1>11, <1>12, <1>13, <1>14, <1>15 DEF Verifier!Next, Verifier!Step

\* With one caller, Verify never writes an ended result again.
THEOREM EndWrittenOnce == SoleCaller => (Verifier!Spec => Verifier!EndedResultStays)
<1> SUFFICES ASSUME SoleCaller PROVE Verifier!Spec => Verifier!EndedResultStays
  OBVIOUS
<1>1. Verifier!Init => OpenInv
  BY DEF Verifier!Init, OpenInv, Verifier!IdleCall
<1>2. VerifierInv /\ OpenInv /\ [Verifier!Next]_(Verifier!vars) =>
        /\ VerifierInv' /\ OpenInv'
        /\ [\A e \in Effect : Verifier!Ended(e) => results'[e] = results[e]]_(Verifier!vars)
  BY VerifierStepSound, OpenStep
<1> QED BY <1>1, <1>2, VerifierInit, PTL DEF Verifier!Spec, Verifier!EndedResultStays
=============================================================================
