---------------------------- MODULE Verification ----------------------------
(***************************************************************************)
(* The verification that a service stays recovered (Stabilization), beside *)
(* the other parts of the system: the names of its constants and variables *)
(* there.                                                                  *)
(***************************************************************************)
EXTENDS Naturals

CONSTANTS
  Verifiers, Effect, IdemKey, StableSamples, StableWindow, MaxAttempts, AttemptOf, Paced,
  MaxSamples, MaxVerifyTime, MaxStops

VARIABLES journal, index, results, verifyClock, call, held, seen, stops

Verifier == INSTANCE Stabilization WITH Caller <- Verifiers, now <- verifyClock,
  RecoverySamples <- StableSamples, Window <- StableWindow, MaxTime <- MaxVerifyTime

ASSUME VerificationAssumption == Verifier!StabilizationAssumption

verifierVars == <<journal, index, results, verifyClock, call, held, seen, stops>>

\* Verify: the stored end of an attempt is the end of its command, and a success
\* is earned by samples and the whole window, whoever races or stops.
VerifierSound == Verifier!TypeOK /\ Verifier!ResultTruthful /\ Verifier!SuccessJustified
=============================================================================
