------------------------------- MODULE Remedy -------------------------------
(***************************************************************************)
(* What the daemon calls for an incident: the client of the model (LLM)    *)
(* and the adapter that restarts containers (Docker).                      *)
(*                                                                         *)
(* They run side by side.  What each of them is asked to do is any request *)
(* of its own module, so that they share no variable and a step is a step  *)
(* of one of them.                                                         *)
(***************************************************************************)
EXTENDS Naturals, Sequences

CONSTANTS
  QuotaAttempts, Streams, Answers, MaxEvents, MaxModelCalls,            \* LLM
  Callers, ContainerIDs, Names, Services, Operations, Nobody            \* Docker

VARIABLES
  phase, stream, attempt, emitted, completed, yields, stopped, late,
  modelCalls,                                                           \* LLM
  containers, used, negotiated, mutex, negotiations, adapterCalls       \* Docker

Client == INSTANCE LLM WITH calls <- modelCalls, MaxAttempts <- QuotaAttempts,
  MaxCalls <- MaxModelCalls

Adapter == INSTANCE Docker WITH calls <- adapterCalls, IDs <- ContainerIDs

ASSUME RemedyAssumption == Client!LLMAssumption /\ Adapter!DockerAssumption

clientVars == <<phase, stream, attempt, emitted, completed, yields, stopped, late, modelCalls>>
adapterVars == <<containers, used, negotiated, mutex, negotiations, adapterCalls>>

remedyVars == <<clientVars, adapterVars>>

RemedyInit == Client!Init /\ Adapter!Init

ClientStep == Client!Next /\ UNCHANGED adapterVars

AdapterStep == Adapter!Next /\ UNCHANGED clientVars

RemedyNext == ClientStep \/ AdapterStep

RemedySpec == RemedyInit /\ [][RemedyNext]_remedyVars

-----------------------------------------------------------------------------
(* Properties.  The parts state and explain each conjunct.                 *)

\* GenerateContent: after yield answered false it is called at most once more, with
\* the error that ends a stream without a complete turn, and not at all when the
\* request does not stream; QuotaPolicy bounds the provider calls, and a stream that
\* was consumed to its end and shows no error is whole.
ModelClientSound ==
  /\ Client!TypeOK /\ Client!NoYieldAfterStop
  /\ Client!CallsBounded /\ Client!StreamEndMarked

\* Adapter: the API version is negotiated once and before other requests, Execute
\* restarts exactly the container that it resolved, and its result says so.
AdapterSound ==
  /\ Adapter!TypeOK /\ Adapter!NegotiatedOnceBefore
  /\ Adapter!RestartsTheResolved /\ Adapter!ResultTruthful
=============================================================================
