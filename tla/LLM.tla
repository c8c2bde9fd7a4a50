-------------------------------- MODULE LLM --------------------------------
(***************************************************************************)
(* internal/llm: GenerateContent of boundedModel, a Go iterator.  It calls *)
(* the provider, retries on quota, and hands each response or error to its *)
(* consumer by a call of yield, which answers whether the consumer goes    *)
(* on.  The provider and the consumer are external.                        *)
(***************************************************************************)
EXTENDS Naturals, Sequences

CONSTANTS
  MaxAttempts, \* QuotaPolicy.MaxAttempts
  Streams,     \* values of the parameter stream
  Answers,     \* what yield may answer
  MaxEvents,   \* bound on the responses of one provider call
  MaxCalls     \* bound on the count of provider calls

\* What the constants have to satisfy.
LLMAssumption ==
  /\ {MaxAttempts, MaxEvents, MaxCalls} \subseteq Nat \ {0}
  /\ Streams \subseteq BOOLEAN
  /\ Answers \subseteq BOOLEAN

VARIABLES
  phase,     \* where GenerateContent is
  stream,    \* its parameter
  attempt,   \* its loop variable
  emitted,   \* generateOnce has yielded a response
  completed, \* generateOnce saw a response with TurnComplete
  yields,    \* history: what was yielded
  stopped,   \* history: yield has answered false
  late,      \* history: yield was called after it had answered false
  calls      \* history: provider calls

vars == <<phase, stream, attempt, emitted, completed, yields, stopped, late, calls>>

Phases == {"idle", "loop", "provider", "ending", "returned"}
Errors == {"quota", "error", "malformed"}
Items == {"response", "final", "refused"} \cup Errors

Idle ==
  /\ phase = "idle"
  /\ stream \in Streams
  /\ attempt = 0
  /\ emitted = FALSE
  /\ completed = FALSE
  /\ yields = <<>>
  /\ stopped = FALSE
  /\ late = FALSE
  /\ calls = 0

\* A call of the iterator with a request that it accepts.
Begin ==
  /\ phase \in {"idle", "returned"}
  /\ phase' = "loop"
  /\ attempt' = 0
  /\ emitted' = FALSE
  /\ completed' = FALSE
  /\ yields' = <<>>
  /\ stopped' = FALSE
  /\ UNCHANGED <<stream, late, calls>>

\* A call of yield.
Yield(item) ==
  /\ yields' = Append(yields, item)
  /\ late' = (late \/ stopped)
  /\ \E answer \in Answers : stopped' = (stopped \/ ~answer)

Silent == UNCHANGED <<yields, stopped, late>>

\* A call of the iterator with a nil argument or with tools: ErrInvalidOptions or
\* ErrToolsForbidden, and the provider is not called.
Refuse ==
  /\ phase = "idle"
  /\ phase' = "returned"
  /\ Yield("refused")
  /\ UNCHANGED <<stream, attempt, emitted, completed, calls>>

\* generateOnce calls the provider.
Call ==
  /\ phase = "loop"
  /\ phase' = "provider"
  /\ emitted' = FALSE
  /\ completed' = FALSE
  /\ calls' = IF calls < MaxCalls THEN calls + 1 ELSE calls
  /\ Silent
  /\ UNCHANGED <<stream, attempt>>

\* Mutant: one attempt too many.
RetryOnceMore ==
  /\ IF attempt + 1 <= MaxAttempts
     THEN phase' = "loop" /\ attempt' = attempt + 1 /\ Silent
     ELSE phase' = "returned" /\ Yield("quota") /\ UNCHANGED attempt
  /\ UNCHANGED <<stream, emitted, completed, calls>>

\* The answer to a quota error that is to be retried.
Retry ==
  /\ IF attempt + 1 < MaxAttempts
     THEN phase' = "loop" /\ attempt' = attempt + 1 /\ Silent
     ELSE phase' = "returned" /\ Yield("quota") /\ UNCHANGED attempt
  /\ UNCHANGED <<stream, emitted, completed, calls>>

\* Mutant: quota is retried whatever was yielded before.
QuotaAnyTime == phase = "provider" /\ ~stream /\ Retry

\* Mutant: the retry does not count.
QuotaUncounted ==
  /\ phase = "provider"
  /\ phase' = "loop"
  /\ Silent
  /\ UNCHANGED <<stream, attempt, emitted, completed, calls>>

Quota == phase = "provider" /\ ~stream /\ ~emitted /\ Retry

\* Any other error of the provider, or a nil response; generateOnce reports
\* that the turn is not complete.
Fail(item) ==
  /\ phase = "provider"
  /\ item = "quota" => stream \/ emitted
  /\ phase' = "ending"
  /\ completed' = FALSE
  /\ Yield(item)
  /\ UNCHANGED <<stream, attempt, emitted, calls>>

Response(item) ==
  /\ phase = "provider"
  /\ Len(yields) < MaxEvents
  /\ Yield(item)
  /\ emitted' = TRUE
  /\ completed' = (completed \/ item = "final")
  /\ phase' = IF stopped' THEN "ending" ELSE "provider"
  /\ UNCHANGED <<stream, attempt, calls>>

\* The provider's sequence ends.
Finish ==
  /\ phase = "provider"
  /\ phase' = "ending"
  /\ completed' = (completed \/ ~stream)
  /\ Silent
  /\ UNCHANGED <<stream, attempt, emitted, calls>>

\* Mutant: whether the request streams is not looked at.
EndAny ==
  /\ phase = "ending"
  /\ phase' = "returned"
  /\ IF ~completed THEN Yield("malformed") ELSE Silent
  /\ UNCHANGED <<stream, attempt, emitted, completed, calls>>

\* Mutant: the end of a stream is not looked at.
EndSilently ==
  /\ phase = "ending"
  /\ phase' = "returned"
  /\ Silent
  /\ UNCHANGED <<stream, attempt, emitted, completed, calls>>

\* GenerateContent after generateOnce.
End ==
  /\ phase = "ending"
  /\ phase' = "returned"
  /\ IF stream /\ ~completed THEN Yield("malformed") ELSE Silent
  /\ UNCHANGED <<stream, attempt, emitted, completed, calls>>

Step ==
  \/ Call \/ Quota \/ Finish \/ End
  \/ \E item \in Errors : Fail(item)
  \/ \E item \in {"response", "final"} : Response(item)

Done == phase = "returned" /\ UNCHANGED vars

\* One request.
Init == Idle
Next == (phase = "idle" /\ Begin) \/ Refuse \/ Step \/ Done
Spec == Init /\ [][Next]_vars

-----------------------------------------------------------------------------
(* Properties                                                              *)

\* Type invariant.
TypeOK ==
  /\ phase \in Phases
  /\ stream \in Streams
  /\ attempt \in 0..MaxAttempts - 1
  /\ yields \in Seq(Items)
  /\ {emitted, completed, stopped, late} \subseteq BOOLEAN
  /\ calls \in 0..MaxCalls
  /\ phase = "returned" => calls > 0 \/ yields # <<>>

\* yield is called after it has answered false only by the last act of a stream that
\* did not complete its turn, the ErrMalformedResponse of GenerateContent, and never
\* in a request that does not stream: there the Go runtime would panic in the
\* caller (generateOnce and GenerateContent both go on after a call of yield).
NoYieldAfterStop == late => stream /\ ~completed /\ phase = "returned"

\* QuotaPolicy bounds the provider calls of a request that does not stream, and
\* a request that streams has one.
CallsBounded == calls <= IF stream THEN 1 ELSE MaxAttempts

\* A request is only repeated while nothing was yielded of it, however many
\* responses the provider gives before it reports quota.
RetriesBeforeEmission == [][calls' > calls => yields = <<>>]_vars

\* A stream that was consumed to its end and shows no error holds a response
\* that completed the turn: a stream that breaks off is never taken for whole.
StreamEndMarked ==
  phase = "returned" /\ stream /\ ~stopped =>
    \E i \in 1..Len(yields) : yields[i] \in Errors \cup {"final", "refused"}
=============================================================================
