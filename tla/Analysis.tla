------------------------------ MODULE Analysis ------------------------------
(***************************************************************************)
(* internal/analysis: Analyze, composed with the model client of module    *)
(* LLM that it calls.  The graph consumes the iterator in a loop whose     *)
(* body always returns, so yield always answers false, and it never        *)
(* streams.  What the model says is external: any reply may come.          *)
(***************************************************************************)
EXTENDS Naturals, FiniteSets, SequencesExt

CONSTANTS
  Inputs,        \* arguments of Analyze
  Replies,       \* texts of the model, as decoded
  GraphAttempts, \* MaxAttempts of the graph
  QuotaAttempts, \* MaxAttempts of the model client
  MaxBytes       \* MaxEvidenceBytes

\* What the constants have to satisfy.
AnalysisAssumption ==
  /\ {GraphAttempts, QuotaAttempts, MaxBytes} \subseteq Nat \ {0}

VARIABLES
  phase, stream, attempt, emitted, completed, yields, stopped, late, calls,  \* of LLM
  input,         \* the argument of Analyze
  stage,         \* where Analyze is: "start", "loop", "generate", "done"
  round,         \* attempts of the graph so far
  invalidResult, \* the variable of Analyze
  outcome,       \* what Analyze returned
  got            \* history: what came of each attempt

modelVars == <<phase, stream, attempt, emitted, completed, yields, stopped, late, calls>>
graphVars == <<input, stage, round, invalidResult, outcome, got>>
vars == <<modelVars, graphVars>>

\* One call more than there can be, so that a miscount shows.
Model == INSTANCE LLM WITH MaxAttempts <- QuotaAttempts, Streams <- {FALSE}, Answers <- {FALSE},
                           MaxEvents <- 1, MaxCalls <- GraphAttempts * QuotaAttempts + 1

None == [status |-> "none"]
Unavailable(code) == [status |-> "unavailable", code |-> code]

GraphInit ==
  /\ input \in Inputs
  /\ stage = "start"
  /\ round = 0
  /\ invalidResult = FALSE
  /\ outcome = None
  /\ got = <<>>

Init == Model!Idle /\ GraphInit

EvidenceIDs == {e.id : e \in ToSet(input.evidence)}

\* prepareEvidence and buildPrompt accept the input: sound items, each named
\* once and not empty, within the byte limit, and runbooks named once.
Prepared ==
  /\ input.sound
  /\ input.evidence # <<>>
  /\ Cardinality(EvidenceIDs) = Len(input.evidence)
  /\ \A e \in ToSet(input.evidence) : e.bytes > 0
  /\ FoldLeft(LAMBDA sum, e : sum + e.bytes, 0, input.evidence) <= MaxBytes
  /\ IsInjective(input.runbooks)

\* Mutant: an input that was refused is noted, and the loop goes on.
StartAnyway ==
  /\ stage = "start"
  /\ stage' = "loop"
  /\ outcome' = IF Prepared THEN None ELSE Unavailable("invalid_input")
  /\ UNCHANGED <<modelVars, input, round, invalidResult, got>>

\* Analyze up to its loop.
Start ==
  /\ stage = "start"
  /\ IF Prepared
     THEN stage' = "loop" /\ UNCHANGED outcome
     ELSE stage' = "done" /\ outcome' = Unavailable("invalid_input")
  /\ UNCHANGED <<modelVars, input, round, invalidResult, got>>

\* Mutant: the variable is declared in the loop.
AttemptForgets ==
  /\ stage = "loop" /\ round < GraphAttempts
  /\ Model!Begin
  /\ stage' = "generate"
  /\ round' = round + 1
  /\ invalidResult' = FALSE
  /\ UNCHANGED <<input, outcome, got>>

Attempt ==
  /\ stage = "loop" /\ round < GraphAttempts
  /\ Model!Begin
  /\ stage' = "generate"
  /\ round' = round + 1
  /\ UNCHANGED <<input, invalidResult, outcome, got>>

\* The model client goes on; a call of the provider ends by its deadline at last.
Generate ==
  /\ stage = "generate"
  /\ Model!Step
  /\ UNCHANGED graphVars

Answered == stage = "generate" /\ phase = "returned"
Yielded == yields # <<>> /\ Head(yields) \in {"response", "final"}

\* The client yields an error or nothing, or a response without text.
GenerateFails ==
  /\ Answered
  /\ stage' = "loop"
  /\ got' = Append(got, "error")
  /\ UNCHANGED <<modelVars, input, round, invalidResult, outcome>>

\* Every value is allowed, and none comes twice.
KnownReferences(values, allowed) == IsInjective(values) /\ ToSet(values) \subseteq allowed

\* Mutant: only the references of the result itself are looked at.
ValidReplyOnly(reply) ==
  /\ reply.decodes
  /\ reply.incident = input.incident
  /\ reply.refs # <<>>
  /\ KnownReferences(reply.refs, EvidenceIDs)
  /\ KnownReferences(reply.runbooks, ToSet(input.runbooks))

\* validateResult; decodes stands for the contract and the absence of command
\* text.
ValidResult(reply) ==
  /\ reply.decodes
  /\ reply.incident = input.incident
  /\ reply.refs # <<>>
  /\ KnownReferences(reply.refs, EvidenceIDs)
  /\ \A i \in DOMAIN reply.hypotheses :
       reply.hypotheses[i] # <<>> /\ KnownReferences(reply.hypotheses[i], EvidenceIDs)
  /\ KnownReferences(reply.runbooks, ToSet(input.runbooks))

\* A text comes back: it is returned when it validates, and is otherwise noted.
Reply(reply) ==
  /\ Answered /\ Yielded
  /\ IF ValidResult(reply)
     THEN /\ stage' = "done"
          /\ outcome' = [status |-> "complete", result |-> reply]
          /\ got' = Append(got, "valid")
          /\ UNCHANGED invalidResult
     ELSE /\ stage' = "loop"
          /\ invalidResult' = TRUE
          /\ got' = Append(got, "invalid")
          /\ UNCHANGED outcome
  /\ UNCHANGED <<modelVars, input, round>>

Exhausted ==
  /\ stage = "loop" /\ round = GraphAttempts
  /\ stage' = "done"
  /\ outcome' = Unavailable(IF invalidResult THEN "invalid_result" ELSE "model_unavailable")
  /\ UNCHANGED <<modelVars, input, round, invalidResult, got>>

\* Analyze has returned.
Done == stage = "done" /\ UNCHANGED vars

Next ==
  \/ Start \/ Attempt \/ Generate \/ GenerateFails \/ Exhausted \/ Done
  \/ \E reply \in Replies : Reply(reply)

Spec == Init /\ [][Next]_vars

-----------------------------------------------------------------------------
(* Properties                                                              *)

\* Type invariant.
TypeOK ==
  /\ Model!TypeOK
  /\ stage \in {"start", "loop", "generate", "done"}
  /\ round \in 0..GraphAttempts
  /\ Len(got) \in {round, round - 1}
  /\ outcome.status # "none" <=> stage = "done"

\* The code of an outcome says what happened over all attempts: an input that
\* was refused reached no provider, an unavailable model gave no text in any
\* attempt, an invalid result means that some text came and none was valid, and
\* a complete analysis is the first valid text.
OutcomeTruthful ==
  stage = "done" =>
    LET all == ToSet(got)
    IN  IF outcome.status = "complete"
        THEN got[Len(got)] = "valid" /\ "valid" \notin ToSet(Front(got))
        ELSE CASE outcome.code = "invalid_input" -> calls = 0
               [] outcome.code = "model_unavailable" -> all = {"error"} /\ Len(got) = GraphAttempts
               [] outcome.code = "invalid_result" -> "invalid" \in all /\ "valid" \notin all

\* Whatever the model says, a complete analysis is about the incident that was
\* asked about, and names only evidence and runbooks that were handed in.
Grounded ==
  outcome.status = "complete" =>
    LET result == outcome.result
        cited  == ToSet(result.refs) \cup UNION {ToSet(h) : h \in ToSet(result.hypotheses)}
    IN  /\ result.incident = input.incident
        /\ cited \subseteq EvidenceIDs
        /\ ToSet(result.runbooks) \subseteq ToSet(input.runbooks)

\* The retries of the graph and those of the model client together call the
\* provider a bounded number of times, and the loop of the graph never makes the
\* client yield to a consumer that has stopped.
ProviderBounded == calls <= GraphAttempts * QuotaAttempts /\ ~late

\* Analyze returns.
AnalyzeReturns == <>(stage = "done")
=============================================================================
