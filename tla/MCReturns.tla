----------------------------- MODULE MCReturns -----------------------------
(***************************************************************************)
(* What is begun ends, for TLC: calls of the model client (LLM), of the    *)
(* analysis over it (Analysis), of the container adapter (Docker) and of   *)
(* the publishers (Publishing) return, a verification attempt is settled   *)
(* (Stabilization) and the daemon shuts down (Standalone).                 *)
(*                                                                         *)
(* A behaviour is one of a single part, named by part, while the others    *)
(* stay in an initial state; the fairness is that of the active part.      *)
(***************************************************************************)
EXTENDS Naturals, FiniteSets, Sequences

VARIABLES
  part,
  phase, stream, attempt, emitted, completed, yields, stopped, late, modelCalls,  \* LLM
  input, stage, round, invalidResult, outcome, got,                               \* Analysis
  containers, used, negotiated, mutex, negotiations, adapterCalls,                \* Docker
  reports, events, queue, publishClock, calls, mu, lifecycle,                     \* Publishing
  journal, index, results, verifyClock, call, held, seen, stops,                  \* Stabilization
  path, swapped, main, accepted, closer, cancelled, server, conns, service, work,
  store, result                                                                   \* Standalone

LLM == INSTANCE LLM WITH calls <- modelCalls, MaxAttempts <- 3, Streams <- BOOLEAN,
  Answers <- BOOLEAN, MaxEvents <- 3, MaxCalls <- 5

\* Two pieces of evidence and two runbooks.
Item(id, bytes) == [id |-> id, bytes |-> bytes]
Inputs ==
  [incident : {"i1"}, sound : BOOLEAN, runbooks : {<<>>, <<"r1">>, <<"r1", "r1">>},
   evidence : {<<>>, <<Item("e1", 0)>>, <<Item("e1", 2)>>, <<Item("e1", 2), Item("e2", 1)>>,
               <<Item("e1", 2), Item("e2", 2)>>, <<Item("e1", 1), Item("e1", 1)>>}]
Replies ==
  [decodes : BOOLEAN, incident : {"i1", "i2"}, refs : {<<>>, <<"e1">>, <<"e2">>, <<"e1", "e1">>},
   hypotheses : {<<>>, << <<>> >>, << <<"e2">> >>}, runbooks : {<<>>, <<"r1">>, <<"r2">>}]

Analysis == INSTANCE Analysis WITH calls <- modelCalls, GraphAttempts <- 2, QuotaAttempts <- 3,
  MaxBytes <- 3

\* Two goroutines and one container.
Sharing == INSTANCE Docker WITH calls <- adapterCalls, Callers <- {"p", "q"}, IDs <- {"i1"},
  Names <- {"n1"}, Services <- {"s"}, Operations <- {"evidence", "execute"}, Nobody <- "nobody"

\* An input with its time, and one that compose rejects.
Report(id, occurred, safe) ==
  [id |-> id, occurred |-> occurred, analysis |-> FALSE, unavailable |-> TRUE,
   refs |-> {"a"}, cited |-> {}, safe |-> safe]
Publishing == INSTANCE Publishing WITH now <- publishClock, Calls <- {"c", "d"}, Publishers <- {"p"},
  Requests <- {Report("closed", 1, TRUE), Report("failed", 1, FALSE)}, TTL <- 1,
  MaxQueueItems <- 1, MaxRefs <- 2, MaxTime <- 2

Verifier == INSTANCE Stabilization WITH now <- verifyClock, Caller <- {"p"}, Effect <- {"e"},
  IdemKey <- {"k"}, RecoverySamples <- 3, Window <- 3, MaxAttempts <- 2,
  AttemptOf <- [e \in {"e"} |-> 1], Paced <- TRUE, MaxSamples <- 4, MaxTime <- 7, MaxStops <- 0

Standalone == INSTANCE Standalone WITH Clients <- {"c"}, Workers <- {"w"}

ASSUME InstancesSound ==
  /\ LLM!LLMAssumption
  /\ Analysis!AnalysisAssumption
  /\ Sharing!DockerAssumption
  /\ Publishing!PublishingAssumption
  /\ Verifier!StabilizationAssumption

Parts == {"llm", "analysis", "sharing", "publishing", "verifier", "standalone"}

llmVars == <<phase, stream, attempt, emitted, completed, yields, stopped, late, modelCalls>>
graphVars == <<input, stage, round, invalidResult, outcome, got>>
dockerVars == <<containers, used, negotiated, mutex, negotiations, adapterCalls>>
publishingVars == <<reports, events, queue, publishClock, calls, mu, lifecycle>>
verifierVars == <<journal, index, results, verifyClock, call, held, seen, stops>>
standaloneVars == <<path, swapped, main, accepted, closer, cancelled, server, conns, service, work,
                    store, result>>

Init ==
  /\ part \in Parts
  /\ LLM!Init
  /\ part # "llm" => ~stream
  /\ Analysis!GraphInit
  /\ part # "analysis" => input = CHOOSE i \in Inputs : TRUE
  /\ Sharing!Init
  /\ Publishing!Init
  /\ Verifier!Init
  /\ Standalone!Init
  /\ part # "standalone" => path = "none"

Next ==
  \/ /\ \/ part = "llm" /\ LLM!Next /\ UNCHANGED graphVars
        \/ part = "analysis" /\ Analysis!Next
     /\ UNCHANGED <<part, dockerVars, publishingVars, verifierVars, standaloneVars>>
  \/ /\ part = "sharing" /\ Sharing!Next
     /\ UNCHANGED <<part, llmVars, graphVars, publishingVars, verifierVars, standaloneVars>>
  \/ /\ part = "publishing" /\ Publishing!Next
     /\ UNCHANGED <<part, llmVars, graphVars, dockerVars, verifierVars, standaloneVars>>
  \/ /\ part = "verifier" /\ Verifier!Next
     /\ UNCHANGED <<part, llmVars, graphVars, dockerVars, publishingVars, standaloneVars>>
  \/ /\ part = "standalone" /\ Standalone!Next
     /\ UNCHANGED <<part, llmVars, graphVars, dockerVars, publishingVars, verifierVars>>

allVars ==
  <<part, llmVars, graphVars, dockerVars, publishingVars, verifierVars, standaloneVars>>

\* Analyze: every step of a call is taken: the provider answers or its deadline passes.
AnalysisFairness == WF_allVars(part = "analysis" /\ Next)

\* Docker: requests are answered or run into their deadline, and the mutex of Go
\* does not starve a waiter.
DockerFairness ==
  \A p \in {"p", "q"} :
    /\ SF_dockerVars(part = "sharing" /\ Sharing!Lock(p))
    /\ WF_dockerVars(part = "sharing" /\ Sharing!Answer(p))

\* Publishing: a goroutine that can go on does, and a mutex goes in the end to
\* each that waits for it (sync.Mutex hands over to a waiter that starves).
PublishingFairness == \A c \in {"c", "d"} : SF_publishingVars(part = "publishing" /\ Publishing!Step(c))

\* Stabilization: the clock runs, a started call is carried on, and the attempt of
\* a command that was executed keeps being verified.
VerifierFairness ==
  /\ WF_verifierVars(part = "verifier" /\ Verifier!Tick)
  /\ WF_verifierVars(part = "verifier" /\ Verifier!Step("p"))
  /\ WF_verifierVars(part = "verifier" /\ Verifier!Verify("p", "e"))

\* Standalone: goroutines that can go on do; a connection has a deadline and
\* draining a timeout.  Nothing is assumed of clients, of admitted work or of signals.
StandaloneFairness ==
  /\ WF_standaloneVars(part = "standalone" /\ Standalone!Main)
  /\ WF_standaloneVars(part = "standalone" /\ Standalone!Callback)
  /\ WF_standaloneVars(part = "standalone" /\ Standalone!Closing)
  /\ WF_standaloneVars(part = "standalone" /\ Standalone!Served("c"))

Spec ==
  /\ Init /\ [][Next]_allVars
  /\ AnalysisFairness /\ DockerFairness /\ PublishingFairness
  /\ VerifierFairness /\ StandaloneFairness

-----------------------------------------------------------------------------
(* Properties.  The parts state and explain each conjunct.                 *)

\* Analyze: what it returns is what came of its attempts, an accepted analysis
\* cites only what was handed in, and both retry loops together bound the
\* provider calls.
AnalysisSound ==
  part = "analysis" =>
    Analysis!TypeOK /\ Analysis!OutcomeTruthful /\ Analysis!Grounded /\ Analysis!ProviderBounded

\* GenerateContent repeats a request only while nothing was yielded.  Verify, with
\* one caller, writes an ended result no more, and succeeds only after consecutive
\* samples.
NothingRepeated ==
  LLM!RetriesBeforeEmission /\ Verifier!EndedResultStays /\ Verifier!ConsecutiveSamples

\* Analyze returns, calls of the adapter return also behind a negotiation that
\* fails, and PublishTerminal returns through both mutexes.
CallsReturn ==
  /\ part = "analysis" => Analysis!AnalyzeReturns
  /\ Sharing!CallsReturn
  /\ Publishing!CallReturns

\* Verify: an attempt whose window ends is settled.
AttemptSettles == Verifier!AttemptSettles

\* RunWithConfig returns once its context is cancelled.
ShutdownEnds == Standalone!ShutdownEnds
=============================================================================
