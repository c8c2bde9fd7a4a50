---------------------------- MODULE MCIncidents ----------------------------
(***************************************************************************)
(* The way of an incident, for TLC: rules are probed (Observation), alerts *)
(* are received (Ingress), signals become incidents (Correlation), these   *)
(* are acted on (Remedy), their recovery is verified (Verification), and   *)
(* two readers list incidents (IncidentQuery) and illustrate them          *)
(* (Evidence).                                                             *)
(*                                                                         *)
(* What one of these hands to the next is any value of a set in the next   *)
(* one's module.  The product of all would say nothing more than they do   *)
(* one by one, so a behaviour is one in which a single part moves.  part   *)
(* names it, and what of the constants it uses: the number of calls and    *)
(* alerts, the clock, the signals.                                         *)
(***************************************************************************)
EXTENDS Ingress, Observation, Correlation, Remedy, Verification, FiniteSets, TLC

CONSTANTS
  Twins,                                                                \* two alerts
  IncidentIDs, OpenedAts, Filters, PageSizes,                           \* IncidentQuery
  Sizes, MaxRecords, LineLimits, ByteLimits                             \* Evidence

VARIABLES
  part,
  stored, filter, pageSize, offset, reading, listed, start, opened,     \* IncidentQuery
  records, maxLines, maxBytes, next, lines, size, result                \* Evidence

Query == INSTANCE IncidentQuery WITH incidents <- stored

Evidence == INSTANCE Evidence

ASSUME ReadersAssumption == Query!QueryAssumption /\ Evidence!EvidenceAssumption

queryVars == <<stored, filter, pageSize, offset, reading, listed, start, opened>>
detectionVars == <<observerVars, incidents>>
evidenceVars == <<records, maxLines, maxBytes, next, lines, size, result>>

\* The first rule has streaks, the second one does not.
MCStreaks == [r \in Rules |-> IF r = 1 THEN 2 ELSE 1]
MCInterval == [r \in Rules |-> 1]
MCWindow == [r \in Rules |-> 2]

Signal(input, rule, at, healthy, severity) ==
  [input |-> input, rule |-> rule, at |-> at, healthy |-> healthy, severity |-> severity]

\* Two windows of one rule with failures, recoveries in both and in a third
\* one, an alert that fires and is resolved under one ID, and another rule.
Mixed ==
  {Signal("a", "r1", 2, FALSE, 2), Signal("b", "r1", 3, FALSE, 3),
   Signal("c", "r1", 2, TRUE, 1), Signal("h", "r1", 2, FALSE, 2), Signal("d", "r1", 4, FALSE, 1),
   Signal("d", "r1", 5, TRUE, 2), Signal("e", "r1", 7, TRUE, 2),
   Signal("f", "r2", 3, FALSE, 2), Signal("g", "r2", 5, TRUE, 2)}

\* One window and enough signals to reach every end, also after the memory of
\* inputs has overflowed.
OneWindow ==
  {Signal("a", "r3", 2, FALSE, 2), Signal("b", "r3", 2, FALSE, 2),
   Signal("c", "r3", 3, TRUE, 2), Signal("d", "r3", 3, TRUE, 2),
   Signal("e", "r3", 3, TRUE, 2), Signal("f", "r3", 3, FALSE, 2)}

MCSignals == Mixed \cup OneWindow

MCFilters == {[state |-> "any", from |-> 1, to |-> 2], [state |-> "any", from |-> 2, to |-> 2],
              [state |-> "open", from |-> 1, to |-> 2]}

MCAttemptOf == [e \in Effect |-> 0]

Parts == {"ingress", "pair", "rotation", "rule", "rules", "windows", "memory", "client",
          "sharing", "containers", "verifiers", "stopped", "query", "evidence"}

\* Ingress: two messages of one alert, two of different alerts, and rotations while
\* alerts are refused.
SentIDs == {m.id : m \in sent}
IngressScope ==
  \/ /\ part \in {"ingress", "pair"} /\ registered /\ signer = {0} /\ verifier = {0}
     /\ SentIDs \subseteq Twins
     /\ Cardinality(sent) <= 2
     /\ part = "ingress" => Cardinality(SentIDs) <= 1
     /\ part = "pair" => Cardinality(sent) = Cardinality(SentIDs)
  \/ /\ part = "rotation" /\ SentIDs \subseteq Malformed /\ Cardinality(sent) <= 2
     /\ Cardinality({c \in Calls : calls[c] # Idle}) <= 1

\* Observer: one rule with gaps and streaks, and two rules in less time.
ObserverScope ==
  \/ part = "rule" /\ \A c \in Cycles : cycles[c].pc # "idle" => cycles[c].todo \subseteq {1}
  \/ part = "rules" /\ probeClock <= 1

\* Correlator: the signals of one part or of the other.
CorrelatorScope ==
  \A k \in Correlator!Keys : incidents[k].phase # "none" =>
    \/ part = "windows" /\ k[1] # "r3" /\ Len(incidents[k].applied) <= 6
    \/ part = "memory" /\ k[1] = "r3"

\* Docker: two goroutines and one container, and one with containers that share a
\* service.
AdapterScope ==
  \/ part = "sharing" /\ used \subseteq {"i1"}
     /\ \A c \in containers : c.name = "n1"
     /\ \A p \in Callers : adapterCalls[p].op \in {"none", "evidence", "execute"}
  \/ part = "containers" /\ \E p \in Callers : \A q \in Callers \ {p} : adapterCalls[q].op = "none"

\* Stabilization: two calls at a time, and one whose process stops and whose
\* transactions fail.
VerifierScope ==
  \/ part = "verifiers" /\ stops = 0 /\ verifyClock <= 3
  \/ part = "stopped" /\ Cardinality({p \in Verifiers : call[p].at > 0}) <= 1

MCInit ==
  /\ part \in Parts
  /\ part # "rotation" => registered = TRUE
  /\ part # "client" => stream = FALSE
  /\ part # "query" => pageSize = 1 /\ filter = [state |-> "any", from |-> 1, to |-> 2]
  /\ part # "evidence" => records = <<>> /\ maxLines = 2 /\ maxBytes = 3
  /\ Init /\ Observer!Init /\ Correlator!Init /\ RemedyInit /\ Verifier!Init
  /\ Query!Init /\ Evidence!Init

IngressParts == part \in {"ingress", "pair", "rotation"} /\ Next /\ IngressScope'

DetectionParts ==
  \/ part \in {"rule", "rules"} /\ Observer!Next /\ ObserverScope' /\ UNCHANGED incidents
  \/ part \in {"windows", "memory"} /\ Correlator!Next /\ CorrelatorScope'
     /\ UNCHANGED observerVars

RemedyParts ==
  \/ part = "client" /\ ClientStep
  \/ part \in {"sharing", "containers"} /\ AdapterStep /\ AdapterScope'

MCNext ==
  /\ UNCHANGED part
  /\ \/ /\ IngressParts
        /\ UNCHANGED <<detectionVars, remedyVars, verifierVars, queryVars, evidenceVars>>
     \/ /\ DetectionParts
        /\ UNCHANGED <<vars, remedyVars, verifierVars, queryVars, evidenceVars>>
     \/ /\ RemedyParts
        /\ UNCHANGED <<vars, detectionVars, verifierVars, queryVars, evidenceVars>>
     \/ /\ part \in {"verifiers", "stopped"} /\ Verifier!Next /\ VerifierScope'
        /\ UNCHANGED <<vars, detectionVars, remedyVars, queryVars, evidenceVars>>
     \/ /\ part = "query" /\ Query!Next
        /\ UNCHANGED <<vars, detectionVars, remedyVars, verifierVars, evidenceVars>>
     \/ /\ part = "evidence" /\ Evidence!Next
        /\ UNCHANGED <<vars, detectionVars, remedyVars, verifierVars, queryVars>>

MCSpec ==
  /\ MCInit
  /\ [][MCNext]_<<part, vars, detectionVars, remedyVars, verifierVars, queryVars, evidenceVars>>

Symmetry == Permutations(Calls) \cup Permutations(Twins)

-----------------------------------------------------------------------------
(* Properties of the readers                                               *)

\* List: the pages repeat only what incidents opened meanwhile have shifted, and
\* without a state filter they miss nothing that matched at the start.  With one
\* they may: an incident that leaves the state between two pages shifts the others.  Collect: the lines are those of the
\* longest admissible prefix.
ReadsComplete ==
  /\ Query!TypeOK /\ Query!PagesCoverStart /\ Query!RepeatsOnlyShifted
  /\ Evidence!TypeOK /\ Evidence!CollectsLongestPrefix
=============================================================================
