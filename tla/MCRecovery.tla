----------------------------- MODULE MCRecovery -----------------------------
(***************************************************************************)
(* Recovery for TLC: one registered runbook whose current facts the daemon *)
(* may see in several forms, and requests that claim any of them.          *)
(***************************************************************************)
EXTENDS Recovery, TLC

CONSTANTS p1, p2

OneProc == {p1}
TwoProcs == {p1, p2}

MCIncident == {"i1"}
MCIncidentOf == [e \in Effect |-> "i1"]

\* Low risk, executed without approval unless the facts below say otherwise.
MCRunbook ==
  [target |-> "t", digest |-> "d", cooldowns |-> <<2>>, analysisRequired |-> FALSE,
   preconditions |-> <<"down">>, maxAttempts |-> 1, samples |-> 1, window |-> 1,
   risk |-> "low", approvalRequired |-> FALSE, autoExecute |-> TRUE]

MCSnapshot(runbook) ==
  [valid |-> TRUE, runbooks |-> [r \in {"rb"} |-> runbook], approvers |-> {"alice"}]

MCInput ==
  [runbook |-> "rb", digest |-> "d", target |-> "t", action |-> 0,
   analysisAvailable |-> TRUE, candidates |-> {}, met |-> {"down"}, last |-> 0,
   attempts |-> 0, approval |-> NoApproval, revoked |-> FALSE]

\* auto: runs at once.  risky: needs an approval.  cooling: a restart at time 1
\* blocks it until 3, and the analysis is unavailable.  moved: the registered
\* target no longer is the journaled one.
MCFactName == {"auto", "risky", "cooling", "moved"}

MCFactsOf ==
  [n \in MCFactName |->
    [snapshot |-> MCSnapshot(IF n = "risky" THEN [MCRunbook EXCEPT !.risk = "high"]
                             ELSE MCRunbook),
     input |-> [MCInput EXCEPT !.analysisAvailable = n # "cooling",
                               !.last = IF n = "cooling" THEN 1 ELSE 0],
     bound |-> n # "moved"]]

\* What the daemon sees of one effect changes at any time; of two effects, it
\* requires an approval for each.
MCLoadable == [e \in Effect |-> FactName \cap {"auto", "risky", "moved"}]
RiskyLoadable == [e \in Effect |-> {"risky"}]

ProcSymmetry == Permutations(Proc)
PairSymmetry == Permutations(IdemKey) \cup Permutations(Effect)
=============================================================================
