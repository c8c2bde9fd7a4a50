SPECIFICATION Spec
CONSTANTS
  p1 = p1
  p2 = p2
  Proc <- TwoProcs
  Effect = {"e1"}
  Incident <- MCIncident
  IncidentOf <- MCIncidentOf
  IdemKey = {"k1"}
  Actor = {"alice", "bob"}
  FactName = {"auto", "risky", "moved"}
  FactsOf <- MCFactsOf
  Loadable <- MCLoadable
  Expiries = {2, 3}
  MaxTime = 2
SYMMETRY ProcSymmetry
INVARIANTS
  AtMostOneExecution
  OutcomeTruthful
  ExecutionAuthorized
  GrantedBeforeExecution
  AnnouncedBeforeExecution
  DecisionAtomic
PROPERTIES
  Settled
  KeepsPromise
