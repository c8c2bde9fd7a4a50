SPECIFICATION Spec
CONSTANTS
  p1 = p1
  p2 = p2
  Proc <- OneProc
  Effect = {e1, e2}
  Incident <- MCIncident
  IncidentOf <- MCIncidentOf
  IdemKey = {k1, k2}
  Actor = {"alice"}
  FactName = {"auto", "risky", "cooling"}
  FactsOf <- MCFactsOf
  Loadable <- RiskyLoadable
  Expiries = {2}
  MaxTime = 1
SYMMETRY PairSymmetry
INVARIANTS
  IndexSound
