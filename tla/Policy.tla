------------------------------- MODULE Policy -------------------------------
(***************************************************************************)
(* internal/policy: the pure engine that decides whether a registered      *)
(* recovery action is allowed, waits for an approval, or is denied.        *)
(*                                                                         *)
(* Data abstraction.  A snapshot is                                        *)
(*   [valid, runbooks, approvers]: whether the registry passes the         *)
(*   structural checks of validSnapshot, the registrations by runbook ID   *)
(*   (IDs are unique, so a function), and the authorized approvers.        *)
(* A registration keeps what Evaluate compares, with its preconditions as  *)
(* a sequence of names:                                                    *)
(*   [target, digest, cooldowns, analysisRequired, preconditions,          *)
(*    maxAttempts, samples, window, risk, approvalRequired, autoExecute]   *)
(*   where cooldowns[i] is the cooldown of typed action i - 1.             *)
(* An input is the dynamic context; `last' is 0 when no attempt was made   *)
(* (Go's zero time), so real times are positive.  `approval' is            *)
(* NoApproval for Go's nil pointer.                                        *)
(***************************************************************************)
EXTENDS Integers, Sequences

\* policy.Decision: a verdict and its stable reason code.
Decision(verdict, reason) == [verdict |-> verdict, reason |-> reason]

\* The reason codes of a denial.
Reason == {"invalid_policy", "unregistered_runbook", "forged_digest",
           "target_mismatch", "action_invalid", "analysis_unavailable",
           "analysis_runbook_mismatch", "precondition_failed", "cooldown_active",
           "retry_exhausted", "stabilization_invalid", "approval_revoked",
           "approval_denied", "approval_expired"}

Decisions == [verdict : {"allow", "await_approval", "deny"},
              reason : Reason \cup {"allowed", "approval_required"}]

Deny(reason) == Decision("deny", reason)

Allowed == Decision("allow", "allowed")

AwaitApproval == Decision("await_approval", "approval_required")

\* The approval pointer is nil.
NoApproval == [decision |-> "none", command |-> "none", approver |-> "none",
               created |-> 0, expires |-> 0]

\* ApprovalStateSource attaches the zero contract.Approval when the durable
\* one is missing; it differs from nil.
ZeroApproval == [NoApproval EXCEPT !.decision = "zero"]

\* uniqueNonEmpty: no empty name and no name twice.
UniqueNonEmpty(values) ==
  \A i \in DOMAIN values :
    values[i] # "" /\ \A j \in DOMAIN values : values[j] = values[i] => j = i

\* A malformed list of preconditions is never met.
PreconditionsMet(required, met) ==
  UniqueNonEmpty(required) /\ \A i \in DOMAIN required : required[i] \in met

CooldownElapsed(cooldown, last, now) ==
  last = 0 \/ (now >= last /\ now - last >= cooldown)

NeedsApproval(runbook) ==
  runbook.risk # "low" \/ runbook.approvalRequired \/ ~runbook.autoExecute

\* approval(): what a supplied approval decides on its own.
ApprovalDecision(approvers, input, command, now) ==
  LET a == input.approval
  IN  IF input.revoked \/ a.approver \notin approvers THEN Deny("approval_revoked")
      ELSE IF a.decision = "denied" THEN Deny("approval_denied")
      ELSE IF \/ a.decision # "granted"
              \/ a.command # command
              \/ a.expires <= a.created
              \/ now >= a.expires
      THEN Deny("approval_expired")
      ELSE Allowed

\* The checks of one registration that do not depend on an approval, in the
\* order the code makes them; "" is the code's empty reason.
Obstacle(rb, input, now) ==
  IF input.digest # rb.digest THEN "forged_digest"
  ELSE IF input.target # rb.target THEN "target_mismatch"
  ELSE IF input.action \notin 0 .. Len(rb.cooldowns) - 1 THEN "action_invalid"
  ELSE IF rb.analysisRequired /\ ~input.analysisAvailable THEN "analysis_unavailable"
  ELSE IF rb.analysisRequired /\ input.runbook \notin input.candidates
  THEN "analysis_runbook_mismatch"
  ELSE IF ~PreconditionsMet(rb.preconditions, input.met) THEN "precondition_failed"
  ELSE IF ~CooldownElapsed(rb.cooldowns[input.action + 1], input.last, now)
  THEN "cooldown_active"
  ELSE IF input.attempts \notin 0 .. rb.maxAttempts - 1 THEN "retry_exhausted"
  ELSE IF rb.samples < 1 \/ rb.window <= 0 THEN "stabilization_invalid"
  ELSE ""

\* Evaluate(): the registered action's obstacles first, then the approval.
Evaluate(snapshot, input, command, now) ==
  IF ~snapshot.valid THEN Deny("invalid_policy")
  ELSE IF input.runbook \notin DOMAIN snapshot.runbooks
  THEN Deny("unregistered_runbook")
  ELSE LET rb == snapshot.runbooks[input.runbook]
           obstacle == Obstacle(rb, input, now)
       IN  IF obstacle # "" THEN Deny(obstacle)
           ELSE IF input.approval # NoApproval
           THEN ApprovalDecision(snapshot.approvers, input, command, now)
           ELSE IF NeedsApproval(rb) THEN AwaitApproval
           ELSE Allowed
=============================================================================
