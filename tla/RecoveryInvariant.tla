------------------------- MODULE RecoveryInvariant --------------------------
(***************************************************************************)
(* Facts about the policy engine for every snapshot, input and time; the   *)
(* inductive invariant of Recovery; that every step keeps the types of the *)
(* state; what a step of one call leaves to the other calls and the other  *)
(* effects; and that every step of Submit, Resume, execute, Reconcile, the *)
(* verifier, the approvals and the environment preserves the invariant.    *)
(***************************************************************************)
EXTENDS Recovery, TLAPS

-----------------------------------------------------------------------------
(* The policy engine                                                       *)

\* Evaluate always returns one of the three verdicts with a reason code.
LEMMA EvaluateType ==
  ASSUME NEW snapshot, NEW input, NEW command, NEW t
  PROVE  Evaluate(snapshot, input, command, t) \in Decisions
<1> DEFINE rb == snapshot.runbooks[input.runbook]
<1>1. Obstacle(rb, input, t) \in Reason \cup {""}
  BY ZenonT(60) DEF Obstacle, Reason
<1>2. \A reason \in Reason : Deny(reason) \in Decisions
  BY DEF Deny, Decision, Decisions
<1>3. Allowed \in Decisions /\ AwaitApproval \in Decisions
  BY DEF Allowed, AwaitApproval, Decision, Decisions
<1>4. ApprovalDecision(snapshot.approvers, input, command, t) \in Decisions
  BY <1>2, <1>3, Zenon DEF ApprovalDecision, Reason
<1> QED
  BY <1>1, <1>2, <1>3, <1>4, ZenonT(60) DEF Evaluate, Reason

\* The approval that Evaluate accepts: granted for this command by a currently
\* authorized approver, not revoked, and not expired.
ValidGrant(snapshot, input, command, t) ==
  LET a == input.approval
  IN  /\ ~input.revoked
      /\ a.approver \in snapshot.approvers
      /\ a.decision = "granted"
      /\ a.command = command
      /\ ~(t >= a.expires)

\* Evaluate never allows an action that needs an approval without a valid
\* grant, nor an action with an unmet registration check, and an approval that
\* is supplied must itself be valid (Evaluate and approval in policy.go).
THEOREM AllowNeedsValidGrant ==
  ASSUME NEW snapshot, NEW input, NEW command, NEW t,
         Evaluate(snapshot, input, command, t).verdict = "allow"
  PROVE  LET rb == snapshot.runbooks[input.runbook]
         IN  /\ snapshot.valid /\ input.runbook \in DOMAIN snapshot.runbooks
             /\ Obstacle(rb, input, t) = ""
             /\ \/ input.approval = NoApproval /\ ~NeedsApproval(rb)
                \/ ValidGrant(snapshot, input, command, t)
<1> DEFINE rb == snapshot.runbooks[input.runbook]
<1>1. \A reason : Deny(reason).verdict # "allow"
  BY DEF Deny, Decision
<1>2. AwaitApproval.verdict # "allow"
  BY DEF AwaitApproval, Decision
<1>3. /\ snapshot.valid /\ input.runbook \in DOMAIN snapshot.runbooks
      /\ Obstacle(rb, input, t) = ""
  BY <1>1, Zenon DEF Evaluate
<1>4. CASE input.approval = NoApproval
  BY <1>2, <1>3, <1>4, Zenon DEF Evaluate
<1>5. CASE input.approval # NoApproval
  <2>1. ApprovalDecision(snapshot.approvers, input, command, t).verdict = "allow"
    BY <1>3, <1>5, Zenon DEF Evaluate
  <2>2. ValidGrant(snapshot, input, command, t)
    BY <1>1, <2>1 DEF ApprovalDecision, ValidGrant
  <2> QED
    BY <1>3, <2>2, Zenon
<1> QED
  BY <1>4, <1>5, Zenon

-----------------------------------------------------------------------------
(* The inductive invariant                                                 *)

Calling == Label \ {"idle", "reconcile"}

Preparing == {"analysis", "prepare"}

\* Labels of execute(), in the order a call passes them.
Running == {"check1", "validate", "check2", "deny", "expire", "started", "approve",
            "start", "execute", "finish", "uncertain"}
PastChecks == {"started", "approve", "start", "execute", "finish", "uncertain"}
PastEvent == PastChecks \ {"started"}

\* States only a command that passed approve can have.
PastApprove == {"approved", "executing", "stabilizing", "succeeded", "failed"}

\* validRecordPhase, with the absent record.
ValidRecordPhase(r) ==
  \/ r.phase = "none" /\ r.state = "none"
  \/ r.phase \in {"pending", "awaiting_approval"} /\ r.state = "pending"
  \/ r.phase \in {"approved", "executing", "stabilizing"} /\ r.state = r.phase
  \/ r.phase = "completed" /\ r.state \in {"succeeded", "failed", "denied", "expired"}
  \/ r.phase = "verify_and_notify" /\ r.state \in {"pending", "approved", "executing"}

\* How often a record's effect can have been applied.
CountInv(e) ==
  /\ ValidRecordPhase(journal[e])
  /\ executions[e] \in {0, 1}
  /\ StatusOf(journal[e]) \in {"absent", "open", "closed"} => executions[e] = 0
  /\ StatusOf(journal[e]) = "applied" => executions[e] = 1

\* The record, its approval and the history of its waiting.
GrantInv(e) ==
  LET r == journal[e]
  IN  /\ r.phase = "awaiting_approval" => e \in asked
      /\ e \in asked => r.phase \notin {"none", "pending"}
      /\ r.approval <=> approvals[e] # NoApproval
      /\ r.approval <=> "accepted" \in audited[e]
      /\ r.approval => e \in asked
      /\ r.approval /\ r.state # "denied" => approvals[e].decision = "granted"
      /\ e \in asked /\ r.state \in PastApprove => r.approval

\* A command past approve was cleared and announced.
ClearInv(e) == journal[e].state \in PastApprove => Authorized(e) /\ Announced(e)

\* What a call in flight may rely on.
CallInv(p) ==
  LET c == call[p]
      e == c.effect
  IN  /\ c.pc \in Calling => e \in Effect
      /\ c.pc \in Preparing => ~c.approval
      /\ c.pc \in Running =>
           /\ journal[e].phase # "none"
           /\ c.expires = journal[e].expires
           /\ c.approval = journal[e].approval
           /\ ~c.approval => e \notin asked
      /\ c.pc \in PastChecks => Authorized(e)
      /\ c.pc \in PastEvent => Announced(e)
      /\ c.pc = "execute" => executions[e] = 0 /\ journal[e].state = "executing"
      /\ c.pc \in {"finish", "uncertain"} => executions[e] = 1

\* At most one call is about to apply an effect.
Exclusive ==
  \A p, q \in Proc :
    /\ call[p].pc = "execute" /\ call[q].pc = "execute"
    /\ call[p].effect = call[q].effect
    => p = q

Inv ==
  /\ TypeOK
  /\ \A e \in Effect : CountInv(e) /\ GrantInv(e) /\ ClearInv(e)
  /\ \A p \in Proc : CallInv(p)
  /\ Exclusive

-----------------------------------------------------------------------------
(* Type correctness                                                        *)

\* The parts of the invariant that speak of one call and of one record.
LEMMA InvParts ==
  ASSUME Inv
  PROVE  /\ TypeOK
         /\ \A p \in Proc : CallInv(p) /\ call[p] \in Call
         /\ \A e \in Effect : /\ CountInv(e) /\ GrantInv(e) /\ ClearInv(e)
                             /\ journal[e] \in JournalRecord
  BY DEF Inv, TypeOK

\* The effect a running call works on.
LEMMA CallEffect ==
  ASSUME Inv, NEW p \in Proc, call[p].pc \notin {"idle", "reconcile"}
  PROVE  call[p].effect \in Effect
<1>1. call[p] \in Call
  BY DEF Inv, TypeOK
<1>2. call[p].pc \in Calling
  BY <1>1 DEF Call, Calling
<1> QED
  BY <1>2 DEF Inv, CallInv

\* A goroutine between two calls is well typed.
LEMMA IdleCallType == IdleCall \in Call
  BY DEF IdleCall, Call, Label, Decisions, Allowed, Decision

\* The absent journal record is well typed.
LEMMA NoRecordType == NoRecord \in JournalRecord
  BY DEF NoRecord, JournalRecord, Phase, CommandState

\* The absent approval is well typed.
LEMMA NoApprovalType == NoApproval \in Approval
  BY DEF NoApproval, Approval

\* The return of a call keeps the type of the calls.
LEMMA ReturnType ==
  ASSUME TypeOK, NEW p \in Proc, Return(p)
  PROVE  call' \in [Proc -> Call]
  BY IdleCallType DEF TypeOK, Return

\* A call that goes on keeps the type of the calls.
LEMMA GotoType ==
  ASSUME TypeOK, NEW p \in Proc, NEW l \in Label, Goto(p, l)
  PROVE  call' \in [Proc -> Call]
  BY SMTT(60) DEF TypeOK, Goto, Call

\* A record that moves to another phase and state stays well typed.
LEMMA MoveType ==
  ASSUME TypeOK, NEW e \in Effect, NEW phase \in Phase, NEW state \in CommandState,
         Move(e, phase, state)
  PROVE  journal' \in [Effect -> JournalRecord]
<1> DEFINE r == [journal[e] EXCEPT !.phase = phase, !.state = state]
<1>1. journal[e] \in JournalRecord
  BY DEF TypeOK
<1>2. r \in JournalRecord
  BY <1>1, ZenonT(60) DEF JournalRecord
<1> HIDE DEF r
<1>3. journal' = [journal EXCEPT ![e] = r]
  BY DEF Move, r
<1> QED
  BY <1>2, <1>3 DEF TypeOK

\* updateRecord keeps the types of the journal and of the calls, whether its
\* guard holds or not.
LEMMA UpdateRecordType ==
  ASSUME TypeOK, NEW p \in Proc, call[p].effect \in Effect, NEW guard,
         NEW phase \in Phase, NEW state \in CommandState, NEW next \in Label,
         UpdateRecord(p, guard, phase, state, next)
  PROVE  journal' \in [Effect -> JournalRecord] /\ call' \in [Proc -> Call]
<1>1. CASE Move(call[p].effect, phase, state) /\ Return(p)
  BY <1>1, MoveType, ReturnType
<1>2. CASE Move(call[p].effect, phase, state) /\ Goto(p, next)
  BY <1>2, MoveType, GotoType
<1>3. CASE UNCHANGED journal /\ Return(p)
  BY <1>3, ReturnType DEF TypeOK
<1> QED
  BY <1>1, <1>2, <1>3 DEF UpdateRecord

\* lifecycle Publish keeps the type of the calls in each of its outcomes.
LEMMA PublishType ==
  ASSUME TypeOK, NEW p \in Proc, NEW event, NEW next \in Label, Publish(p, event, next)
  PROVE  call' \in [Proc -> Call]
  BY ReturnType, GotoType DEF Publish

\* Every step of the coordinator, the approvals and the environment keeps the
\* types of the state.
LEMMA TypeStep == Inv /\ Next => TypeOK'
<1> SUFFICES ASSUME Inv, Next PROVE TypeOK'
  OBVIOUS
<1>t. TypeOK
  BY DEF Inv
<1> USE DEF decisions, history
<1>1. ASSUME NEW p \in Proc, NEW e \in Effect, NEW k \in IdemKey, NEW n \in FactName,
             NEW x \in Expiries, SubmitBegin(p, e, k, n, x)
      PROVE  TypeOK'
  <2> DEFINE d == Evaluate(FactsOf[n].snapshot, FactsOf[n].input, e, now)
             pc == IF FactsOf[n].input.analysisAvailable THEN "prepare" ELSE "analysis"
             c == [IdleCall EXCEPT !.pc = pc, !.effect = e, !.key = k, !.issued = now,
                                   !.expires = x, !.decision = d]
  <2>1. d \in Decisions
    BY EvaluateType
  <2>2. pc \in Label
    BY DEF Label
  <2>3. call' = [call EXCEPT ![p] = c]
    BY <1>1 DEF SubmitBegin
  <2> HIDE DEF d, pc
  <2>4. x \in Nat /\ now \in Nat
    BY <1>t, ConstantsAssumption DEF TypeOK
  <2>5. c \in Call
    BY <2>1, <2>2, <2>4, IdleCallType, ZenonT(60) DEF Call
  <2>6. call' \in [Proc -> Call]
    BY <2>3, <2>5, <1>t DEF TypeOK
  <2> QED
    BY <1>1, <1>t, <2>6 DEF SubmitBegin, TypeOK
<1>2. ASSUME NEW p \in Proc, NEW e \in Effect, ResumeBegin(p, e) PROVE TypeOK'
  <2> DEFINE c == [IdleCall EXCEPT !.pc = "check1", !.effect = e,
                     !.issued = journal[e].issued, !.expires = journal[e].expires,
                     !.approval = TRUE]
  <2>1. journal[e] \in JournalRecord
    BY <1>t DEF TypeOK
  <2>2. c \in Call
    BY <2>1, IdleCallType, ZenonT(60) DEF Call, JournalRecord, Label
  <2>3. call' \in [Proc -> Call]
    BY <1>2, <1>t, <2>2 DEF ResumeBegin, TypeOK
  <2> QED
    BY <1>2, <1>t, <2>3 DEF ResumeBegin, TypeOK
<1>3. ASSUME NEW p \in Proc, ReconcileBegin(p) PROVE TypeOK'
  <2> DEFINE found == {e \in Effect : IsReconcilablePhase(journal[e].phase)}
             c == [IdleCall EXCEPT !.pc = "reconcile", !.todo = found]
  <2>1. c \in Call
    BY IdleCallType, ZenonT(60) DEF Call, Label
  <2>2. call' \in [Proc -> Call]
    BY <1>3, <1>t, <2>1 DEF ReconcileBegin, TypeOK
  <2> QED
    BY <1>3, <1>t, <2>2 DEF ReconcileBegin, TypeOK
<1>4. ASSUME NEW p \in Proc, PublishAnalysisUnavailable(p) PROVE TypeOK'
  <2>1. call' \in [Proc -> Call]
    BY <1>4, <1>t, PublishType DEF PublishAnalysisUnavailable, Label
  <2> QED
    BY <1>4, <1>t, <2>1 DEF PublishAnalysisUnavailable, TypeOK
<1>5. ASSUME NEW p \in Proc, PrepareDenied(p) PROVE TypeOK'
  <2>1. call' \in [Proc -> Call]
    BY <1>5, <1>t, GotoType DEF PrepareDenied, Label
  <2> QED
    BY <1>5, <1>t, <2>1 DEF PrepareDenied, TypeOK
<1>6. ASSUME NEW p \in Proc, PublishPolicyDenied(p) PROVE TypeOK'
  <2>1. call' \in [Proc -> Call]
    BY <1>6, <1>t, PublishType DEF PublishPolicyDenied, Label
  <2> QED
    BY <1>6, <1>t, <2>1 DEF PublishPolicyDenied, TypeOK
<1>7. ASSUME NEW p \in Proc, PersistConflict(p) PROVE TypeOK'
  <2>1. call' \in [Proc -> Call]
    BY <1>7, <1>t, ReturnType DEF PersistConflict
  <2> QED
    BY <1>7, <1>t, <2>1 DEF PersistConflict, TypeOK
<1>8. ASSUME NEW p \in Proc, PersistDuplicate(p) PROVE TypeOK'
  <2> DEFINE e == call[p].effect
  <2>1. e \in Effect
    BY <1>8, CallEffect DEF PersistDuplicate, Persisting
  <2>2. journal[e] \in JournalRecord
    BY <1>t, <2>1 DEF TypeOK
  <2>3. index' \in [IdemKey -> Effect \cup {"none"}]
    BY <1>8, <1>t, <2>1, ZenonT(60) DEF PersistDuplicate, TypeOK
  <2>4. call' \in [Proc -> Call]
    <3>1. CASE Return(p)
      BY <3>1, <1>t, ReturnType
    <3>2. CASE call' = [call EXCEPT ![p] =
                 [@ EXCEPT !.pc = "ask", !.issued = journal[e].issued]]
      <4> DEFINE c == [call[p] EXCEPT !.pc = "ask", !.issued = journal[e].issued]
      <4>1. call[p] \in Call /\ journal[e].issued \in Nat
        BY <1>t, <2>2 DEF TypeOK, JournalRecord
      <4>2. c \in Call
        BY <4>1, ZenonT(60) DEF Call, Label
      <4> QED
        BY <3>2, <4>2, <1>t DEF TypeOK
    <3> QED
      BY <1>8, <3>1, <3>2 DEF PersistDuplicate
  <2> QED
    BY <1>8, <1>t, <2>3, <2>4 DEF PersistDuplicate, TypeOK
<1>9. ASSUME NEW p \in Proc, PersistNew(p) PROVE TypeOK'
  <2> DEFINE c == call[p]
             phase == IF c.decision.verdict = "await_approval"
                      THEN "awaiting_approval" ELSE "pending"
             next == IF c.decision.verdict = "await_approval" THEN "ask" ELSE "check1"
  <2>1. c.effect \in Effect /\ c \in Call
    BY <1>9, <1>t, CallEffect DEF PersistNew, Persisting, TypeOK
  <2>2. NewRecord(c, phase) \in JournalRecord
    BY <2>1 DEF NewRecord, JournalRecord, Phase, CommandState, Call
  <2>3. journal' \in [Effect -> JournalRecord]
    BY <1>9, <1>t, <2>1, <2>2 DEF PersistNew, TypeOK
  <2>4. next \in Label /\ Goto(p, next)
    BY <1>9 DEF PersistNew, Label
  <2>5. call' \in [Proc -> Call]
    BY <1>t, <2>4, GotoType
  <2>6. index' \in [IdemKey -> Effect \cup {"none"}] /\ asked' \subseteq Effect
    BY <1>9, <1>t, <2>1, ZenonT(60) DEF PersistNew, TypeOK
  <2> QED
    BY <1>9, <1>t, <2>3, <2>5, <2>6 DEF PersistNew, TypeOK
<1>10. ASSUME NEW p \in Proc, PublishApprovalRequested(p) PROVE TypeOK'
  <2>1. call' \in [Proc -> Call]
    BY <1>10, <1>t, PublishType DEF PublishApprovalRequested, Label
  <2> QED
    BY <1>10, <1>t, <2>1 DEF PublishApprovalRequested, TypeOK
<1>11. ASSUME NEW p \in Proc, Revalidate(p) PROVE TypeOK'
  <2>1. call' \in [Proc -> Call]
    BY <1>11, <1>t, GotoType
       DEF Revalidate, RevalidateAllows, RevalidateRejects, Clear, Label
  <2>2. cleared' \in [Effect -> Nat]
    BY <1>11, <1>t DEF Revalidate, RevalidateAllows, RevalidateRejects, Clear, TypeOK
  <2> QED
    BY <1>11, <1>t, <2>1, <2>2 DEF Revalidate, TypeOK
<1>12. ASSUME NEW p \in Proc, ValidateAction(p) PROVE TypeOK'
  <2>1. call' \in [Proc -> Call]
    BY <1>12, <1>t, GotoType DEF ValidateAction, Label
  <2> QED
    BY <1>12, <1>t, <2>1 DEF ValidateAction, TypeOK
<1>13. ASSUME NEW p \in Proc, DenyAfterRevalidation(p) PROVE TypeOK'
  <2>1. call[p].effect \in Effect
    BY <1>13, CallEffect, Zenon DEF DenyAfterRevalidation
  <2>2. journal' \in [Effect -> JournalRecord] /\ call' \in [Proc -> Call]
    BY <1>13, <1>t, <2>1, UpdateRecordType, ZenonT(60)
      DEF DenyAfterRevalidation, Phase, CommandState, Label
  <2> QED
    BY <1>13, <1>t, <2>2 DEF DenyAfterRevalidation, TypeOK
<1>14. ASSUME NEW p \in Proc, Expire(p) PROVE TypeOK'
  <2>1. call[p].effect \in Effect
    BY <1>14, CallEffect, Zenon DEF Expire
  <2>2. journal' \in [Effect -> JournalRecord] /\ call' \in [Proc -> Call]
    BY <1>14, <1>t, <2>1, UpdateRecordType, ZenonT(60) DEF Expire, Phase, CommandState, Label
  <2> QED
    BY <1>14, <1>t, <2>2 DEF Expire, TypeOK
<1>15. ASSUME NEW p \in Proc, PublishRecoveryStarted(p) PROVE TypeOK'
  <2>1. call' \in [Proc -> Call]
    BY <1>15, <1>t, PublishType DEF PublishRecoveryStarted, Label
  <2> QED
    BY <1>15, <1>t, <2>1 DEF PublishRecoveryStarted, TypeOK
<1>16. ASSUME NEW p \in Proc, Approve(p) PROVE TypeOK'
  <2>1. call[p].effect \in Effect
    BY <1>16, CallEffect, Zenon DEF Approve
  <2>2. journal' \in [Effect -> JournalRecord] /\ call' \in [Proc -> Call]
    BY <1>16, <1>t, <2>1, UpdateRecordType, ZenonT(60) DEF Approve, Phase, CommandState, Label
  <2> QED
    BY <1>16, <1>t, <2>2 DEF Approve, TypeOK
<1>17. ASSUME NEW p \in Proc, StartExecution(p) PROVE TypeOK'
  <2>1. call[p].effect \in Effect
    BY <1>17, CallEffect DEF StartExecution
  <2>2. journal' \in [Effect -> JournalRecord] /\ call' \in [Proc -> Call]
    BY <1>17, <1>t, <2>1, UpdateRecordType, ZenonT(60)
      DEF StartExecution, Phase, CommandState, Label
  <2> QED
    BY <1>17, <1>t, <2>2 DEF StartExecution, TypeOK
<1>18. ASSUME NEW p \in Proc, Execute(p) PROVE TypeOK'
  <2>1. call' \in [Proc -> Call]
    BY <1>18, <1>t, GotoType DEF Execute, Label
  <2>2. call[p].effect \in Effect
    BY <1>18, CallEffect DEF Execute
  <2>3. executions' \in [Effect -> Nat]
    <3>1. executions[call[p].effect] + 1 \in Nat
      BY <1>t, <2>2 DEF TypeOK
    <3> QED
      BY <1>18, <1>t, <3>1, ZenonT(60) DEF Execute, TypeOK
  <2> QED
    BY <1>18, <1>t, <2>1, <2>3 DEF Execute, TypeOK
<1>19. ASSUME NEW p \in Proc, FinishExecution(p) PROVE TypeOK'
  <2>1. call[p].effect \in Effect
    BY <1>19, CallEffect DEF FinishExecution
  <2>2. journal' \in [Effect -> JournalRecord] /\ call' \in [Proc -> Call]
    BY <1>19, <1>t, <2>1, UpdateRecordType, ZenonT(60)
      DEF FinishExecution, Phase, CommandState, Label
  <2> QED
    BY <1>19, <1>t, <2>2 DEF FinishExecution, TypeOK
<1>20. ASSUME NEW p \in Proc, MarkUncertain(p) PROVE TypeOK'
  <2>1. call[p].effect \in Effect
    BY <1>20, CallEffect DEF MarkUncertain
  <2>2. journal[call[p].effect].state \in CommandState
    BY <1>t, <2>1, Zenon DEF TypeOK, JournalRecord
  <2>3. journal' \in [Effect -> JournalRecord] /\ call' \in [Proc -> Call]
    BY <1>20, <1>t, <2>1, <2>2, UpdateRecordType, ZenonT(60) DEF MarkUncertain, Phase, Label
  <2> QED
    BY <1>20, <1>t, <2>3 DEF MarkUncertain, TypeOK
<1>21. ASSUME NEW p \in Proc, NEW e \in Effect, ReconcileOne(p, e) PROVE TypeOK'
  <2>1. journal[e].state \in CommandState
    BY <1>t DEF TypeOK, JournalRecord
  <2>2. journal' \in [Effect -> JournalRecord]
    BY <1>21, <1>t, <2>1, MoveType DEF ReconcileOne, Phase, TypeOK
  <2>3. CASE Return(p)
    BY <1>21, <1>t, <2>2, <2>3, ReturnType DEF ReconcileOne, TypeOK
  <2>4. CASE call' = [call EXCEPT ![p].todo = @ \ {e}]
    <3>1. call' \in [Proc -> Call]
      BY <1>t, <2>4, SMTT(60) DEF TypeOK, Call
    <3> QED
      BY <1>21, <1>t, <2>2, <3>1 DEF ReconcileOne, TypeOK
  <2> QED
    BY <1>21, <2>3, <2>4 DEF ReconcileOne
<1>22. ASSUME NEW e \in Effect, NEW succeeded \in BOOLEAN,
              CompleteStabilization(e, succeeded)
       PROVE  TypeOK'
  <2>1. journal' \in [Effect -> JournalRecord]
    BY <1>22, <1>t, MoveType DEF CompleteStabilization, Phase, CommandState
  <2> QED
    BY <1>22, <1>t, <2>1 DEF CompleteStabilization, TypeOK
<1>23. ASSUME NEW e \in Effect, NEW a \in Actor, NEW x \in Expiries,
              NEW d \in {"granted", "denied", "malformed"}, Decide(e, a, d, x)
       PROVE  TypeOK'
  <2> PICK t \in 1 .. now : \/ DecideRejected(e, d, t, x)
                            \/ DecideExpired(e, d, t, x)
                            \/ DecideAccepted(e, a, d, t, x)
    BY <1>23 DEF Decide
  <2>1. audited' \in [Effect -> SUBSET {"accepted", "rejected"}]
    BY <1>t DEF TypeOK, DecideRejected, DecideExpired, DecideAccepted, Audit
  <2>2. CASE DecideRejected(e, d, t, x)
    BY <1>t, <2>1, <2>2 DEF DecideRejected, TypeOK
  <2>3. CASE DecideExpired(e, d, t, x)
    <3>1. journal' \in [Effect -> JournalRecord]
      BY <1>t, <2>3, MoveType, Zenon DEF DecideExpired, Phase, CommandState
    <3> QED
      BY <1>t, <2>1, <2>3, <3>1, Zenon DEF DecideExpired, TypeOK
  <2>4. CASE DecideAccepted(e, a, d, t, x)
    <3> DEFINE r == journal[e]
               n == IF d = "denied"
                    THEN [r EXCEPT !.approval = TRUE, !.phase = "completed",
                                   !.state = "denied"]
                    ELSE [r EXCEPT !.approval = TRUE]
               y == [decision |-> d, command |-> e, approver |-> a, created |-> t,
                     expires |-> x]
    <3>1. r \in JournalRecord /\ now \in Nat /\ t \in Nat /\ x \in Nat
      BY <1>t, ConstantsAssumption DEF TypeOK
    <3>2. n \in JournalRecord
      BY <3>1, ZenonT(60) DEF JournalRecord, Phase, CommandState
    <3>3. y \in Approval
      BY <2>4, <3>1 DEF Approval, DecideAccepted
    <3>4. journal' = [journal EXCEPT ![e] = n] /\ approvals' = [approvals EXCEPT ![e] = y]
      BY <2>4 DEF DecideAccepted
    <3> HIDE DEF n, y
    <3>5. journal' \in [Effect -> JournalRecord] /\ approvals' \in [Effect -> Approval]
      BY <1>t, <3>2, <3>3, <3>4 DEF TypeOK
    <3> QED
      BY <1>t, <2>1, <2>4, <3>5 DEF DecideAccepted, TypeOK
  <2> QED
    BY <2>2, <2>3, <2>4
<1>24. ASSUME NEW p \in Proc, Abort(p) PROVE TypeOK'
  BY <1>24, <1>t, ReturnType DEF Abort, TypeOK
<1>25. CASE Crash
  BY <1>25, <1>t, IdleCallType DEF Crash, TypeOK
<1>26. CASE Tick
  BY <1>26, <1>t DEF Tick, TypeOK
<1> QED
  BY <1>1, <1>2, <1>3, <1>4, <1>5, <1>6, <1>7, <1>8, <1>9, <1>10, <1>11, <1>12, <1>13,
     <1>14, <1>15, <1>16, <1>17, <1>18, <1>19, <1>20, <1>21, <1>22, <1>23, <1>24, <1>25,
     <1>26, SMTT(30)
     DEF Next, Begin, Step

-----------------------------------------------------------------------------
(* What a step leaves to the other calls                                   *)

\* The part of CallInv that speaks of effect e survives the step.  A decision
\* may change an approval only while no call runs the command.
Keeps(e) ==
  /\ journal[e].phase # "none" =>
       /\ journal'[e].phase # "none"
       /\ journal'[e].expires = journal[e].expires
       /\ e \in asked' => e \in asked
       /\ \/ e \in asked /\ ~journal[e].approval
          \/ /\ journal'[e].approval = journal[e].approval
             /\ Authorized(e) => Authorized(e)'
  /\ Announced(e) => Announced(e)'
  /\ journal[e].state = "executing" /\ executions[e] = 0 => journal'[e].state = "executing"
  /\ executions[e] = 1 => executions'[e] = 1

RecordInv(e) == CountInv(e) /\ GrantInv(e) /\ ClearInv(e)

\* What a call relies on survives a step of somebody else that keeps the records
\* it may be working on.
LEMMA OtherCall ==
  ASSUME Inv, NEW q \in Proc, call'[q] = call[q], \A e \in Effect : Keeps(e),
         call[q].pc = "execute" =>
           executions'[call[q].effect] = executions[call[q].effect]
  PROVE  CallInv(q)'
<1> DEFINE e == call[q].effect
<1>1. CASE call[q].pc \in Calling
  <2>1. e \in Effect
    BY <1>1, InvParts, Zenon DEF CallInv
  <2>2. Keeps(e) /\ CallInv(q)
    BY <2>1, InvParts, Zenon
  <2>3. (call[q].pc \in Running =>
           /\ journal[e].phase # "none"
           /\ call[q].expires = journal[e].expires
           /\ call[q].approval = journal[e].approval
           /\ ~call[q].approval => e \notin asked)'
    BY <2>2, Zenon DEF CallInv, Keeps
  <2>4. (call[q].pc \in PastChecks => Authorized(e))'
    BY <2>2, Zenon DEF CallInv, Keeps, Running, PastChecks
  <2>5. (call[q].pc \in PastEvent => Announced(e))'
    BY <2>2, Zenon DEF CallInv, Keeps
  <2>6. (/\ call[q].pc = "execute" => executions[e] = 0 /\ journal[e].state = "executing"
         /\ call[q].pc \in {"finish", "uncertain"} => executions[e] = 1)'
    BY <2>2, Zenon DEF CallInv, Keeps
  <2>7. (call[q].pc \in Preparing => ~call[q].approval)' /\ e' \in Effect
    BY <2>1, <2>2, Zenon DEF CallInv
  <2> QED
    BY <2>3, <2>4, <2>5, <2>6, <2>7, Zenon DEF CallInv
<1>2. CASE call[q].pc \notin Calling
  BY <1>2, Zenon DEF CallInv, Running, PastChecks, PastEvent, Calling, Label,
                Preparing
<1> QED
  BY <1>1, <1>2

\* A step of call p alone keeps Inv when it keeps what other calls rely on,
\* the records, and p's own part.
LEMMA OneCallStep ==
  ASSUME Inv, TypeOK', NEW p \in Proc,
         \A q \in Proc \ {p} : call'[q] = call[q],
         \A e \in Effect : Keeps(e) /\ RecordInv(e)',
         CallInv(p)',
         \A q \in Proc \ {p} : call[q].pc = "execute" =>
           /\ executions'[call[q].effect] = executions[call[q].effect]
           /\ call'[p].pc = "execute" => call'[p].effect # call[q].effect
  PROVE  Inv'
<1>1. \A q \in Proc : CallInv(q)'
  <2> TAKE q \in Proc
  <2>1. CASE q = p
    BY <2>1
  <2>2. CASE q # p
    BY <2>2, OtherCall
  <2> QED
    BY <2>1, <2>2
<1>2. Exclusive'
  <2> SUFFICES ASSUME NEW q \in Proc, NEW s \in Proc, q # s,
                      call'[q].pc = "execute", call'[s].pc = "execute",
                      call'[q].effect = call'[s].effect
               PROVE  FALSE
    BY DEF Exclusive
  <2>1. CASE q # p /\ s # p
    BY <2>1 DEF Inv, Exclusive
  <2>2. CASE q = p
    BY <2>2
  <2>3. CASE s = p
    BY <2>3
  <2> QED
    BY <2>1, <2>2, <2>3
<1>3. \A e \in Effect : CountInv(e)' /\ GrantInv(e)' /\ ClearInv(e)'
  BY DEF RecordInv
<1> QED
  BY <1>1, <1>2, <1>3, Zenon DEF Inv

\* A step that touches no record, approval or execution count.
Quiet ==
  /\ UNCHANGED <<journal, approvals, executions, asked, cleared>>
  /\ events \subseteq events'
  /\ \A e \in Effect : "accepted" \in audited'[e] <=> "accepted" \in audited[e]

\* A quiet step keeps every record and what calls rely on.
LEMMA QuietKeeps ==
  ASSUME Inv, Quiet
  PROVE  \A e \in Effect : Keeps(e) /\ RecordInv(e)'
<1> TAKE e \in Effect
<1>1. Keeps(e)
  BY Zenon DEF Quiet, Keeps, Authorized, Announced
<1>2. CountInv(e)'
  <2>1. CountInv(e)
    BY InvParts
  <2> QED BY <2>1 DEF Quiet, CountInv
<1>3. GrantInv(e)'
  BY InvParts DEF Quiet, GrantInv
<1>4. ClearInv(e)'
  BY InvParts, Zenon DEF Quiet, ClearInv, Authorized, Announced
<1> QED
  BY <1>1, <1>2, <1>3, <1>4 DEF RecordInv

\* A call that returns has nothing left to rely on.
LEMMA ReturnCall ==
  ASSUME TypeOK, NEW p \in Proc, Return(p)
  PROVE  /\ call'[p].pc = "idle" /\ CallInv(p)'
         /\ \A q \in Proc \ {p} : call'[q] = call[q]
<1>1. call'[p].pc = "idle" /\ \A q \in Proc \ {p} : call'[q] = call[q]
  BY DEF TypeOK, Return, IdleCall
<1> QED
  BY <1>1, Zenon DEF CallInv, Running, PastChecks, PastEvent, Calling, Preparing

\* Goto moves the program counter of one call and nothing else.
LEMMA GotoCall ==
  ASSUME TypeOK, NEW p \in Proc, NEW l, Goto(p, l)
  PROVE  /\ call'[p] = [call[p] EXCEPT !.pc = l]
         /\ call'[p].pc = l
         /\ call'[p].effect = call[p].effect
         /\ call'[p].expires = call[p].expires
         /\ call'[p].approval = call[p].approval
         /\ \A q \in Proc \ {p} : call'[q] = call[q]
<1>1. call[p] \in Call
  BY DEF TypeOK
<1>2. call'[p] = [call[p] EXCEPT !.pc = l] /\ \A q \in Proc \ {p} : call'[q] = call[q]
  BY DEF TypeOK, Goto
<1> QED
  BY <1>1, <1>2 DEF Call

\* A quiet step that ends a call.
LEMMA QuietReturn ==
  ASSUME Inv, TypeOK', Quiet, NEW p \in Proc, Return(p)
  PROVE  Inv'
<1>1. TypeOK /\ executions' = executions
  BY DEF Inv, Quiet
<1> QED
  BY <1>1, QuietKeeps, ReturnCall, OneCallStep

\* A quiet step that moves a call no further than its own checks and events.
LEMMA QuietGoto ==
  ASSUME Inv, TypeOK', Quiet, NEW p \in Proc, NEW l \in Calling, Goto(p, l),
         call[p].pc \in Calling,
         l \notin {"execute", "finish", "uncertain"},
         l \in Preparing => call[p].pc \in Preparing,
         l \in Running => call[p].pc \in Running,
         l \in PastChecks => call[p].pc \in PastChecks,
         l \in PastEvent => Announced(call[p].effect)'
  PROVE  Inv'
<1> DEFINE e == call[p].effect
<1>1. TypeOK /\ executions' = executions /\ CallInv(p) /\ e \in Effect
  BY InvParts, Zenon DEF Quiet, CallInv
<1>2. /\ call'[p].pc = l /\ call'[p].effect = e
      /\ call'[p].expires = call[p].expires /\ call'[p].approval = call[p].approval
      /\ \A q \in Proc \ {p} : call'[q] = call[q]
  BY <1>1, GotoCall, ZenonT(30)
<1>3. Announced(call[p].effect)' = (\E event \in events' :
        event.id = CommandEventID("recovery_started", e))
  BY <1>2, Zenon DEF Announced
<1>4. CallInv(p)'
  BY <1>1, <1>2, <1>3, Zenon DEF CallInv, Quiet, Authorized, Announced, Calling
<1> QED
  BY <1>1, <1>2, <1>4, QuietKeeps, OneCallStep, Zenon

-----------------------------------------------------------------------------
(* Journal moves                                                           *)

\* updateRecord and the other moves of an existing record to a later phase.
LEMMA MoveKeeps ==
  ASSUME Inv, NEW e \in Effect, NEW phase, NEW state, Move(e, phase, state),
         UNCHANGED <<approvals, executions, asked, cleared, events>>,
         \A f \in Effect : "accepted" \in audited'[f] <=> "accepted" \in audited[f],
         journal[e].phase # "none", journal[e].state # "denied",
         phase \notin {"none", "pending", "awaiting_approval"},
         CountInv(e)',
         state \in PastApprove =>
           Authorized(e) /\ Announced(e) /\ (e \in asked => journal[e].approval),
         journal[e].state = "executing" => state = "executing" \/ executions[e] # 0
  PROVE  \A f \in Effect : Keeps(f) /\ RecordInv(f)'
<1> TAKE f \in Effect
<1>0. journal \in [Effect -> JournalRecord]
  BY InvParts, Zenon DEF TypeOK
<1>1. CASE f # e
  <2>1. journal'[f] = journal[f]
    BY <1>0, <1>1 DEF Move
  <2>2. Keeps(f)
    BY <2>1, Zenon DEF Keeps, Authorized, Announced
  <2>3. CountInv(f)'
    <3>1. CountInv(f)
      BY InvParts
    <3> QED BY <2>1, <3>1, Zenon DEF CountInv
  <2>4. GrantInv(f)' /\ ClearInv(f)'
    BY <2>1, InvParts, Zenon DEF GrantInv, ClearInv, Authorized, Announced
  <2> QED
    BY <2>2, <2>3, <2>4 DEF RecordInv
<1>2. CASE f = e
  <2> DEFINE r == journal[e]
             s == journal'[e]
  <2>1. /\ s.phase = phase /\ s.state = state
        /\ s.approval = r.approval /\ s.expires = r.expires
    BY <1>0 DEF Move, JournalRecord
  <2>2. Keeps(e)
    BY <2>1, Zenon DEF Keeps, Authorized, Announced
  <2>3. GrantInv(e)'
    BY <2>1, InvParts, Zenon DEF GrantInv
  <2>4. ClearInv(e)'
    BY <2>1, Zenon DEF ClearInv, Authorized, Announced
  <2> QED
    BY <1>2, <2>2, <2>3, <2>4, Zenon DEF RecordInv
<1> QED
  BY <1>1, <1>2, Zenon

\* What a running call knows of its record.
LEMMA RunningCall ==
  ASSUME Inv, NEW p \in Proc, call[p].pc \in Running
  PROVE  /\ call[p].effect \in Effect
         /\ journal[call[p].effect].phase # "none"
         /\ RecordInv(call[p].effect)
         /\ call[p].pc \in PastChecks => Authorized(call[p].effect)
         /\ call[p].pc \in PastEvent => Announced(call[p].effect)
         /\ call[p].pc \in {"finish", "uncertain"} => executions[call[p].effect] = 1
<1>1. call[p].effect \in Effect
  BY CallEffect DEF Running
<1>2. CallInv(p)
  BY InvParts
<1>3. RecordInv(call[p].effect)
  BY <1>1, InvParts DEF RecordInv
<1> QED
  BY <1>1, <1>2, <1>3, Zenon DEF CallInv

\* What a guarded move by updateRecord in call p must respect: it may not lift a
\* denial, it may pass approve only cleared, announced and granted, and it may
\* reach "execute" only from an approved record that was never applied.
SoundUpdate(p, e, guard, phase, state, next) ==
  /\ e = call[p].effect /\ call[p].pc \in Running \ {"execute"}
  /\ UpdateRecord(p, guard, phase, state, next)
  /\ UNCHANGED <<approvals, audited, executions, asked, cleared, events>>
  /\ guard =>
       /\ journal[e].state # "denied"
       /\ phase \notin {"none", "pending", "awaiting_approval"}
       /\ state \in PastApprove =>
            Authorized(e) /\ Announced(e) /\ (e \in asked => journal[e].approval)
       /\ journal[e].state = "executing" => state = "executing" \/ executions[e] # 0
       /\ next # "idle" => call[p].pc \in PastEvent
       /\ next = "execute" => /\ executions[e] = 0
                              /\ state = "executing"
                              /\ journal[e].state = "approved"
  /\ guard /\ journal'[e].phase = phase /\ journal'[e].state = state => CountInv(e)'

\* A sound move keeps the invariant, whether the call ends or goes on to next.
LEMMA UpdateStep ==
  ASSUME Inv, TypeOK', NEW p \in Proc, NEW e \in Effect, NEW guard, NEW phase, NEW state,
         NEW next \in {"idle", "start", "execute"},
         SoundUpdate(p, e, guard, phase, state, next)
  PROVE  Inv'
<1>0. /\ e = call[p].effect /\ call[p].pc \in Running \ {"execute"}
      /\ UpdateRecord(p, guard, phase, state, next)
      /\ UNCHANGED <<approvals, audited, executions, asked, cleared, events>>
  BY Zenon DEF SoundUpdate
<1>1. /\ TypeOK /\ CallInv(p) /\ journal[e] \in JournalRecord
      /\ journal[e].phase # "none"
  BY <1>0, InvParts, RunningCall, Zenon
<1>2. CASE ~guard
  <2>1. Return(p) /\ Quiet
    BY <1>0, <1>2 DEF UpdateRecord, Quiet
  <2> QED
    BY <2>1, QuietReturn
<1>3. CASE guard
  <2>0. /\ Move(call[p].effect, phase, state)
        /\ IF next = "idle" THEN Return(p) ELSE Goto(p, next)
    BY <1>0, <1>3, Zenon DEF UpdateRecord
  <2>1. Move(e, phase, state)
    BY <1>0, <2>0
  <2>2. /\ journal'[e].phase = phase /\ journal'[e].state = state
        /\ journal'[e].approval = journal[e].approval
        /\ journal'[e].expires = journal[e].expires
    BY <1>1, <2>1, Zenon DEF Move, TypeOK, JournalRecord
  <2>3. \A f \in Effect : Keeps(f) /\ RecordInv(f)'
    <3>1. CountInv(e)'
      BY <1>3, <2>2, Zenon DEF SoundUpdate
    <3>2. /\ journal[e].state # "denied"
          /\ phase \notin {"none", "pending", "awaiting_approval"}
          /\ state \in PastApprove =>
               Authorized(e) /\ Announced(e) /\ (e \in asked => journal[e].approval)
          /\ journal[e].state = "executing" => state = "executing" \/ executions[e] # 0
      BY <1>3, Zenon DEF SoundUpdate
    <3> QED
      BY <1>0, <1>1, <2>1, <3>1, <3>2, MoveKeeps, Zenon
  <2>4. CASE Return(p)
    <3>1. CallInv(p)' /\ call'[p].pc # "execute" /\ \A q \in Proc \ {p} : call'[q] = call[q]
      BY <1>1, <2>4, ReturnCall, Zenon
    <3> QED
      BY <1>0, <2>3, <3>1, OneCallStep, Zenon
  <2>5. CASE Goto(p, next) /\ next # "idle"
    <3>1. /\ call'[p].pc = next /\ call'[p].effect = call[p].effect
          /\ call'[p].expires = call[p].expires /\ call'[p].approval = call[p].approval
          /\ \A q \in Proc \ {p} : call'[q] = call[q]
      BY <1>1, <2>5, GotoCall, ZenonT(30)
    <3>2. /\ call[p].pc \in PastEvent
          /\ next = "execute" => executions[e] = 0 /\ state = "executing"
          /\ next = "execute" => journal[e].state = "approved"
          /\ phase # "none"
      BY <1>3, <2>5, Zenon DEF SoundUpdate
    <3>3. CallInv(p)'
      <4>1. /\ Authorized(e) /\ Announced(e)
            /\ call[p].expires = journal[e].expires
            /\ call[p].approval = journal[e].approval
            /\ ~call[p].approval => e \notin asked
        <5>1. call[p].pc \in PastChecks /\ call[p].pc \in Running
          BY <3>2, Zenon DEF PastEvent, PastChecks, Running
        <5>2. CallInv(p) /\ call[p].effect = e
          BY <1>0, <1>1, Zenon
        <5> QED BY <3>2, <5>1, <5>2, Zenon DEF CallInv
      <4>2. Authorized(e)' /\ Announced(e)'
        BY <1>0, <2>2, <4>1, ZenonT(30) DEF Authorized, Announced
      <4>3. Authorized(call[p].effect)' /\ Announced(call[p].effect)'
        BY <1>0, <3>1, <4>2, ZenonT(30) DEF Authorized, Announced
      <4>4. next = "execute" => executions'[e] = 0 /\ journal'[e].state = "executing"
        BY <1>0, <2>2, <3>2
      <4>5. journal'[e].phase # "none"
        BY <2>2, <3>2, Zenon
      <4> QED
        BY <1>0, <2>2, <2>5, <3>1, <4>1, <4>3, <4>4, <4>5, Zenon
           DEF CallInv, Calling, Label, Preparing
    <3>4. \A q \in Proc \ {p} : call[q].pc = "execute" /\ next = "execute" =>
            e # call[q].effect
      BY <3>2, InvParts, Zenon DEF CallInv
    <3> QED
      BY <1>0, <2>3, <3>1, <3>3, <3>4, OneCallStep, Zenon
  <2> QED
    BY <2>0, <2>4, <2>5
<1> QED
  BY <1>2, <1>3, Zenon

\* A step of no call.
LEMMA NoCallStep ==
  ASSUME Inv, TypeOK', UNCHANGED <<call, executions>>,
         \A e \in Effect : Keeps(e) /\ RecordInv(e)'
  PROVE  Inv'
<1>1. \A q \in Proc : CallInv(q)'
  BY OtherCall
<1>2. Exclusive'
  BY DEF Inv, Exclusive
<1> QED
  BY <1>1, <1>2 DEF Inv, RecordInv

\* A quiet step of no call keeps the invariant.
LEMMA QuietNoCall ==
  ASSUME Inv, TypeOK', Quiet, UNCHANGED call
  PROVE  Inv'
<1>1. executions' = executions
  BY DEF Quiet
<1> QED
  BY <1>1, QuietKeeps, NoCallStep

-----------------------------------------------------------------------------
(* Steps of Submit and Resume                                              *)

\* A step that starts a call and changes nothing durable keeps the invariant.
LEMMA QuietBegin ==
  ASSUME Inv, TypeOK', Quiet, NEW p \in Proc, CallInv(p)', call'[p].pc # "execute",
         \A q \in Proc \ {p} : call'[q] = call[q]
  PROVE  Inv'
<1>1. executions' = executions
  BY DEF Quiet
<1> QED
  BY <1>1, QuietKeeps, OneCallStep

\* lifecycle Publish only adds to the stored events; the call goes on when the
\* event is durable and returns otherwise.
LEMMA PublishStep ==
  ASSUME Inv, TypeOK', NEW p \in Proc, NEW event, NEW next \in Calling \cup {"idle"},
         Publish(p, event, next),
         UNCHANGED <<journal, approvals, audited, executions, asked, cleared>>,
         call[p].pc \in Calling,
         next \notin {"execute", "finish", "uncertain"},
         next \in Preparing => call[p].pc \in Preparing,
         next \in Running => call[p].pc \in Running,
         next \in PastChecks => call[p].pc \in PastChecks,
         next \in PastEvent => event.id = CommandEventID("recovery_started", call[p].effect)
  PROVE  Inv'
<1>1. Quiet
  BY DEF Quiet, Publish
<1>2. CASE Return(p)
  BY <1>1, <1>2, QuietReturn
<1>3. CASE Goto(p, next) /\ next # "idle" /\ events' = events \cup {event}
  <2>1. call'[p].effect = call[p].effect
    BY <1>3, GotoCall, ZenonT(30) DEF Inv
  <2>2. next \in PastEvent => Announced(call[p].effect)'
    BY <1>3, <2>1 DEF Announced
  <2> QED
    BY <1>1, <1>3, <2>2, QuietGoto
<1> QED
  BY <1>2, <1>3 DEF Publish

\* Submit starts with its own evaluation and changes nothing durable.
LEMMA SubmitBeginStep ==
  ASSUME Inv, TypeOK', NEW p \in Proc, NEW e \in Effect, NEW k \in IdemKey,
         NEW n \in FactName, NEW x \in Expiries, SubmitBegin(p, e, k, n, x)
  PROVE  Inv'
<1>1. Quiet
  BY DEF SubmitBegin, Quiet, decisions, history
<1>2. /\ call'[p].pc \in Preparing /\ call'[p].effect = e /\ ~call'[p].approval
      /\ \A q \in Proc \ {p} : call'[q] = call[q]
  BY DEF SubmitBegin, Inv, TypeOK, IdleCall, Preparing
<1>3. CallInv(p)'
  BY <1>2 DEF CallInv, Running, PastChecks, PastEvent, Preparing
<1> QED
  BY <1>1, <1>2, <1>3, QuietBegin DEF Preparing

\* Resume starts from the stored record and changes nothing durable.
LEMMA ResumeBeginStep ==
  ASSUME Inv, TypeOK', NEW p \in Proc, NEW e \in Effect, ResumeBegin(p, e)
  PROVE  Inv'
<1>1. Quiet
  BY DEF ResumeBegin, Quiet, decisions, history
<1>2. /\ call'[p].pc = "check1" /\ call'[p].effect = e /\ call'[p].approval = TRUE
      /\ call'[p].expires = journal[e].expires
      /\ \A q \in Proc \ {p} : call'[q] = call[q]
  BY DEF ResumeBegin, Inv, TypeOK, IdleCall
<1>3. journal'[e] = journal[e] /\ journal[e].approval = TRUE /\ journal[e].phase # "none"
  BY DEF ResumeBegin, Inv, TypeOK, JournalRecord
<1>4. CallInv(p)'
  BY <1>2, <1>3, ZenonT(30) DEF CallInv, Running, PastChecks, PastEvent, Preparing
<1> QED
  BY <1>1, <1>2, <1>4, QuietBegin

\* persistPending of a known effect changes nothing durable.
LEMMA PersistDuplicateStep ==
  ASSUME Inv, TypeOK', NEW p \in Proc, PersistDuplicate(p)
  PROVE  Inv'
<1>1. Quiet
  BY DEF PersistDuplicate, Quiet, decisions, history
<1>2. CASE Return(p)
  BY <1>1, <1>2, QuietReturn
<1>3. CASE call' = [call EXCEPT ![p] =
             [@ EXCEPT !.pc = "ask", !.issued = journal[call[p].effect].issued]]
  <2>1. call[p].effect \in Effect
    BY CallEffect DEF PersistDuplicate, Persisting
  <2>2. /\ call'[p].pc = "ask" /\ call'[p].effect = call[p].effect
        /\ \A q \in Proc \ {p} : call'[q] = call[q]
    BY <1>3 DEF Inv, TypeOK, Call
  <2>3. CallInv(p)'
    BY <2>1, <2>2 DEF CallInv, Running, PastChecks, PastEvent, Preparing
  <2> QED
    BY <1>1, <2>2, <2>3, QuietBegin
<1> QED
  BY <1>2, <1>3 DEF PersistDuplicate

\* persistPending of a new effect writes a record that was never applied and
\* is not yet cleared.
LEMMA PersistNewStep ==
  ASSUME Inv, TypeOK', NEW p \in Proc, PersistNew(p)
  PROVE  Inv'
<1>0. PICK e \in Effect : e = call[p].effect
  BY CallEffect DEF PersistNew, Persisting
<1> DEFINE c == call[p]
           waits == c.decision.verdict = "await_approval"
           phase == IF waits THEN "awaiting_approval" ELSE "pending"
           next == IF waits THEN "ask" ELSE "check1"
<1>1. /\ CallInv(p) /\ TypeOK /\ c.pc = "prepare"
      /\ journal[e].phase = "none" /\ RecordInv(e)
  BY <1>0 DEF PersistNew, Persisting, Inv, RecordInv
<1>2. /\ \A q \in Proc \ {p} : call'[q] = call[q]
      /\ call'[p].pc = next /\ call'[p].effect = e
      /\ call'[p].expires = c.expires /\ call'[p].approval = c.approval
  BY <1>0, <1>1, GotoCall, ZenonT(30) DEF PersistNew
<1>3. UNCHANGED <<approvals, audited, executions, cleared, events>>
  BY DEF PersistNew, decisions
<1>4. /\ journal'[e].phase = phase /\ journal'[e].state = "pending"
      /\ journal'[e].approval = FALSE /\ journal'[e].expires = c.expires
      /\ \A f \in Effect \ {e} : journal'[f] = journal[f]
  BY <1>0, <1>1 DEF PersistNew, NewRecord, TypeOK
<1>5. asked' = IF waits THEN asked \cup {e} ELSE asked
  BY <1>0 DEF PersistNew
<1>6. ~c.approval /\ e \notin asked /\ ~journal[e].approval /\ executions[e] = 0
  BY <1>0, <1>1, Zenon DEF CallInv, Preparing, RecordInv, GrantInv, CountInv, StatusOf
<1>7. \A f \in Effect : Keeps(f) /\ RecordInv(f)'
  <2> TAKE f \in Effect
  <2>1. CASE f # e
    <3>1. journal'[f] = journal[f] /\ (f \in asked' <=> f \in asked)
      BY <1>4, <1>5, <2>1
    <3>2. Keeps(f)
      <4>1. Authorized(f) => Authorized(f)'
        BY <1>3, <3>1, Zenon DEF Authorized
      <4>2. Announced(f) => Announced(f)'
        BY <1>3, Zenon DEF Announced
      <4> QED
        BY <1>3, <3>1, <4>1, <4>2, Zenon DEF Keeps
    <3>3. CountInv(f)'
      <4>1. CountInv(f)
        BY InvParts
      <4> QED BY <1>3, <3>1, <4>1 DEF CountInv
    <3>4. GrantInv(f)' /\ ClearInv(f)'
      BY <1>3, <3>1, InvParts DEF GrantInv, ClearInv, Authorized, Announced
    <3> QED
      BY <3>2, <3>3, <3>4 DEF RecordInv
  <2>2. CASE f = e
    <3>1. Keeps(e)
      BY <1>1, <1>3, <1>6 DEF Keeps, Announced, RecordInv, CountInv, ValidRecordPhase
    <3>2. CountInv(e)'
      BY <1>3, <1>4, <1>6 DEF CountInv, ValidRecordPhase, StatusOf
    <3>3. GrantInv(e)'
      BY <1>1, <1>3, <1>4, <1>5, <1>6 DEF RecordInv, GrantInv, PastApprove
    <3>4. ClearInv(e)'
      BY <1>4, Zenon DEF ClearInv, PastApprove
    <3> QED
      BY <2>2, <3>1, <3>2, <3>3, <3>4 DEF RecordInv
  <2> QED
    BY <2>1, <2>2
<1>8. CallInv(p)'
  <2>1. c.approval = FALSE
    BY <1>1, <1>6 DEF TypeOK, Call
  <2> QED
    BY <1>1, <1>2, <1>4, <1>5, <1>6, <2>1, ZenonT(30)
       DEF CallInv, Running, PastChecks, PastEvent, Preparing
<1> QED
  BY <1>1, <1>2, <1>3, <1>7, <1>8, OneCallStep

-----------------------------------------------------------------------------
(* Steps of execute                                                        *)

\* The second check clears the command; nobody else's clearance is lost,
\* because the new one holds for the same record.
LEMMA ClearStep ==
  ASSUME Inv, TypeOK', NEW p \in Proc, Revalidate(p), RevalidateAllows(p),
         call[p].pc = "check2"
  PROVE  Inv'
<1>0. PICK e \in Effect : e = call[p].effect
  BY CallEffect
<1> DEFINE c == call[p]
<1>1. /\ CallInv(p) /\ TypeOK
      /\ c.expires = journal[e].expires /\ c.approval = journal[e].approval
      /\ journal[e].phase # "none"
      /\ ~c.approval => e \notin asked
  BY <1>0, InvParts, Zenon DEF CallInv, Running
<1>2. UNCHANGED <<journal, approvals, audited, executions, asked, events>>
  BY DEF Revalidate, decisions
<1>3. Goto(p, "started") /\ cleared' = [cleared EXCEPT ![e] = now]
  BY <1>0 DEF RevalidateAllows, Clear
<1>4. /\ \A q \in Proc \ {p} : call'[q] = call[q]
      /\ call'[p].pc = "started" /\ call'[p].effect = e
      /\ call'[p].expires = c.expires /\ call'[p].approval = c.approval
  BY <1>0, <1>1, <1>3, GotoCall, ZenonT(30)
<1>5. Authorized(e)'
  <2>1. cleared'[e] = now
    BY <1>1, <1>3 DEF TypeOK
  <2>2. now < c.expires
        /\ \E n \in Loadable[e] : Revalidates(n, e, c.approval, approvals[e], now)
    BY <1>0 DEF RevalidateAllows
  <2> QED
    BY <1>1, <1>2, <2>1, <2>2 DEF Authorized
<1>6. \A f \in Effect : Keeps(f) /\ RecordInv(f)'
  <2> TAKE f \in Effect
  <2>1. Authorized(f) => Authorized(f)'
    <3>1. CASE f # e
      BY <1>1, <1>2, <1>3, <3>1 DEF Authorized, TypeOK
    <3> QED
      BY <1>5, <3>1
  <2>2. Keeps(f)
    BY <1>2, <2>1 DEF Keeps, Announced
  <2>3. CountInv(f)'
    <3>1. CountInv(f)
      BY InvParts
    <3> QED BY <1>2, <3>1 DEF CountInv
  <2>4. GrantInv(f)'
    BY <1>2, InvParts, Zenon DEF GrantInv
  <2>5. ClearInv(f)'
    BY <1>2, <2>1, InvParts, Zenon DEF ClearInv, Announced
  <2> QED
    BY <2>2, <2>3, <2>4, <2>5 DEF RecordInv
<1>7. CallInv(p)'
  <2>1. Authorized(call[p].effect)'
    BY <1>4, <1>5, Zenon DEF Authorized
  <2>2. journal'[e] = journal[e] /\ asked' = asked
    BY <1>2, Zenon
  <2> QED
    BY <1>1, <1>4, <2>1, <2>2, Zenon DEF CallInv, Running, PastChecks, PastEvent, Preparing
<1> QED
  BY <1>1, <1>2, <1>4, <1>6, <1>7, OneCallStep

\* revalidate lets the call go on only with facts, expiry and approval that
\* authorize its record.
LEMMA RevalidateStep ==
  ASSUME Inv, TypeOK', NEW p \in Proc, Revalidate(p)
  PROVE  Inv'
<1>1. CASE RevalidateAllows(p) /\ call[p].pc = "check2"
  BY <1>1, ClearStep
<1>2. CASE UNCHANGED cleared /\ \E l \in {"validate", "deny", "expire"} : Goto(p, l)
  <2>1. PICK l \in {"validate", "deny", "expire"} : Goto(p, l)
    BY <1>2
  <2>2. Quiet
    BY <1>2 DEF Revalidate, Quiet, decisions
  <2>3. call[p].pc \in Calling /\ call[p].pc \in Running
    BY DEF Revalidate, Calling, Label, Running
  <2> QED
    BY <2>1, <2>2, <2>3, QuietGoto DEF Calling, Label, PastChecks, PastEvent, Preparing
<1> QED
  BY <1>1, <1>2, Zenon DEF Revalidate, RevalidateAllows, RevalidateRejects, Clear

\* denyAfterRevalidation denies an undecided record, which was never applied.
LEMMA DenyStep ==
  ASSUME Inv, TypeOK', NEW p \in Proc, DenyAfterRevalidation(p)
  PROVE  Inv'
<1>0. PICK e \in Effect : e = call[p].effect
  BY CallEffect DEF DenyAfterRevalidation
<1>1. UNCHANGED <<approvals, audited, executions, asked, cleared, events>>
  BY DEF DenyAfterRevalidation, decisions, history
<1>2. RecordInv(e) /\ call[p].pc \in Running \ {"execute"}
  BY <1>0, RunningCall DEF DenyAfterRevalidation, Running
<1>3. ASSUME Undecided(journal[e]), journal'[e].phase = "completed",
             journal'[e].state = "denied"
      PROVE  CountInv(e)'
  BY <1>1, <1>2, <1>3, Zenon DEF Undecided, RecordInv, CountInv, ValidRecordPhase, StatusOf
<1>4. UpdateRecord(p, Undecided(journal[e]), "completed", "denied", "idle")
  BY <1>0 DEF DenyAfterRevalidation
<1>5. Undecided(journal[e]) => journal[e].state = "pending"
  BY DEF Undecided
<1>6. SoundUpdate(p, e, Undecided(journal[e]), "completed", "denied", "idle")
  BY <1>0, <1>1, <1>2, <1>3, <1>4, <1>5, Zenon DEF SoundUpdate, PastApprove
<1> QED
  BY <1>6, UpdateStep

\* expire gives up an undecided record, which was never applied.
LEMMA ExpireStep ==
  ASSUME Inv, TypeOK', NEW p \in Proc, Expire(p)
  PROVE  Inv'
<1>0. PICK e \in Effect : e = call[p].effect
  BY CallEffect DEF Expire
<1>1. UNCHANGED <<approvals, audited, executions, asked, cleared, events>>
  BY DEF Expire, decisions, history
<1>2. RecordInv(e) /\ call[p].pc \in Running \ {"execute"}
  BY <1>0, RunningCall DEF Expire, Running
<1>3. ASSUME Undecided(journal[e]), journal'[e].phase = "completed",
             journal'[e].state = "expired"
      PROVE  CountInv(e)'
  BY <1>1, <1>2, <1>3, Zenon DEF Undecided, RecordInv, CountInv, ValidRecordPhase, StatusOf
<1>4. UpdateRecord(p, Undecided(journal[e]), "completed", "expired", "idle")
  BY <1>0 DEF Expire
<1>5. Undecided(journal[e]) => journal[e].state = "pending"
  BY DEF Undecided
<1>6. SoundUpdate(p, e, Undecided(journal[e]), "completed", "expired", "idle")
  BY <1>0, <1>1, <1>2, <1>3, <1>4, <1>5, Zenon DEF SoundUpdate, PastApprove
<1> QED
  BY <1>6, UpdateStep

\* A waiting command leaves its wait only with an approval.
LEMMA ApproveStep ==
  ASSUME Inv, TypeOK', NEW p \in Proc, Approve(p)
  PROVE  Inv'
<1>0. PICK e \in Effect : e = call[p].effect
  BY CallEffect DEF Approve
<1>1. UNCHANGED <<approvals, audited, executions, asked, cleared, events>>
  BY DEF Approve, decisions, history
<1>2. /\ RecordInv(e) /\ call[p].pc \in Running \ {"execute"} /\ call[p].pc \in PastEvent
      /\ Authorized(e) /\ Announced(e)
  BY <1>0, RunningCall DEF Approve, Running, PastEvent, PastChecks
<1>3. ASSUME Approvable(journal[e]), journal'[e].phase = "approved",
             journal'[e].state = "approved"
      PROVE  CountInv(e)'
  BY <1>1, <1>2, <1>3, Zenon
     DEF Approvable, Undecided, RecordInv, CountInv, ValidRecordPhase, StatusOf
<1>4. UpdateRecord(p, Approvable(journal[e]), "approved", "approved", "start")
  BY <1>0 DEF Approve
<1>5. Approvable(journal[e]) =>
        /\ journal[e].state = "pending"
        /\ e \in asked => journal[e].approval
  BY <1>2 DEF Approvable, Undecided, RecordInv, GrantInv
<1>6. SoundUpdate(p, e, Approvable(journal[e]), "approved", "approved", "start")
  BY <1>0, <1>1, <1>2, <1>3, <1>4, <1>5, Zenon DEF SoundUpdate
<1> QED
  BY <1>6, UpdateStep

\* The one gate to the adapter: it opens on an approved record and closes it.
LEMMA StartExecutionStep ==
  ASSUME Inv, TypeOK', NEW p \in Proc, StartExecution(p)
  PROVE  Inv'
<1>0. PICK e \in Effect : e = call[p].effect
  BY CallEffect DEF StartExecution
<1> DEFINE guard == journal[e].phase = "approved"
<1>1. UNCHANGED <<approvals, audited, executions, asked, cleared, events>>
  BY DEF StartExecution, decisions, history
<1>2. /\ RecordInv(e) /\ call[p].pc \in Running \ {"execute"} /\ call[p].pc \in PastEvent
      /\ Authorized(e) /\ Announced(e)
  BY <1>0, RunningCall DEF StartExecution, Running, PastEvent, PastChecks
<1>3. guard => /\ journal[e].state = "approved" /\ executions[e] = 0
               /\ e \in asked => journal[e].approval
  BY <1>2 DEF RecordInv, CountInv, ValidRecordPhase, StatusOf, GrantInv, PastApprove
<1>4. ASSUME guard, journal'[e].phase = "executing", journal'[e].state = "executing"
      PROVE  CountInv(e)'
  BY <1>1, <1>3, <1>4 DEF CountInv, ValidRecordPhase, StatusOf
<1>5. UpdateRecord(p, guard, "executing", "executing", "execute")
  BY <1>0 DEF StartExecution
<1> HIDE DEF guard
<1>6. SoundUpdate(p, e, guard, "executing", "executing", "execute")
  BY <1>0, <1>1, <1>2, <1>3, <1>4, <1>5, Zenon DEF SoundUpdate
<1> QED
  BY <1>6, UpdateStep

\* finishExecution records the result of the one execution the call has made.
LEMMA FinishExecutionStep ==
  ASSUME Inv, TypeOK', NEW p \in Proc, FinishExecution(p)
  PROVE  Inv'
<1>0. PICK e \in Effect : e = call[p].effect
  BY CallEffect DEF FinishExecution
<1> DEFINE guard == journal[e].phase = "executing"
<1>1. UNCHANGED <<approvals, audited, executions, asked, cleared, events>>
  BY DEF FinishExecution, decisions, history
<1>2. /\ RecordInv(e) /\ call[p].pc \in Running \ {"execute"} /\ executions[e] = 1
      /\ Authorized(e) /\ Announced(e)
  BY <1>0, RunningCall DEF FinishExecution, Running, PastEvent, PastChecks
<1>3. guard => journal[e].state = "executing" /\ (e \in asked => journal[e].approval)
  BY <1>2 DEF RecordInv, CountInv, ValidRecordPhase, GrantInv, PastApprove
<1>4. ASSUME guard, journal'[e].phase = "stabilizing", journal'[e].state = "stabilizing"
      PROVE  CountInv(e)'
  BY <1>1, <1>2, <1>4 DEF CountInv, ValidRecordPhase, StatusOf
<1>5. UpdateRecord(p, guard, "stabilizing", "stabilizing", "idle")
  BY <1>0 DEF FinishExecution
<1> HIDE DEF guard
<1>6. SoundUpdate(p, e, guard, "stabilizing", "stabilizing", "idle")
  <2>1. executions[e] # 0
    BY <1>2
  <2> QED
    BY <1>0, <1>1, <1>2, <1>3, <1>4, <1>5, <2>1, Zenon DEF SoundUpdate
<1> QED
  BY <1>6, UpdateStep

\* markVerifyAndNotify after an adapter error keeps the state and leaves the
\* outcome open, so it never claims what did or did not happen.
LEMMA MarkUncertainStep ==
  ASSUME Inv, TypeOK', NEW p \in Proc, MarkUncertain(p)
  PROVE  Inv'
<1>0. PICK e \in Effect : e = call[p].effect
  BY CallEffect DEF MarkUncertain
<1> DEFINE guard == IsReconcilablePhase(journal[e].phase)
           state == journal[e].state
<1>1. UNCHANGED <<approvals, audited, executions, asked, cleared, events>>
  BY DEF MarkUncertain, decisions, history
<1>2. /\ RecordInv(e) /\ call[p].pc \in Running \ {"execute"} /\ executions[e] = 1
      /\ Authorized(e) /\ Announced(e)
  BY <1>0, RunningCall, Zenon DEF MarkUncertain, Running, PastEvent, PastChecks
<1>3. guard => state = "executing" /\ (e \in asked => journal[e].approval)
  <2>1. guard => state = "executing"
    <3>1. CountInv(e)
      BY <1>2 DEF RecordInv
    <3> QED
      BY <1>2, <3>1 DEF CountInv, ValidRecordPhase, StatusOf, IsReconcilablePhase
  <2>2. GrantInv(e)
    BY <1>2 DEF RecordInv
  <2> QED
    BY <2>1, <2>2, Zenon DEF GrantInv, PastApprove
<1>4. ASSUME guard, journal'[e].phase = "verify_and_notify", journal'[e].state = state
      PROVE  CountInv(e)'
  BY <1>1, <1>2, <1>3, <1>4, Zenon DEF CountInv, ValidRecordPhase, StatusOf
<1>5. UpdateRecord(p, guard, "verify_and_notify", state, "idle")
  BY <1>0, Zenon DEF MarkUncertain
<1> HIDE DEF guard, state
<1>6. SoundUpdate(p, e, guard, "verify_and_notify", state, "idle")
  BY <1>0, <1>1, <1>2, <1>3, <1>4, <1>5, Zenon DEF SoundUpdate, state
<1> QED
  BY <1>6, UpdateStep

\* Adapter.Execute counts once: no other call is at the same gate.
LEMMA ExecuteStep ==
  ASSUME Inv, TypeOK', NEW p \in Proc, Execute(p)
  PROVE  Inv'
<1>0. PICK e \in Effect : e = call[p].effect
  BY CallEffect DEF Execute
<1>1. UNCHANGED <<journal, approvals, audited, asked, cleared, events>>
  BY Zenon DEF Execute, decisions, history
<1>2. /\ TypeOK /\ RecordInv(e) /\ CallInv(p) /\ Authorized(e) /\ Announced(e)
      /\ executions[e] = 0 /\ journal[e].state = "executing"
  BY <1>0, InvParts, RunningCall, Zenon
     DEF Execute, CallInv, Running, PastEvent, PastChecks
<1>3. executions'[e] = 1 /\ \A f \in Effect \ {e} : executions'[f] = executions[f]
  BY <1>0, <1>2 DEF Execute, TypeOK
<1>4. PICK l \in {"finish", "uncertain"} : Goto(p, l)
  BY DEF Execute
<1>5. /\ call'[p].pc = l /\ call'[p].effect = e
      /\ call'[p].expires = call[p].expires /\ call'[p].approval = call[p].approval
      /\ \A q \in Proc \ {p} : call'[q] = call[q]
  BY <1>0, <1>2, <1>4, GotoCall, ZenonT(30)
<1>6. \A f \in Effect : Keeps(f) /\ RecordInv(f)'
  <2> TAKE f \in Effect
  <2>1. Keeps(f)
    BY <1>1, <1>2, <1>3, Zenon DEF Keeps, Authorized, Announced
  <2>2. CountInv(f)'
    <3>1. CASE f = e
      BY <1>1, <1>2, <1>3, <3>1, Zenon DEF RecordInv, CountInv, ValidRecordPhase, StatusOf
    <3>2. CASE f # e
      BY <1>1, <1>3, <3>2, InvParts, Zenon DEF CountInv, ValidRecordPhase, StatusOf
    <3> QED
      BY <3>1, <3>2
  <2>3. GrantInv(f)' /\ ClearInv(f)'
    BY <1>1, InvParts, Zenon DEF GrantInv, ClearInv, Authorized, Announced
  <2> QED
    BY <2>1, <2>2, <2>3 DEF RecordInv
<1>7. CallInv(p)'
  <2>1. Authorized(e)' /\ Announced(e)'
    BY <1>1, <1>2 DEF Authorized, Announced
  <2>2. Authorized(call[p].effect)' /\ Announced(call[p].effect)'
    BY <1>5, <2>1, Zenon DEF Authorized, Announced
  <2>3. /\ journal[e].phase # "none" /\ call[p].expires = journal[e].expires
        /\ call[p].approval = journal[e].approval
        /\ ~call[p].approval => e \notin asked
    BY <1>0, <1>2, Zenon DEF CallInv, Execute, Running
  <2> QED
    BY <1>1, <1>3, <1>5, <2>2, <2>3 DEF CallInv, Preparing, Calling, Label
<1>8. \A q \in Proc \ {p} : call[q].pc = "execute" =>
        executions'[call[q].effect] = executions[call[q].effect]
  <2> SUFFICES ASSUME NEW q \in Proc \ {p}, call[q].pc = "execute"
               PROVE  executions'[call[q].effect] = executions[call[q].effect]
    OBVIOUS
  <2>1. call[q].effect \in Effect
    BY CallEffect
  <2>2. call[q].effect # e
    BY <1>0 DEF Execute, Inv, Exclusive
  <2> QED
    BY <1>3, <2>1, <2>2
<1> QED
  BY <1>2, <1>5, <1>6, <1>7, <1>8, OneCallStep, Zenon

-----------------------------------------------------------------------------
(* Steps of Reconcile, the verifier and the approvals                      *)

\* Reconcile takes a record out of reach of every call that still prepares to
\* run it, and leaves its state as it was.
LEMMA ReconcileOneStep ==
  ASSUME Inv, TypeOK', NEW p \in Proc, NEW e \in Effect, ReconcileOne(p, e)
  PROVE  Inv'
<1>1. UNCHANGED <<approvals, audited, executions, asked, cleared, events>>
  BY DEF ReconcileOne, decisions, history
<1>2. TypeOK /\ RecordInv(e)
  BY InvParts DEF RecordInv
<1>3. CallInv(p)' /\ call'[p].pc # "execute" /\ \A q \in Proc \ {p} : call'[q] = call[q]
  <2>1. CASE Return(p)
    BY <1>2, <2>1, ReturnCall
  <2>2. CASE call' = [call EXCEPT ![p].todo = @ \ {e}]
    <3>1. call'[p].pc = "reconcile" /\ \A q \in Proc \ {p} : call'[q] = call[q]
      BY <1>2, <2>2 DEF ReconcileOne, TypeOK, Call
    <3> QED
      BY <3>1 DEF CallInv, Preparing, Running, PastChecks, PastEvent, Calling
  <2> QED
    BY <2>1, <2>2 DEF ReconcileOne
<1>4. \A f \in Effect : Keeps(f) /\ RecordInv(f)'
  <2>1. CASE UNCHANGED journal
    BY <1>1, <2>1, QuietKeeps DEF Quiet
  <2>2. CASE /\ IsReconcilablePhase(journal[e].phase)
             /\ Move(e, "verify_and_notify", journal[e].state)
    <3> DEFINE state == journal[e].state
    <3>1. /\ journal'[e].phase = "verify_and_notify" /\ journal'[e].state = state
      BY <1>2, <2>2 DEF Move, TypeOK, JournalRecord
    <3>2. /\ journal[e].phase # "none" /\ state \in {"pending", "approved", "executing"}
          /\ state \in PastApprove =>
               Authorized(e) /\ Announced(e) /\ (e \in asked => journal[e].approval)
      BY <1>2, <2>2, Zenon DEF IsReconcilablePhase, RecordInv, CountInv, ValidRecordPhase,
                        ClearInv, GrantInv
    <3>3. CountInv(e)'
      BY <1>1, <1>2, <2>2, <3>1, <3>2, Zenon
         DEF RecordInv, CountInv, ValidRecordPhase, StatusOf, IsReconcilablePhase
    <3> QED
      BY <1>1, <2>2, <3>2, <3>3, MoveKeeps, Zenon
  <2> QED
    BY <2>1, <2>2 DEF ReconcileOne
<1> QED
  BY <1>1, <1>3, <1>4, OneCallStep

\* completeStabilization ends only commands whose effect was applied.
LEMMA CompleteStabilizationStep ==
  ASSUME Inv, TypeOK', NEW e \in Effect, NEW succeeded \in BOOLEAN,
         CompleteStabilization(e, succeeded)
  PROVE  Inv'
<1> DEFINE state == IF succeeded THEN "succeeded" ELSE "failed"
<1>1. UNCHANGED <<approvals, audited, executions, asked, cleared, events, call>>
  BY DEF CompleteStabilization, decisions, history
<1>2. TypeOK /\ RecordInv(e) /\ Move(e, "completed", state)
  BY InvParts DEF RecordInv, CompleteStabilization
<1>3. journal'[e].phase = "completed" /\ journal'[e].state = state
  BY <1>2 DEF Move, TypeOK, JournalRecord
<1>4. /\ journal[e].state = "stabilizing" /\ executions[e] = 1
      /\ Authorized(e) /\ Announced(e) /\ (e \in asked => journal[e].approval)
  BY <1>2, Zenon DEF CompleteStabilization, RecordInv, CountInv, ValidRecordPhase, StatusOf,
              ClearInv, GrantInv, PastApprove
<1>5. CountInv(e)'
  BY <1>1, <1>3, <1>4 DEF CountInv, ValidRecordPhase, StatusOf
<1>6. journal[e].phase # "none" /\ state \in {"succeeded", "failed"}
  BY DEF CompleteStabilization
<1> HIDE DEF state
<1>7. \A f \in Effect : Keeps(f) /\ RecordInv(f)'
  BY <1>1, <1>2, <1>4, <1>5, <1>6, MoveKeeps, Zenon
<1> QED
  BY <1>1, <1>7, NoCallStep

\* Decide writes the decision, the command and the audit event in one
\* transaction, in each of its three outcomes.
LEMMA DecideStep ==
  ASSUME Inv, TypeOK', NEW e \in Effect, NEW a \in Actor, NEW x \in Expiries,
         NEW d \in {"granted", "denied", "malformed"}, Decide(e, a, d, x)
  PROVE  Inv'
<1>1. TypeOK /\ RecordInv(e)
  BY InvParts DEF RecordInv
<1>2. PICK t \in 1 .. now : \/ DecideRejected(e, d, t, x)
                            \/ DecideExpired(e, d, t, x)
                            \/ DecideAccepted(e, a, d, t, x)
  BY DEF Decide
<1>3. CASE DecideRejected(e, d, t, x)
  <2>1. \A f \in Effect : "accepted" \in audited'[f] <=> "accepted" \in audited[f]
    BY <1>1, <1>3 DEF DecideRejected, Audit, TypeOK
  <2>2. Quiet /\ UNCHANGED call
    BY <1>3, <2>1 DEF DecideRejected, Quiet, history
  <2> QED
    BY <2>2, QuietNoCall
<1>4. CASE DecideExpired(e, d, t, x)
  <2>1. UNCHANGED <<approvals, executions, asked, cleared, events, call>>
    BY <1>4 DEF DecideExpired, history
  <2>2. \A f \in Effect : "accepted" \in audited'[f] <=> "accepted" \in audited[f]
    BY <1>1, <1>4 DEF DecideExpired, Audit, TypeOK
  <2>3. Move(e, "completed", "expired") /\ journal[e].state = "pending"
        /\ journal[e].phase = "awaiting_approval"
    BY <1>4 DEF DecideExpired, Decidable
  <2>4. journal'[e].phase = "completed" /\ journal'[e].state = "expired"
    <3>1. journal[e] \in JournalRecord
      BY <1>1, Zenon DEF TypeOK
    <3>2. journal'[e] = [journal[e] EXCEPT !.phase = "completed", !.state = "expired"]
      BY <1>1, <2>3, Zenon DEF Move, TypeOK
    <3> QED
      BY <3>1, <3>2, Zenon DEF JournalRecord
  <2>5. CountInv(e)'
    <3>1. executions'[e] = 0
      BY <1>1, <2>1, <2>3 DEF RecordInv, CountInv, StatusOf
    <3>2. ValidRecordPhase(journal'[e]) /\ StatusOf(journal'[e]) = "closed"
      BY <2>4 DEF ValidRecordPhase, StatusOf
    <3> QED BY <3>1, <3>2 DEF CountInv
  <2>6. \A f \in Effect : Keeps(f) /\ RecordInv(f)'
    BY <2>1, <2>2, <2>3, <2>5, MoveKeeps DEF PastApprove
  <2> QED
    BY <2>1, <2>6, NoCallStep
<1>5. CASE DecideAccepted(e, a, d, t, x)
  <2>1. UNCHANGED <<executions, asked, cleared, events, call>>
    BY <1>5 DEF DecideAccepted, history
  <2>2. /\ journal[e].phase = "awaiting_approval" /\ journal[e].state = "pending"
        /\ ~journal[e].approval /\ d \in {"granted", "denied"} /\ e \in asked
    BY <1>1, <1>5 DEF DecideAccepted, Decidable, RecordInv, GrantInv
  <2>3. /\ journal'[e].approval = TRUE /\ journal'[e].expires = journal[e].expires
        /\ d = "denied" => journal'[e].phase = "completed" /\ journal'[e].state = "denied"
        /\ d = "granted" => /\ journal'[e].phase = "awaiting_approval"
                            /\ journal'[e].state = "pending"
    BY <1>1, <1>5, <2>2 DEF DecideAccepted, TypeOK, JournalRecord
  <2>4. approvals'[e].decision = d /\ approvals'[e] # NoApproval
    BY <1>1, <1>5, <2>2 DEF DecideAccepted, TypeOK, NoApproval
  <2>5. "accepted" \in audited'[e]
    BY <1>1, <1>5 DEF DecideAccepted, Audit, TypeOK
  <2>6. \A f \in Effect \ {e} : /\ journal'[f] = journal[f]
                                /\ approvals'[f] = approvals[f]
                                /\ audited'[f] = audited[f]
    BY <1>1, <1>5 DEF DecideAccepted, Audit, TypeOK
  <2>7. \A f \in Effect : Keeps(f) /\ RecordInv(f)'
    <3> TAKE f \in Effect
    <3>1. CASE f # e
      <4>1. /\ journal'[f] = journal[f] /\ approvals'[f] = approvals[f]
            /\ audited'[f] = audited[f]
        BY <2>6, <3>1
      <4>2. Keeps(f)
        <5>1. Authorized(f) => Authorized(f)'
          BY <2>1, <4>1, Zenon DEF Authorized
        <5>2. Announced(f) => Announced(f)'
          BY <2>1, Zenon DEF Announced
        <5> QED
          BY <2>1, <4>1, <5>1, <5>2, Zenon DEF Keeps
      <4>3. CountInv(f)'
        <5>1. CountInv(f)
          BY InvParts
        <5> QED BY <2>1, <4>1, <5>1 DEF CountInv
      <4>4. GrantInv(f)' /\ ClearInv(f)'
        BY <2>1, <4>1, InvParts, Zenon DEF GrantInv, ClearInv, Authorized, Announced
      <4> QED
        BY <4>2, <4>3, <4>4 DEF RecordInv
    <3>2. CASE f = e
      <4>1. Keeps(e)
        BY <2>1, <2>2, <2>3, Zenon DEF Keeps, Announced
      <4>2. CountInv(e)'
        <5>1. executions[e] = 0
          BY <1>1, <2>2 DEF RecordInv, CountInv, StatusOf
        <5> QED
          BY <2>1, <2>2, <2>3, <5>1 DEF CountInv, ValidRecordPhase, StatusOf
      <4>3. GrantInv(e)'
        BY <2>1, <2>2, <2>3, <2>4, <2>5 DEF GrantInv, PastApprove
      <4>4. ClearInv(e)'
        BY <2>2, <2>3 DEF ClearInv, PastApprove
      <4> QED
        BY <3>2, <4>1, <4>2, <4>3, <4>4 DEF RecordInv
    <3> QED
      BY <3>1, <3>2
  <2> QED
    BY <2>1, <2>7, NoCallStep
<1> QED
  BY <1>2, <1>3, <1>4, <1>5

\* A process stop loses the calls and nothing that is durable.
LEMMA CrashStep ==
  ASSUME Inv, TypeOK', Crash
  PROVE  Inv'
<1>1. Quiet /\ call' = [p \in Proc |-> IdleCall]
  BY DEF Crash, Quiet, decisions, history
<1>2. \A p \in Proc : call'[p].pc = "idle"
  BY <1>1 DEF IdleCall
<1>3. \A p \in Proc : CallInv(p)'
  BY <1>2 DEF CallInv, Preparing, Running, PastChecks, PastEvent, Calling
<1>4. Exclusive'
  BY <1>2 DEF Exclusive
<1> QED
  BY <1>1, <1>3, <1>4, QuietKeeps DEF Inv, RecordInv
=============================================================================
