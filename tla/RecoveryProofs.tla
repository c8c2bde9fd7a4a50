--------------------------- MODULE RecoveryProofs ---------------------------
(***************************************************************************)
(* The safety of Recovery for any number of goroutines, effects, requests, *)
(* facts and times; that it implements RecoveryPromise; and that what it   *)
(* settles stays settled.  The properties follow from the inductive        *)
(* invariant Inv, the rest from what one step may do to a journal record.  *)
(***************************************************************************)
EXTENDS RecoveryInvariant

-----------------------------------------------------------------------------
(* The invariant                                                           *)

\* An empty store and idle goroutines satisfy the invariant.
LEMMA InvInit == Init => Inv
<1> SUFFICES ASSUME Init PROVE Inv
  OBVIOUS
<1>1. TypeOK
  BY NoRecordType, NoApprovalType, IdleCallType DEF Init, TypeOK
<1>2. \A e \in Effect : /\ journal[e] = NoRecord /\ approvals[e] = NoApproval
                        /\ executions[e] = 0 /\ audited[e] = {} /\ e \notin asked
  BY DEF Init
<1>3. \A e \in Effect : CountInv(e) /\ GrantInv(e) /\ ClearInv(e)
  <2> TAKE e \in Effect
  <2>1. /\ journal[e].phase = "none" /\ journal[e].state = "none"
        /\ journal[e].approval = FALSE
    BY <1>2 DEF NoRecord
  <2>2. CountInv(e)
    BY <1>2, <2>1 DEF CountInv, ValidRecordPhase, StatusOf
  <2>3. GrantInv(e)
    BY <1>2, <2>1 DEF GrantInv
  <2>4. ClearInv(e)
    BY <2>1 DEF ClearInv, PastApprove
  <2> QED
    BY <2>2, <2>3, <2>4
<1>4. \A p \in Proc : call[p].pc = "idle"
  BY DEF Init, IdleCall
<1>5. \A p \in Proc : CallInv(p)
  BY <1>4 DEF CallInv, Preparing, Running, PastChecks, PastEvent, Calling
<1>6. Exclusive
  BY <1>4 DEF Exclusive
<1> QED
  BY <1>1, <1>3, <1>5, <1>6 DEF Inv

\* Every step of the coordinator, the approvals and the environment keeps the
\* invariant: the case split over Next that uses one lemma for each action.
LEMMA InvStep == Inv /\ [Next]_vars => Inv'
<1> SUFFICES ASSUME Inv, [Next]_vars PROVE Inv'
  OBVIOUS
<1>1. CASE Next
  <2>t. TypeOK'
    BY <1>1, TypeStep
  <2> USE DEF decisions, history
  <2>1. ASSUME NEW p \in Proc, Begin(p) PROVE Inv'
    <3>1. CASE ReconcileBegin(p)
      <4>1. /\ call'[p].pc = "reconcile" /\ \A q \in Proc \ {p} : call'[q] = call[q]
        BY <3>1 DEF ReconcileBegin, Inv, TypeOK, IdleCall
      <4>2. CallInv(p)'
        BY <4>1 DEF CallInv, Preparing, Running, PastChecks, PastEvent, Calling
      <4>3. Quiet
        BY <3>1 DEF ReconcileBegin, Quiet
      <4> QED
        BY <2>t, <4>1, <4>2, <4>3, QuietBegin
    <3> QED
      BY <2>1, <2>t, <3>1, SubmitBeginStep, ResumeBeginStep DEF Begin
  <2>2. ASSUME NEW p \in Proc, PublishAnalysisUnavailable(p) PROVE Inv'
    BY <2>2, <2>t, PublishStep
       DEF PublishAnalysisUnavailable, Calling, Label, Preparing, Running, PastChecks,
           PastEvent
  <2>3. ASSUME NEW p \in Proc, PrepareDenied(p) PROVE Inv'
    <3>1. Quiet /\ Goto(p, "denied")
      BY <2>3 DEF PrepareDenied, Quiet
    <3> QED
      BY <2>3, <2>t, <3>1, QuietGoto
         DEF PrepareDenied, Calling, Label, Preparing, Running, PastChecks, PastEvent
  <2>4. ASSUME NEW p \in Proc, PublishPolicyDenied(p) PROVE Inv'
    BY <2>4, <2>t, PublishStep
       DEF PublishPolicyDenied, Calling, Label, Preparing, Running, PastChecks, PastEvent
  <2>5. ASSUME NEW p \in Proc, PersistConflict(p) \/ Abort(p) PROVE Inv'
    <3>1. Quiet /\ Return(p)
      BY <2>5 DEF PersistConflict, Abort, Quiet
    <3> QED
      BY <2>t, <3>1, QuietReturn
  <2>6. ASSUME NEW p \in Proc, PublishApprovalRequested(p) PROVE Inv'
    BY <2>6, <2>t, PublishStep
       DEF PublishApprovalRequested, Calling, Label, Preparing, Running, PastChecks,
           PastEvent
  <2>7. ASSUME NEW p \in Proc, ValidateAction(p) PROVE Inv'
    <3>1. PICK l \in {"check2", "deny"} : Goto(p, l)
      BY <2>7 DEF ValidateAction
    <3>2. Quiet /\ call[p].pc = "validate"
      BY <2>7 DEF ValidateAction, Quiet
    <3> QED
      BY <2>t, <3>1, <3>2, QuietGoto
         DEF Calling, Label, Preparing, Running, PastChecks, PastEvent
  <2>8. ASSUME NEW p \in Proc, PublishRecoveryStarted(p) PROVE Inv'
    BY <2>8, <2>t, PublishStep
       DEF PublishRecoveryStarted, LifecycleEvent, Calling, Label, Preparing, Running,
           PastChecks, PastEvent
  <2>9. ASSUME NEW p \in Proc, Step(p) PROVE Inv'
    BY <2>9, <2>t, <2>2, <2>3, <2>4, <2>5, <2>6, <2>7, <2>8, PersistDuplicateStep,
       PersistNewStep, RevalidateStep, DenyStep, ExpireStep, ApproveStep,
       StartExecutionStep, ExecuteStep, FinishExecutionStep, MarkUncertainStep,
       ReconcileOneStep, SMTT(30)
       DEF Step
  <2>10. CASE Tick
    BY <2>10, <2>t, QuietNoCall DEF Tick, Quiet
  <2> QED
    BY <1>1, <2>t, <2>1, <2>5, <2>9, <2>10, CrashStep, DecideStep,
       CompleteStabilizationStep
       DEF Next
<1>2. CASE UNCHANGED vars
  <2>1. TypeOK' /\ Quiet /\ UNCHANGED call
    BY <1>2 DEF vars, Inv, TypeOK, Quiet
  <2> QED
    BY <2>1, QuietNoCall
<1> QED
  BY <1>1, <1>2

\* Inv holds in every reachable state of the coordinator with its journal,
\* approvals and events.
THEOREM Invariance == Spec => []Inv
  BY InvInit, InvStep, PTL DEF Spec

\* The state keeps its types whatever the calls, crashes and decisions.
THEOREM TypeCorrect == Spec => []TypeOK
<1>1. Inv => TypeOK
  BY DEF Inv
<1> QED
  BY <1>1, Invariance, PTL

\* startExecution lets at most one Adapter.Execute of an effect through.
THEOREM ExecutesAtMostOnce == Spec => []AtMostOneExecution
<1>1. Inv => AtMostOneExecution
  BY InvParts DEF CountInv, AtMostOneExecution
<1> QED
  BY <1>1, Invariance, PTL

\* The journal's final phases tell what happened to the container.
THEOREM JournalTruthful == Spec => []OutcomeTruthful
<1>1. Inv => OutcomeTruthful
  <2> SUFFICES ASSUME Inv, NEW e \in Effect
               PROVE  LET r == journal[e]
                      IN  /\ \/ r.state \in {"denied", "expired"}
                             \/ /\ r.phase = "verify_and_notify"
                                /\ r.state \in {"pending", "approved"}
                             => executions[e] = 0 /\ ~Applying(e)
                          /\ r.state \in {"stabilizing", "succeeded", "failed"} =>
                               executions[e] = 1
    BY DEF OutcomeTruthful
  <2>1. CountInv(e)
    BY DEF Inv
  <2>2. Applying(e) => journal[e].state = "executing"
    BY InvParts DEF Applying, CallInv
  <2> QED
    BY <2>1, <2>2 DEF CountInv, ValidRecordPhase, StatusOf
<1> QED
  BY <1>1, Invariance, PTL

\* An applied effect has passed the policy on the daemon's own facts in time.
THEOREM ExecutesAuthorized == Spec => []ExecutionAuthorized
<1>1. Inv => ExecutionAuthorized
  <2> SUFFICES ASSUME Inv, NEW e \in Effect, executions[e] > 0 PROVE Authorized(e)
    BY DEF ExecutionAuthorized
  <2>1. journal[e].state \in PastApprove
    BY InvParts DEF CountInv, ValidRecordPhase, StatusOf, PastApprove
  <2> QED
    BY <2>1, InvParts DEF ClearInv
<1> QED
  BY <1>1, Invariance, PTL

\* A command that had to wait is applied only with a durable local grant.
THEOREM ExecutesGranted == Spec => []GrantedBeforeExecution
<1>1. Inv => GrantedBeforeExecution
  <2> SUFFICES ASSUME Inv, NEW e \in asked, executions[e] > 0
               PROVE  approvals[e].decision = "granted"
    BY DEF GrantedBeforeExecution
  <2>1. e \in Effect
    BY InvParts DEF TypeOK
  <2>2. journal[e].state \in PastApprove
    BY <2>1, InvParts DEF CountInv, ValidRecordPhase, StatusOf, PastApprove
  <2> QED
    BY <2>1, <2>2, InvParts DEF GrantInv, PastApprove
<1> QED
  BY <1>1, Invariance, PTL

\* The recovery_started event is stored before the effect is applied.
THEOREM ExecutesAnnounced == Spec => []AnnouncedBeforeExecution
<1>1. Inv => AnnouncedBeforeExecution
  <2> SUFFICES ASSUME Inv, NEW e \in Effect, executions[e] > 0 PROVE Announced(e)
    BY DEF AnnouncedBeforeExecution
  <2>1. journal[e].state \in PastApprove
    BY InvParts DEF CountInv, ValidRecordPhase, StatusOf, PastApprove
  <2> QED
    BY <2>1, InvParts DEF ClearInv
<1> QED
  BY <1>1, Invariance, PTL

\* A decision, the command that names it and its audit event never diverge.
THEOREM DecidesAtomically == Spec => []DecisionAtomic
<1>1. Inv => DecisionAtomic
  BY InvParts DEF GrantInv, DecisionAtomic
<1> QED
  BY <1>1, Invariance, PTL

-----------------------------------------------------------------------------
(* What one step does to the journal and to Docker                         *)

\* The changes of status a journal transaction may make.
LegalChange(e, from, to) ==
  \/ from = to /\ from # "absent"
  \/ from = "absent" /\ to = "open"
  \/ from = "open" /\ to \in {"closed", "committed"}
  \/ from = "committed" /\ to = "suspected"
  \/ from = "committed" /\ to = "applied" /\ executions[e] = 1

\* One transaction writes one record, which was not terminal.
RecordStep(e) ==
  \E r \in JournalRecord :
    /\ journal' = [journal EXCEPT ![e] = r]
    /\ UNCHANGED executions
    /\ ~Terminal(journal[e])
    /\ LegalChange(e, StatusOf(journal[e]), StatusOf(r))

\* Adapter.Execute applies one committed effect for the first time.
ApplyStep(e) ==
  /\ UNCHANGED journal
  /\ executions[e] = 0
  /\ executions' = [executions EXCEPT ![e] = 1]
  /\ StatusOf(journal[e]) \in {"committed", "suspected"}

\* updateRecord and the other moves of a record, when the status change is legal.
LEMMA MoveRecord ==
  ASSUME TypeOK, NEW e \in Effect, NEW phase \in Phase, NEW state \in CommandState,
         Move(e, phase, state), UNCHANGED executions, ~Terminal(journal[e]),
         \A r \in JournalRecord : r.phase = phase /\ r.state = state =>
           LegalChange(e, StatusOf(journal[e]), StatusOf(r))
  PROVE  RecordStep(e)
<1> DEFINE r == [journal[e] EXCEPT !.phase = phase, !.state = state]
<1>1. journal[e] \in JournalRecord
  BY DEF TypeOK
<1>2. r \in JournalRecord /\ r.phase = phase /\ r.state = state
  BY <1>1, ZenonT(30) DEF JournalRecord
<1>3. journal' = [journal EXCEPT ![e] = r]
  BY DEF Move
<1> HIDE DEF r
<1> QED
  BY <1>2, <1>3, ZenonT(30) DEF RecordStep

\* The transitions that execute makes: nothing, or one legal move.
LEMMA UpdateRecordStep ==
  ASSUME Inv, NEW p \in Proc, NEW guard, NEW phase \in Phase, NEW state \in CommandState,
         NEW next, call[p].effect \in Effect, UNCHANGED executions,
         UpdateRecord(p, guard, phase, state, next),
         guard => /\ ~Terminal(journal[call[p].effect])
                  /\ \A r \in JournalRecord : r.phase = phase /\ r.state = state =>
                       LegalChange(call[p].effect, StatusOf(journal[call[p].effect]),
                                   StatusOf(r))
  PROVE  UNCHANGED <<journal, executions>> \/ RecordStep(call[p].effect)
<1>1. CASE guard /\ Move(call[p].effect, phase, state)
  BY <1>1, MoveRecord DEF Inv
<1> QED
  BY <1>1 DEF UpdateRecord

\* The status of a record in each phase that a command can wait or move in.
LEMMA StatusTable ==
  ASSUME NEW r
  PROVE  /\ r.phase \in {"pending", "awaiting_approval", "approved"} /\ r.state \in {"pending", "approved"} =>
              StatusOf(r) = "open"
         /\ r.phase = "completed" /\ r.state \in {"denied", "expired"} => StatusOf(r) = "closed"
         /\ r.phase = "executing" /\ r.state = "executing" => StatusOf(r) = "committed"
         /\ r.phase = "verify_and_notify" /\ r.state \in {"pending", "approved"} =>
              StatusOf(r) = "closed"
         /\ r.phase = "verify_and_notify" /\ r.state = "executing" => StatusOf(r) = "suspected"
<1>1. r.phase \in {"pending", "awaiting_approval", "approved"} /\ r.state \in {"pending", "approved"} =>
        StatusOf(r) = "open"
  BY DEF StatusOf
<1>2. r.phase = "completed" /\ r.state \in {"denied", "expired"} => StatusOf(r) = "closed"
  BY DEF StatusOf
<1>3. r.phase = "executing" /\ r.state = "executing" => StatusOf(r) = "committed"
  BY DEF StatusOf
<1>4. r.phase = "verify_and_notify" /\ r.state \in {"pending", "approved"} => StatusOf(r) = "closed"
  BY DEF StatusOf
<1>5. r.phase = "verify_and_notify" /\ r.state = "executing" => StatusOf(r) = "suspected"
  BY DEF StatusOf
<1> QED BY <1>1, <1>2, <1>3, <1>4, <1>5

\* The steps of execute: denyAfterRevalidation and expire close an open effect,
\* startExecution commits it, finishExecution confirms it.
LEMMA ExecuteRecords ==
  ASSUME Inv, NEW p \in Proc,
         \/ DenyAfterRevalidation(p) \/ Expire(p) \/ Approve(p)
         \/ StartExecution(p) \/ FinishExecution(p) \/ MarkUncertain(p)
  PROVE  \/ UNCHANGED <<journal, executions>>
         \/ \E e \in Effect : RecordStep(e)
<1>1. PICK e \in Effect : e = call[p].effect
  BY CallEffect, Zenon DEF DenyAfterRevalidation, Expire, Approve, StartExecution,
                    FinishExecution, MarkUncertain
<1>2. CountInv(e) /\ CallInv(p)
  BY InvParts
<1>3. UNCHANGED executions
  BY Zenon DEF DenyAfterRevalidation, Expire, Approve, StartExecution, FinishExecution,
         MarkUncertain
<1> DEFINE Legal(phase, state) ==
      /\ ~Terminal(journal[e])
      /\ \A r \in JournalRecord : r.phase = phase /\ r.state = state =>
           LegalChange(e, StatusOf(journal[e]), StatusOf(r))
<1>4. Undecided(journal[e]) =>
        /\ Legal("completed", "denied") /\ Legal("completed", "expired")
        /\ Legal("approved", "approved")
  <2> SUFFICES ASSUME Undecided(journal[e])
               PROVE  /\ Legal("completed", "denied") /\ Legal("completed", "expired")
                      /\ Legal("approved", "approved")
    OBVIOUS
  <2>1. StatusOf(journal[e]) = "open" /\ ~Terminal(journal[e])
    BY StatusTable DEF Undecided, Terminal
  <2>2. Legal("completed", "denied")
    BY <2>1, StatusTable DEF LegalChange
  <2>3. Legal("completed", "expired")
    BY <2>1, StatusTable DEF LegalChange
  <2>4. Legal("approved", "approved")
    BY <2>1, StatusTable DEF LegalChange
  <2> QED BY <2>2, <2>3, <2>4
<1>5. journal[e].phase = "approved" => Legal("executing", "executing")
  BY <1>2, Zenon DEF Terminal, LegalChange, StatusOf, CountInv, ValidRecordPhase
<1>6. journal[e].phase = "executing" /\ executions[e] = 1 =>
        Legal("stabilizing", "stabilizing")
  BY <1>2, Zenon DEF Terminal, LegalChange, StatusOf, CountInv, ValidRecordPhase
<1>7. IsReconcilablePhase(journal[e].phase) => Legal("verify_and_notify", journal[e].state)
  BY <1>2, ZenonT(60) DEF IsReconcilablePhase, Terminal, LegalChange, StatusOf, CountInv,
              ValidRecordPhase
<1>8. journal[e].state \in CommandState
  BY InvParts, Zenon DEF JournalRecord
<1> USE DEF Phase, CommandState
<1>9. CASE DenyAfterRevalidation(p)
  BY <1>1, <1>3, <1>4, <1>9, UpdateRecordStep, ZenonT(30) DEF DenyAfterRevalidation
<1>10. CASE Expire(p)
  BY <1>1, <1>3, <1>4, <1>10, UpdateRecordStep, ZenonT(30) DEF Expire
<1>11. CASE Approve(p)
  BY <1>1, <1>3, <1>4, <1>11, UpdateRecordStep, ZenonT(30) DEF Approve, Approvable
<1>12. CASE StartExecution(p)
  BY <1>1, <1>3, <1>5, <1>12, UpdateRecordStep, ZenonT(30) DEF StartExecution
<1>13. CASE FinishExecution(p)
  <2>1. executions[e] = 1
    BY <1>1, <1>2, <1>13, Zenon DEF FinishExecution, CallInv
  <2> QED
    BY <1>1, <1>3, <1>6, <1>13, <2>1, UpdateRecordStep, ZenonT(30) DEF FinishExecution
<1>14. CASE MarkUncertain(p)
  BY <1>1, <1>3, <1>7, <1>8, <1>14, UpdateRecordStep, ZenonT(30) DEF MarkUncertain
<1> QED
  BY <1>9, <1>10, <1>11, <1>12, <1>13, <1>14, Zenon

\* Adapter.Execute is called for a committed effect that was not applied yet.
LEMMA ExecuteApplies ==
  ASSUME Inv, NEW p \in Proc, Execute(p)
  PROVE  ApplyStep(call[p].effect) /\ call[p].effect \in Effect
<1>1. PICK e \in Effect : e = call[p].effect
  BY CallEffect DEF Execute
<1>2. CountInv(e) /\ CallInv(p)
  BY InvParts, Zenon
<1>3. executions[e] = 0 /\ journal[e].state = "executing"
  BY <1>1, <1>2, Zenon DEF Execute, CallInv
<1>4. executions' = [executions EXCEPT ![e] = 1] /\ UNCHANGED journal
  BY <1>1, <1>3 DEF Execute
<1> QED
  BY <1>1, <1>2, <1>3, <1>4, Zenon DEF ApplyStep, CountInv, ValidRecordPhase, StatusOf

\* persistPending writes the first record of an effect, which is open.
LEMMA PersistRecords ==
  ASSUME Inv, NEW p \in Proc, PersistNew(p)
  PROVE  \E e \in Effect : RecordStep(e)
<1>1. PICK e \in Effect : e = call[p].effect
  BY CallEffect, Zenon DEF PersistNew, Persisting
<1>2. PICK phase \in {"awaiting_approval", "pending"} :
        journal' = [journal EXCEPT ![e] = NewRecord(call[p], phase)]
  BY <1>1, ZenonT(30) DEF PersistNew
<1>3. /\ journal[e].phase = "none" /\ UNCHANGED executions /\ call[p] \in Call
  BY <1>1, InvParts, Zenon DEF PersistNew
<1> DEFINE r == NewRecord(call[p], phase)
<1>4. r \in JournalRecord /\ r.phase = phase /\ r.state = "pending"
  BY <1>3, Zenon DEF NewRecord, JournalRecord, Phase, CommandState, Call
<1> HIDE DEF r
<1>5. ~Terminal(journal[e]) /\ LegalChange(e, StatusOf(journal[e]), StatusOf(r))
  BY <1>3, <1>4, Zenon DEF Terminal, LegalChange, StatusOf
<1> QED
  BY <1>2, <1>3, <1>4, <1>5, ZenonT(30) DEF RecordStep, r

\* Reconcile closes an open effect and suspects a committed one.
LEMMA ReconcileRecords ==
  ASSUME Inv, NEW p \in Proc, NEW e \in Effect, ReconcileOne(p, e)
  PROVE  UNCHANGED <<journal, executions>> \/ RecordStep(e)
<1>1. CASE IsReconcilablePhase(journal[e].phase)
  <2>1. TypeOK /\ CountInv(e) /\ journal[e].state \in CommandState
    BY InvParts DEF JournalRecord
  <2>2. Move(e, "verify_and_notify", journal[e].state) /\ UNCHANGED executions
    BY <1>1, Zenon DEF ReconcileOne
  <2>3. /\ ~Terminal(journal[e])
        /\ \A r \in JournalRecord :
             r.phase = "verify_and_notify" /\ r.state = journal[e].state =>
               LegalChange(e, StatusOf(journal[e]), StatusOf(r))
    <3>1. CASE journal[e].state = "executing"
      <4>1. StatusOf(journal[e]) = "committed" /\ ~Terminal(journal[e])
        BY <1>1, <2>1, <3>1, StatusTable
           DEF IsReconcilablePhase, Terminal, CountInv, ValidRecordPhase
      <4> QED BY <3>1, <4>1, StatusTable DEF LegalChange
    <3>2. CASE journal[e].state # "executing"
      <4>1. journal[e].state \in {"pending", "approved"} /\ journal[e].phase \in {"pending", "approved"}
        BY <1>1, <2>1, <3>2 DEF IsReconcilablePhase, CountInv, ValidRecordPhase
      <4>2. StatusOf(journal[e]) = "open" /\ ~Terminal(journal[e])
        BY <4>1, StatusTable DEF Terminal
      <4> QED BY <4>1, <4>2, StatusTable DEF LegalChange
    <3> QED BY <3>1, <3>2
  <2> QED
    BY <2>1, <2>2, <2>3, MoveRecord DEF Phase
<1> QED
  BY <1>1 DEF ReconcileOne

\* CompleteStabilization ends an applied effect, which stays applied.
LEMMA StabilizationRecords ==
  ASSUME Inv, NEW e \in Effect, NEW succeeded \in BOOLEAN,
         CompleteStabilization(e, succeeded)
  PROVE  RecordStep(e)
<1>1. PICK state \in {"succeeded", "failed"} :
        Move(e, "completed", state) /\ UNCHANGED executions
  BY DEF CompleteStabilization
<1>2. TypeOK /\ CountInv(e) /\ journal[e].phase = "stabilizing"
  BY InvParts, Zenon DEF CompleteStabilization
<1>3. /\ ~Terminal(journal[e])
      /\ \A r \in JournalRecord : r.phase = "completed" /\ r.state = state =>
           LegalChange(e, StatusOf(journal[e]), StatusOf(r))
  BY <1>2, Zenon DEF Terminal, LegalChange, StatusOf, CountInv, ValidRecordPhase
<1> QED
  <2>1. "completed" \in Phase /\ state \in CommandState
    BY DEF Phase, CommandState
  <2> QED
    BY <1>1, <1>2, <1>3, <2>1, MoveRecord

\* Decide leaves an effect open with its grant, or closes it.
LEMMA DecideRecords ==
  ASSUME Inv, NEW e \in Effect, NEW a \in Actor, NEW x \in Expiries,
         NEW d \in {"granted", "denied", "malformed"}, Decide(e, a, d, x)
  PROVE  UNCHANGED <<journal, executions>> \/ RecordStep(e)
<1>1. PICK t \in 1 .. now : \/ DecideRejected(e, d, t, x)
                            \/ DecideExpired(e, d, t, x)
                            \/ DecideAccepted(e, a, d, t, x)
  BY DEF Decide
<1>2. TypeOK /\ CountInv(e) /\ journal[e] \in JournalRecord
  BY InvParts
<1>3. CASE DecideRejected(e, d, t, x)
  BY <1>3, Zenon DEF DecideRejected
<1>4. CASE DecideExpired(e, d, t, x)
  <2>1. Move(e, "completed", "expired") /\ UNCHANGED executions
    BY <1>4, Zenon DEF DecideExpired
  <2>2. /\ ~Terminal(journal[e])
        /\ \A r \in JournalRecord : r.phase = "completed" /\ r.state = "expired" =>
             LegalChange(e, StatusOf(journal[e]), StatusOf(r))
    BY <1>2, <1>4, Zenon DEF DecideExpired, Decidable, Terminal, LegalChange, StatusOf
  <2> QED
    BY <1>2, <2>1, <2>2, MoveRecord, Zenon DEF Phase, CommandState
<1>5. CASE DecideAccepted(e, a, d, t, x)
  <2>1. PICK r : /\ journal' = [journal EXCEPT ![e] = r]
                 /\ r = IF d = "denied"
                        THEN [journal[e] EXCEPT !.approval = TRUE, !.phase = "completed",
                                                !.state = "denied"]
                        ELSE [journal[e] EXCEPT !.approval = TRUE]
    BY <1>5, ZenonT(30) DEF DecideAccepted
  <2>2. /\ r \in JournalRecord
        /\ \/ r.phase = "completed" /\ r.state = "denied"
           \/ r.phase = journal[e].phase /\ r.state = journal[e].state
    BY <1>2, <2>1, ZenonT(30) DEF JournalRecord, Phase, CommandState
  <2>3. ~Terminal(journal[e]) /\ LegalChange(e, StatusOf(journal[e]), StatusOf(r))
    BY <1>5, <2>2 DEF DecideAccepted, Decidable, Terminal, LegalChange, StatusOf
  <2> QED
    BY <1>5, <2>1, <2>2, <2>3, ZenonT(30) DEF RecordStep, DecideAccepted
<1> QED
  BY <1>1, <1>3, <1>4, <1>5

\* Every step of the package is one of the three kinds.
LEMMA StepKinds ==
  ASSUME Inv, [Next]_vars
  PROVE  \/ UNCHANGED <<journal, executions>>
         \/ \E e \in Effect : RecordStep(e) \/ ApplyStep(e)
<1>1. ASSUME NEW p \in Proc, Begin(p) \/ Abort(p)
      PROVE  UNCHANGED <<journal, executions>>
  BY <1>1, ZenonT(30) DEF Begin, Abort, SubmitBegin, ResumeBegin, ReconcileBegin
<1>2. ASSUME NEW p \in Proc,
             \/ PublishAnalysisUnavailable(p) \/ PrepareDenied(p)
             \/ PublishPolicyDenied(p) \/ PersistConflict(p) \/ PersistDuplicate(p)
             \/ PublishApprovalRequested(p) \/ Revalidate(p) \/ ValidateAction(p)
             \/ PublishRecoveryStarted(p)
      PROVE  UNCHANGED <<journal, executions>>
  BY <1>2 DEF PublishAnalysisUnavailable, PrepareDenied, PublishPolicyDenied,
              PersistConflict, PersistDuplicate, PublishApprovalRequested, Revalidate,
              ValidateAction, PublishRecoveryStarted
<1>3. ASSUME NEW p \in Proc, Step(p)
      PROVE  \/ UNCHANGED <<journal, executions>>
             \/ \E e \in Effect : RecordStep(e) \/ ApplyStep(e)
  BY <1>2, <1>3, PersistRecords, ExecuteRecords, ExecuteApplies, ReconcileRecords
     DEF Step
<1>4. CASE Crash \/ Tick \/ UNCHANGED vars
  BY <1>4 DEF Crash, Tick, vars
<1> QED
  BY <1>1, <1>3, <1>4, DecideRecords, StabilizationRecords DEF Next

-----------------------------------------------------------------------------
(* The refinement                                                          *)

\* A record step moves the status of one effect as RecoveryPromise allows.
LEMMA RecordStepPromised ==
  ASSUME Inv, NEW e \in Effect, RecordStep(e)
  PROVE  [Promise!Next]_(Promise!pvars)
<1>1. PICK r \in JournalRecord :
        /\ journal' = [journal EXCEPT ![e] = r]
        /\ UNCHANGED executions
        /\ LegalChange(e, StatusOf(journal[e]), StatusOf(r))
  BY ZenonT(30) DEF RecordStep
<1> DEFINE status == [f \in Effect |-> StatusOf(journal[f])]
           next == [f \in Effect |-> StatusOf(journal'[f])]
<1>2. journal \in [Effect -> JournalRecord]
  BY DEF Inv, TypeOK
<1>3. next = [status EXCEPT ![e] = StatusOf(r)]
  <2>1. \A f \in Effect : journal'[f] = IF f = e THEN r ELSE journal[f]
    BY <1>1, <1>2
  <2>2. \A f \in Effect : next[f] = [status EXCEPT ![e] = StatusOf(r)][f]
    BY <2>1
  <2> QED
    BY <2>2, ZenonT(30)
<1>4. status[e] = StatusOf(journal[e])
  OBVIOUS
<1>5. CASE StatusOf(journal[e]) = StatusOf(r)
  <2>1. next = status
    BY <1>3, <1>5, ZenonT(30)
  <2> QED
    BY <1>1, <2>1 DEF Promise!pvars
<1>6. CASE StatusOf(journal[e]) = "absent" /\ StatusOf(r) = "open"
  <2>1. Promise!Admit(e)
    BY <1>1, <1>3, <1>4, <1>6 DEF Promise!Admit, Promise!Change
  <2> QED
    BY <2>1 DEF Promise!Next
<1>7. CASE StatusOf(journal[e]) = "open" /\ StatusOf(r) = "closed"
  <2>1. Promise!Close(e)
    BY <1>1, <1>3, <1>4, <1>7 DEF Promise!Close, Promise!Change
  <2> QED
    BY <2>1 DEF Promise!Next
<1>8. CASE StatusOf(journal[e]) = "open" /\ StatusOf(r) = "committed"
  <2>1. Promise!Commit(e)
    BY <1>1, <1>3, <1>4, <1>8 DEF Promise!Commit, Promise!Change
  <2> QED
    BY <2>1 DEF Promise!Next
<1>9. CASE StatusOf(journal[e]) = "committed" /\ StatusOf(r) = "suspected"
  <2>1. Promise!Suspect(e)
    BY <1>1, <1>3, <1>4, <1>9 DEF Promise!Suspect, Promise!Change
  <2> QED
    BY <2>1 DEF Promise!Next
<1>10. CASE /\ StatusOf(journal[e]) = "committed" /\ StatusOf(r) = "applied"
            /\ executions[e] = 1
  <2>1. Promise!Confirm(e)
    BY <1>1, <1>3, <1>4, <1>10 DEF Promise!Confirm, Promise!Change
  <2> QED
    BY <2>1 DEF Promise!Next
<1> QED
  BY <1>1, <1>5, <1>6, <1>7, <1>8, <1>9, <1>10 DEF LegalChange

\* The package implements RecoveryPromise: every step of the coordinator, the
\* approvals and the reconciliation is a step of it or leaves it unchanged.
THEOREM ImplementsPromise == Spec => KeepsPromise
<1>1. Init => Promise!Init
  <2> SUFFICES ASSUME Init PROVE Promise!Init
    OBVIOUS
  <2>1. \A e \in Effect : StatusOf(journal[e]) = "absent"
    BY DEF Init, NoRecord, StatusOf
  <2> QED
    BY <2>1 DEF Init, Promise!Init
<1>2. Inv /\ [Next]_vars => [Promise!Next]_(Promise!pvars)
  <2> SUFFICES ASSUME Inv, [Next]_vars PROVE [Promise!Next]_(Promise!pvars)
    OBVIOUS
  <2>1. CASE UNCHANGED <<journal, executions>>
    BY <2>1 DEF Promise!pvars
  <2>2. ASSUME NEW e \in Effect, ApplyStep(e) PROVE Promise!Next
    <3>1. Promise!Apply(e)
      BY <2>2, Zenon DEF ApplyStep, Promise!Apply
    <3> QED
      BY <3>1 DEF Promise!Next
  <2> QED
    BY <2>1, <2>2, StepKinds, RecordStepPromised
<1> QED
  BY <1>1, <1>2, Invariance, PTL DEF Spec, KeepsPromise, Promise!Spec

-----------------------------------------------------------------------------
(* What is settled stays settled                                           *)

\* Only persistPending writes the idempotency index, and only for a key that is
\* free or already stands for the effect; the effect has a record afterwards.
LEMMA IndexStep ==
  ASSUME Inv, [Next]_vars
  PROVE  \/ UNCHANGED index
         \/ \E k \in IdemKey, e \in Effect :
              /\ index[k] \in {"none", e}
              /\ index' = [index EXCEPT ![k] = e]
              /\ journal'[e].phase # "none"
<1>1. ASSUME NEW p \in Proc, PersistNew(p) \/ PersistDuplicate(p)
      PROVE  \/ UNCHANGED index
             \/ \E k \in IdemKey, e \in Effect :
                  /\ index[k] \in {"none", e}
                  /\ index' = [index EXCEPT ![k] = e]
                  /\ journal'[e].phase # "none"
  <2>1. PICK e \in Effect : e = call[p].effect
    BY <1>1, CallEffect DEF PersistNew, PersistDuplicate, Persisting
  <2>2. PICK k \in IdemKey \cup {"none"} : k = call[p].key
    BY InvParts DEF Call
  <2>3. index \in [IdemKey -> Effect \cup {"none"}] /\ journal \in [Effect -> JournalRecord]
    BY DEF Inv, TypeOK
  <2>4. index[k] \in {"none", e} /\ index' = [index EXCEPT ![k] = e]
    BY <1>1, <2>1, <2>2 DEF PersistNew, PersistDuplicate
  <2>5. journal'[e].phase # "none"
    BY <1>1, <2>1, <2>3 DEF PersistNew, PersistDuplicate, NewRecord
  <2>6. CASE k \notin IdemKey
    BY <2>3, <2>4, <2>6, Zenon
  <2> QED
    BY <2>4, <2>5, <2>6, ZenonT(30)
<1>2. ASSUME NEW p \in Proc, Step(p), ~PersistNew(p), ~PersistDuplicate(p)
      PROVE  UNCHANGED index
  BY <1>2, Zenon DEF Step, PublishAnalysisUnavailable, PrepareDenied, PublishPolicyDenied,
     PersistConflict, PublishApprovalRequested, Revalidate, ValidateAction,
     DenyAfterRevalidation, Expire, PublishRecoveryStarted, Approve, StartExecution,
     Execute, FinishExecution, MarkUncertain, ReconcileOne
<1>3. ASSUME NEW p \in Proc, Begin(p) \/ Abort(p) PROVE UNCHANGED index
  BY <1>3, ZenonT(30) DEF Begin, Abort, SubmitBegin, ResumeBegin, ReconcileBegin
<1>4. CASE Crash \/ Tick \/ UNCHANGED vars
  BY <1>4 DEF Crash, Tick, vars
<1>5. ASSUME NEW e \in Effect, NEW succeeded \in BOOLEAN, CompleteStabilization(e, succeeded)
      PROVE  UNCHANGED index
  BY <1>5 DEF CompleteStabilization
<1>6. ASSUME NEW e \in Effect, NEW a \in Actor, NEW x \in Expiries,
             NEW d \in {"granted", "denied", "malformed"}, Decide(e, a, d, x)
      PROVE  UNCHANGED index
  BY <1>6 DEF Decide, DecideRejected, DecideExpired, DecideAccepted
<1> QED
  BY <1>1, <1>2, <1>3, <1>4, <1>5, <1>6, Zenon DEF Next

\* Only an accepted decision writes an approval, for a command without one.
LEMMA ApprovalStep ==
  ASSUME Inv, [Next]_vars
  PROVE  \/ UNCHANGED approvals
         \/ \E e \in Effect : \E g :
              approvals[e] = NoApproval /\ approvals' = [approvals EXCEPT ![e] = g]
<1> USE DEF decisions
<1>1. ASSUME NEW p \in Proc, Step(p) PROVE UNCHANGED approvals
  BY <1>1, Zenon DEF Step, PublishAnalysisUnavailable, PrepareDenied, PublishPolicyDenied,
     PersistConflict, PersistDuplicate, PersistNew, PublishApprovalRequested, Revalidate,
     ValidateAction, DenyAfterRevalidation, Expire, PublishRecoveryStarted, Approve,
     StartExecution, Execute, FinishExecution, MarkUncertain, ReconcileOne
<1>2. ASSUME NEW p \in Proc, Begin(p) \/ Abort(p) PROVE UNCHANGED approvals
  BY <1>2, ZenonT(30) DEF Begin, Abort, SubmitBegin, ResumeBegin, ReconcileBegin
<1>3. CASE Crash \/ Tick \/ UNCHANGED vars
  BY <1>3 DEF Crash, Tick, vars
<1>4. ASSUME NEW e \in Effect, NEW succeeded \in BOOLEAN, CompleteStabilization(e, succeeded)
      PROVE  UNCHANGED approvals
  BY <1>4 DEF CompleteStabilization
<1>5. ASSUME NEW e \in Effect, NEW a \in Actor, NEW x \in Expiries,
             NEW d \in {"granted", "denied", "malformed"}, Decide(e, a, d, x)
      PROVE  \/ UNCHANGED approvals
             \/ \E g : approvals[e] = NoApproval /\ approvals' = [approvals EXCEPT ![e] = g]
  BY <1>5, InvParts DEF Decide, DecideRejected, DecideExpired, DecideAccepted, Decidable,
                        GrantInv
<1> QED
  BY <1>1, <1>2, <1>3, <1>4, <1>5, SMTT(30) DEF Next

\* Terminal records, decisions and bound keys never change again.
THEOREM SettlesForever == Spec => Settled
<1> DEFINE Frozen ==
      /\ \A e \in Effect : Terminal(journal[e]) => journal'[e] = journal[e]
      /\ \A e \in Effect : approvals[e] # NoApproval => approvals'[e] = approvals[e]
      /\ \A k \in IdemKey : index[k] # "none" => index'[k] = index[k]
<1>1. Inv /\ [Next]_vars => [Frozen]_vars
  <2> SUFFICES ASSUME Inv, [Next]_vars PROVE Frozen
    OBVIOUS
  <2>1. TypeOK
    BY DEF Inv
  <2>2. \A e \in Effect : Terminal(journal[e]) => journal'[e] = journal[e]
    BY <2>1, StepKinds DEF RecordStep, ApplyStep, TypeOK
  <2>3. \A e \in Effect : approvals[e] # NoApproval => approvals'[e] = approvals[e]
    BY <2>1, ApprovalStep, Zenon DEF TypeOK
  <2>4. \A k \in IdemKey : index[k] # "none" => index'[k] = index[k]
    BY <2>1, IndexStep DEF TypeOK
  <2> QED
    BY <2>2, <2>3, <2>4
<1> QED
  BY <1>1, Invariance, PTL DEF Spec, Settled

\* A key in the index leads to a record: persistPending writes both, and no
\* step removes a record.
THEOREM IndexesSoundly == Spec => []IndexSound
<1>1. Init => IndexSound
  BY DEF Init, IndexSound
<1>2. Inv /\ IndexSound /\ [Next]_vars => IndexSound'
  <2> SUFFICES ASSUME Inv, IndexSound, [Next]_vars, NEW k \in IdemKey, index'[k] # "none"
               PROVE  journal'[index'[k]].phase # "none"
    BY DEF IndexSound
  <2>1. TypeOK
    BY Zenon DEF Inv
  <2>2. \A e \in Effect : journal[e].phase # "none" => journal'[e].phase # "none"
    <3>1. \A r : r.phase = "none" <=> StatusOf(r) = "absent"
      BY DEF StatusOf
    <3>2. ASSUME NEW e \in Effect, RecordStep(e), journal[e].phase # "none"
          PROVE  journal'[e].phase # "none"
      BY <2>1, <3>1, <3>2, Zenon DEF RecordStep, LegalChange, TypeOK
    <3> QED
      BY <2>1, <3>2, StepKinds DEF RecordStep, ApplyStep, TypeOK
  <2>3. index[k] # "none" => index[k] \in Effect /\ journal'[index[k]].phase # "none"
    BY <2>1, <2>2, Zenon DEF TypeOK, IndexSound
  <2> QED
    BY <2>1, <2>3, IndexStep, Zenon DEF TypeOK
<1> QED
  BY <1>1, <1>2, Invariance, PTL DEF Spec
=============================================================================
