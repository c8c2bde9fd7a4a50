------------------------------ MODULE Recovery ------------------------------
(***************************************************************************)
(* internal/recovery: the durable command journal (journal.go), the local  *)
(* approval manager (approval.go) and the coordinator that drives one      *)
(* recovery effect through them to the Docker adapter (coordinator.go),    *)
(* with the lifecycle events it must publish first (internal/lifecycle).   *)
(*                                                                         *)
(* Every bbolt transaction is one step, every call into the adapter, the   *)
(* state source or the publisher is one step, and calls of several         *)
(* goroutines interleave between them.  A process stop loses the calls in  *)
(* flight and keeps the journal, the index, the approvals and the events.  *)
(*                                                                         *)
(* An Effect is one recordKey: incident, runbook, digest, target, action   *)
(* index.  The journal holds at most one command per effect and never      *)
(* deletes it, and NewCommandID does not repeat, so an effect also stands  *)
(* for the command ID of its record.                                       *)
(***************************************************************************)
EXTENDS Policy

CONSTANTS
  Proc,        \* goroutines that may call the coordinator
  Effect,      \* recovery effects (record keys)
  Incident,    \* incident IDs
  IncidentOf,  \* [Effect -> Incident]
  IdemKey,     \* request idempotency keys
  Actor,       \* authenticated local peers that may decide an approval
  FactName,    \* names of the policy facts a caller or the daemon may see
  FactsOf,     \* [FactName -> [snapshot, input, bound]]; bound: the facts
               \* still describe the journaled runbook, target and action
  Loadable,    \* [Effect -> SUBSET FactName]: what StateSource may return
  Expiries,    \* expiry times requests and decisions may carry
  MaxTime      \* bound on the clock

ASSUME ConstantsAssumption ==
  /\ IncidentOf \in [Effect -> Incident]
  /\ "none" \notin Effect \cup IdemKey
  /\ Loadable \in [Effect -> (SUBSET FactName) \ {{}}]
  /\ Expiries \subseteq Nat
  /\ MaxTime \in Nat \ {0}

VARIABLES
  journal,     \* [Effect -> journal record], NoRecord when absent
  index,       \* [IdemKey -> effect it was first used for, or "none"]
  approvals,   \* [Effect -> the command's immutable decision, or NoApproval]
  events,      \* durable lifecycle events
  now,         \* the clock
  call,        \* [Proc -> the coordinator call in flight]
  executions,  \* [Effect -> number of Adapter.Execute calls]
  audited,     \* results of approval decisions in the audit log, per effect
  asked,       \* history: effects journaled as awaiting approval
  cleared      \* history: [Effect -> time of the last check that let it run]

vars == <<journal, index, approvals, events, now, call, executions, audited,
          asked, cleared>>

Phase == {"none", "pending", "awaiting_approval", "approved", "executing",
          "stabilizing", "completed", "verify_and_notify"}

CommandState == {"none", "pending", "approved", "executing", "stabilizing",
                 "succeeded", "failed", "denied", "expired"}

\* A journalRecord: phase, Command.State, whether ApprovalID is set, IssuedAt
\* and ExpiresAt.  Target, action and the reconciliation snapshot are left out.
JournalRecord == [phase : Phase, state : CommandState, approval : BOOLEAN,
                  issued : Nat, expires : Nat]

NoRecord == [phase |-> "none", state |-> "none", approval |-> FALSE,
             issued |-> 0, expires |-> 0]

\* The program points of Submit, Resume and Reconcile between two steps.
Label == {"idle", "analysis", "prepare", "denied", "ask", "check1", "validate",
          "check2", "deny", "expire", "started", "approve", "start", "execute",
          "finish", "uncertain", "reconcile"}

\* The locals of a call: the effect and idempotency key, the prepare decision,
\* the command's IssuedAt, ExpiresAt and ApprovalID as the call read them, and
\* the effects Reconcile has left to visit.
IdleCall == [pc |-> "idle", effect |-> "none", key |-> "none", decision |-> Allowed,
             issued |-> 0, expires |-> 0, approval |-> FALSE, todo |-> {}]

Call == [pc : Label, effect : Effect \cup {"none"}, key : IdemKey \cup {"none"},
         decision : Decisions, issued : Nat, expires : Nat, approval : BOOLEAN,
         todo : SUBSET Effect]

Approval == [decision : {"none", "granted", "denied"}, command : Effect \cup {"none"},
             approver : Actor \cup {"none"}, created : Nat, expires : Nat]

Init ==
  /\ journal = [e \in Effect |-> NoRecord]
  /\ index = [k \in IdemKey |-> "none"]
  /\ approvals = [e \in Effect |-> NoApproval]
  /\ events = {}
  /\ now = 1
  /\ call = [p \in Proc |-> IdleCall]
  /\ executions = [e \in Effect |-> 0]
  /\ audited = [e \in Effect |-> {}]
  /\ asked = {}
  /\ cleared = [e \in Effect |-> 0]

-----------------------------------------------------------------------------
(* Calls and lifecycle events                                              *)

decisions == <<approvals, audited>>
history == <<asked, cleared>>

Goto(p, label) == call' = [call EXCEPT ![p].pc = label]

Return(p) == call' = [call EXCEPT ![p] = IdleCall]

\* lifecycle.StableEventID for an event of a request and of a command.
RequestEventID(type, c) ==
  [type |-> type, incident |-> IncidentOf[c.effect], key |-> c.key]
CommandEventID(type, e) ==
  [type |-> type, incident |-> IncidentOf[e], key |-> e]

LifecycleEvent(id, at, reason) == [id |-> id, at |-> at, reason |-> reason]

\* Publish stores a new event, accepts an identical repeat, and rejects a
\* repeat of the ID with another time or reason (sameEvent).
Publishable(event) == \A stored \in events : stored.id = event.id => stored = event

\* Publish in call p, which goes on to label next.  It may also fail without
\* effect: the queue is full, the context is done, the store fails.
Publish(p, event, next) ==
  \/ /\ Publishable(event)
     /\ events' = events \cup {event}
     /\ IF next = "idle" THEN Return(p) ELSE Goto(p, next)
  \/ /\ Return(p)
     /\ UNCHANGED events

-----------------------------------------------------------------------------
(* Journal transitions (journal.go)                                        *)

\* Mutant: transitionToDenied and approve without the phase check.
UndecidedUnlessCompleted(r) == r.phase # "completed"

\* pending or awaiting approval, not yet decided.
Undecided(r) == r.phase \in {"pending", "awaiting_approval"} /\ r.state = "pending"

\* Mutant: reconciliation also takes finished commands.
IsReconcilablePhaseOrDone(phase) == phase \notin {"none", "awaiting_approval"}

IsReconcilablePhase(phase) == phase \in {"pending", "approved", "executing"}

Approvable(r) == Undecided(r) /\ (r.phase = "awaiting_approval" => r.approval)

\* updateRecord: one transaction that moves the record to phase and state.
Move(e, phase, state) ==
  journal' = [journal EXCEPT ![e] = [@ EXCEPT !.phase = phase, !.state = state]]

\* updateRecord in call p: move the record when the guard holds and go on to
\* next, otherwise return errCommandNotExecutable.
UpdateRecord(p, guard, phase, state, next) ==
  LET e == call[p].effect
  IN  \/ /\ guard
         /\ Move(e, phase, state)
         /\ IF next = "idle" THEN Return(p) ELSE Goto(p, next)
      \/ /\ ~guard
         /\ Return(p)
         /\ UNCHANGED journal

-----------------------------------------------------------------------------
(* Submit (coordinator.go Submit, prepare; journal.go persistPending)      *)

\* Mutant: the idempotency key is reserved before the command is journaled.
SubmitBeginReservesKey(p, e, k, n, x) ==
  /\ call[p].pc = "idle"
  /\ FactsOf[n].bound
  /\ now < x
  /\ index' = [index EXCEPT ![k] = IF @ = "none" THEN e ELSE @]
  /\ call' = [call EXCEPT ![p] = [IdleCall EXCEPT
       !.pc = "prepare", !.effect = e, !.key = k, !.issued = now, !.expires = x,
       !.decision = Evaluate(FactsOf[n].snapshot, FactsOf[n].input, e, now)]]
  /\ UNCHANGED <<journal, decisions, events, now, executions, history>>

\* Validation, the clock and the pure policy evaluation of the request's own
\* facts.  A request that is already expired returns without any effect.
SubmitBegin(p, e, k, n, x) ==
  /\ call[p].pc = "idle"
  /\ FactsOf[n].bound
  /\ now < x
  /\ call' = [call EXCEPT ![p] = [IdleCall EXCEPT
       !.pc = IF FactsOf[n].input.analysisAvailable THEN "prepare" ELSE "analysis",
       !.effect = e, !.key = k, !.issued = now, !.expires = x,
       !.decision = Evaluate(FactsOf[n].snapshot, FactsOf[n].input, e, now)]]
  /\ UNCHANGED <<journal, index, decisions, events, now, executions, history>>

PublishAnalysisUnavailable(p) ==
  /\ call[p].pc = "analysis"
  /\ Publish(p, LifecycleEvent(RequestEventID("analysis_unavailable", call[p]), now,
                               "analysis_unavailable"), "prepare")
  /\ UNCHANGED <<journal, index, decisions, now, executions, history>>

\* A denied request leaves no journal record.
PrepareDenied(p) ==
  /\ call[p].pc = "prepare"
  /\ call[p].decision.verdict = "deny"
  /\ Goto(p, "denied")
  /\ UNCHANGED <<journal, index, decisions, events, now, executions, history>>

PublishPolicyDenied(p) ==
  /\ call[p].pc = "denied"
  /\ Publish(p, LifecycleEvent(RequestEventID("policy_denied", call[p]), now,
                               call[p].decision.reason), "idle")
  /\ UNCHANGED <<journal, index, decisions, now, executions, history>>

Persisting(p) == call[p].pc = "prepare" /\ call[p].decision.verdict # "deny"

\* The key was used for another effect: ErrIdempotencyConflict.  (A key bound
\* to this effect without a record, ErrCorruptJournal, is excluded: IndexSound.)
PersistConflict(p) ==
  /\ Persisting(p)
  /\ index[call[p].key] \notin {"none", call[p].effect}
  /\ Return(p)
  /\ UNCHANGED <<journal, index, decisions, events, now, executions, history>>

\* The effect already has a record: a duplicate delivery, which never
\* executes but repeats the approval request when its own decision waits.
PersistDuplicate(p) ==
  /\ Persisting(p)
  /\ LET c == call[p]
     IN  /\ index[c.key] \in {"none", c.effect}
         /\ journal[c.effect].phase # "none"
         /\ index' = [index EXCEPT ![c.key] = c.effect]
         /\ IF c.decision.verdict = "await_approval"
            THEN call' = [call EXCEPT ![p] =
                   [@ EXCEPT !.pc = "ask", !.issued = journal[c.effect].issued]]
            ELSE Return(p)
  /\ UNCHANGED <<journal, decisions, events, now, executions, history>>

\* The record that Submit journals in phase.  It copies the ApprovalID of an
\* approval in the request, but there is none to copy: prepare creates the
\* command ID itself, approval() denies a request whose approval names any
\* other command, and a denied request is not journaled.
NewRecord(c, phase) ==
  [phase |-> phase, state |-> "pending", approval |-> FALSE,
   issued |-> c.issued, expires |-> c.expires]

\* Mutant: every verdict but deny is journaled as pending and executed.
PersistNewIgnoresWait(p) ==
  /\ Persisting(p)
  /\ index[call[p].key] = "none"
  /\ journal[call[p].effect].phase = "none"
  /\ journal' = [journal EXCEPT ![call[p].effect] = NewRecord(call[p], "pending")]
  /\ index' = [index EXCEPT ![call[p].key] = call[p].effect]
  /\ asked' = IF call[p].decision.verdict = "await_approval"
              THEN asked \cup {call[p].effect} ELSE asked
  /\ Goto(p, "check1")
  /\ UNCHANGED <<decisions, events, now, executions, cleared>>

PersistNew(p) ==
  /\ Persisting(p)
  /\ LET c == call[p]
         waits == c.decision.verdict = "await_approval"
     IN  /\ index[c.key] = "none"
         /\ journal[c.effect].phase = "none"
         /\ journal' = [journal EXCEPT ![c.effect] =
              NewRecord(c, IF waits THEN "awaiting_approval" ELSE "pending")]
         /\ index' = [index EXCEPT ![c.key] = c.effect]
         /\ asked' = IF waits THEN asked \cup {c.effect} ELSE asked
         /\ Goto(p, IF waits THEN "ask" ELSE "check1")
  /\ UNCHANGED <<decisions, events, now, executions, cleared>>

PublishApprovalRequested(p) ==
  /\ call[p].pc = "ask"
  /\ Publish(p, LifecycleEvent(CommandEventID("approval_requested", call[p].effect),
                               call[p].issued, "approval_required"), "idle")
  /\ UNCHANGED <<journal, index, decisions, now, executions, history>>

-----------------------------------------------------------------------------
(* Resume and execute (coordinator.go)                                     *)

\* Resume reads the record; only a waiting command with a decision goes on.
ResumeBegin(p, e) ==
  /\ call[p].pc = "idle"
  /\ journal[e].phase = "awaiting_approval" /\ journal[e].state = "pending"
  /\ journal[e].approval
  /\ call' = [call EXCEPT ![p] = [IdleCall EXCEPT
       !.pc = "check1", !.effect = e, !.issued = journal[e].issued,
       !.expires = journal[e].expires, !.approval = TRUE]]
  /\ UNCHANGED <<journal, index, decisions, events, now, executions, history>>

\* ApprovalStateSource.Load: the daemon's input with the command's durable
\* approval attached; a missing one counts as revoked.
LoadedInput(input, hasApproval, approval) ==
  IF ~hasApproval THEN input
  ELSE IF approval = NoApproval
  THEN [input EXCEPT !.approval = ZeroApproval, !.revoked = TRUE]
  ELSE [input EXCEPT !.approval = approval]

\* revalidateState allows command e at time t on the daemon's facts n.
Revalidates(n, e, hasApproval, approval, t) ==
  /\ FactsOf[n].bound
  /\ Evaluate(FactsOf[n].snapshot,
              LoadedInput(FactsOf[n].input, hasApproval, approval), e, t).verdict = "allow"

\* The next label after a check that allows the command.
Clear(p) ==
  \/ /\ call[p].pc = "check1"
     /\ Goto(p, "validate")
     /\ UNCHANGED cleared
  \/ /\ call[p].pc = "check2"
     /\ Goto(p, "started")
     /\ cleared' = [cleared EXCEPT ![call[p].effect] = now]

\* Mutant: the command's own expiry is not checked again.
RevalidateAllowsExpired(p) ==
  /\ \E n \in Loadable[call[p].effect] :
       Revalidates(n, call[p].effect, call[p].approval, approvals[call[p].effect], now)
  /\ Clear(p)

\* revalidate, before and again after the adapter's own validation.  The
\* daemon's facts may have changed to any it can load since the last look.
RevalidateAllows(p) ==
  /\ now < call[p].expires
  /\ \E n \in Loadable[call[p].effect] :
       Revalidates(n, call[p].effect, call[p].approval, approvals[call[p].effect], now)
  /\ Clear(p)

\* A state source that fails denies the command, whatever the time is.
RevalidateRejects(p) ==
  /\ \/ Goto(p, "deny")
     \/ now >= call[p].expires /\ Goto(p, "expire")
  /\ UNCHANGED cleared

Revalidate(p) ==
  /\ call[p].pc \in {"check1", "check2"}
  /\ RevalidateAllows(p) \/ RevalidateRejects(p)
  /\ UNCHANGED <<journal, index, decisions, events, now, executions, asked>>

\* Adapter.ValidateAction resolves the target in Docker and may refuse.
ValidateAction(p) ==
  /\ call[p].pc = "validate"
  /\ Goto(p, "check2") \/ Goto(p, "deny")
  /\ UNCHANGED <<journal, index, decisions, events, now, executions, history>>

DenyAfterRevalidation(p) ==
  /\ call[p].pc = "deny"
  /\ UpdateRecord(p, Undecided(journal[call[p].effect]), "completed", "denied", "idle")
  /\ UNCHANGED <<index, decisions, events, now, executions, history>>

Expire(p) ==
  /\ call[p].pc = "expire"
  /\ UpdateRecord(p, Undecided(journal[call[p].effect]), "completed", "expired", "idle")
  /\ UNCHANGED <<index, decisions, events, now, executions, history>>

\* Mutant: a failed publish is ignored.
PublishRecoveryStartedBestEffort(p) ==
  /\ call[p].pc = "started"
  /\ Goto(p, "approve")
  /\ UNCHANGED <<journal, index, decisions, events, now, executions, history>>

PublishRecoveryStarted(p) ==
  /\ call[p].pc = "started"
  /\ Publish(p, LifecycleEvent(CommandEventID("recovery_started", call[p].effect), now,
                               "recovery_started"), "approve")
  /\ UNCHANGED <<journal, index, decisions, now, executions, history>>

\* Mutant: the record is not checked again, because the call checked it before.
ApproveUnchecked(p) ==
  /\ call[p].pc = "approve"
  /\ UpdateRecord(p, journal[call[p].effect].phase # "none", "approved", "approved", "start")
  /\ UNCHANGED <<index, decisions, events, now, executions, history>>

Approve(p) ==
  /\ call[p].pc = "approve"
  /\ UpdateRecord(p, Approvable(journal[call[p].effect]), "approved", "approved", "start")
  /\ UNCHANGED <<index, decisions, events, now, executions, history>>

StartExecution(p) ==
  /\ call[p].pc = "start"
  /\ UpdateRecord(p, journal[call[p].effect].phase = "approved",
                  "executing", "executing", "execute")
  /\ UNCHANGED <<index, decisions, events, now, executions, history>>

\* Adapter.Execute restarts the container; an error leaves the result unknown.
Execute(p) ==
  /\ call[p].pc = "execute"
  /\ executions' = [executions EXCEPT ![call[p].effect] = @ + 1]
  /\ Goto(p, "finish") \/ Goto(p, "uncertain")
  /\ UNCHANGED <<journal, index, decisions, events, now, history>>

\* Mutant: a late finish overwrites what Reconcile recorded.
FinishExecutionUnguarded(p) ==
  /\ call[p].pc = "finish"
  /\ UpdateRecord(p, TRUE, "stabilizing", "stabilizing", "idle")
  /\ UNCHANGED <<index, decisions, events, now, executions, history>>

FinishExecution(p) ==
  /\ call[p].pc = "finish"
  /\ UpdateRecord(p, journal[call[p].effect].phase = "executing",
                  "stabilizing", "stabilizing", "idle")
  /\ UNCHANGED <<index, decisions, events, now, executions, history>>

\* markVerifyAndNotify after a failed Execute; the command's state is kept.
MarkUncertain(p) ==
  /\ call[p].pc = "uncertain"
  /\ UpdateRecord(p, IsReconcilablePhase(journal[call[p].effect].phase),
                  "verify_and_notify", journal[call[p].effect].state, "idle")
  /\ UNCHANGED <<index, decisions, events, now, executions, history>>

-----------------------------------------------------------------------------
(* Reconcile and CompleteStabilization (coordinator.go)                    *)

\* reconcilableRecords: one read transaction over the whole journal.
ReconcileBegin(p) ==
  LET found == {e \in Effect : IsReconcilablePhase(journal[e].phase)}
  IN  /\ call[p].pc = "idle"
      /\ found # {}
      /\ call' = [call EXCEPT ![p] = [IdleCall EXCEPT !.pc = "reconcile", !.todo = found]]
      /\ UNCHANGED <<journal, index, decisions, events, now, executions, history>>

\* One record of the list: read Docker, then markVerifyAndNotify.  A record
\* that moved on since the list was read ends the call with an error.
ReconcileOne(p, e) ==
  /\ call[p].pc = "reconcile"
  /\ e \in call[p].todo
  /\ \/ /\ IsReconcilablePhase(journal[e].phase)
        /\ Move(e, "verify_and_notify", journal[e].state)
        /\ IF call[p].todo = {e} THEN Return(p)
           ELSE call' = [call EXCEPT ![p].todo = @ \ {e}]
     \/ /\ ~IsReconcilablePhase(journal[e].phase)
        /\ Return(p)
        /\ UNCHANGED journal
  /\ UNCHANGED <<index, decisions, events, now, executions, history>>

\* The verifier's terminal result; a repeat of it changes nothing.
CompleteStabilization(e, succeeded) ==
  /\ journal[e].phase = "stabilizing"
  /\ Move(e, "completed", IF succeeded THEN "succeeded" ELSE "failed")
  /\ UNCHANGED <<index, decisions, events, now, call, executions, history>>

-----------------------------------------------------------------------------
(* Local approval decisions (approval.go Decide): one transaction, with    *)
(* the clock read at some time t before it.                                *)

Decidable(r) == r.phase = "awaiting_approval" /\ r.state = "pending" /\ ~r.approval

Audit(e, result) == audited' = [audited EXCEPT ![e] = @ \cup {result}]

\* Malformed, unknown, already decided, or outliving its command: the
\* rejection is audited and the command stays as it was.
DecideRejected(e, d, t, x) ==
  /\ \/ d = "malformed"
     \/ ~Decidable(journal[e])
     \/ t < journal[e].expires /\ x > journal[e].expires
  /\ Audit(e, "rejected")
  /\ UNCHANGED <<journal, index, approvals, events, now, call, executions, history>>

\* The command or the decision itself is past its expiry: the command expires.
DecideExpired(e, d, t, x) ==
  /\ d # "malformed"
  /\ Decidable(journal[e])
  /\ t >= journal[e].expires \/ t >= x
  /\ Move(e, "completed", "expired")
  /\ Audit(e, "rejected")
  /\ UNCHANGED <<index, approvals, events, now, call, executions, history>>

\* Mutant: a denial completes the command without recording its ApprovalID.
DecideAcceptedLosesDenial(e, a, d, t, x) ==
  LET r == journal[e]
  IN  /\ d # "malformed"
      /\ Decidable(r)
      /\ t < r.expires /\ t < x /\ x <= r.expires
      /\ approvals' = [approvals EXCEPT ![e] =
           [decision |-> d, command |-> e, approver |-> a, created |-> t, expires |-> x]]
      /\ journal' = [journal EXCEPT ![e] =
           IF d = "denied" THEN [r EXCEPT !.phase = "completed", !.state = "denied"]
           ELSE [r EXCEPT !.approval = TRUE]]
      /\ Audit(e, "accepted")
      /\ UNCHANGED <<index, events, now, call, executions, history>>

\* The decision, the command that points at it and the audit event commit
\* together; a denial also completes the command.
DecideAccepted(e, a, d, t, x) ==
  LET r == journal[e]
  IN  /\ d # "malformed"
      /\ Decidable(r)
      /\ t < r.expires /\ t < x /\ x <= r.expires
      /\ approvals' = [approvals EXCEPT ![e] =
           [decision |-> d, command |-> e, approver |-> a, created |-> t, expires |-> x]]
      /\ journal' = [journal EXCEPT ![e] =
           IF d = "denied"
           THEN [r EXCEPT !.approval = TRUE, !.phase = "completed", !.state = "denied"]
           ELSE [r EXCEPT !.approval = TRUE]]
      /\ Audit(e, "accepted")
      /\ UNCHANGED <<index, events, now, call, executions, history>>

Decide(e, a, d, x) ==
  \E t \in 1 .. now :
    \/ DecideRejected(e, d, t, x)
    \/ DecideExpired(e, d, t, x)
    \/ DecideAccepted(e, a, d, t, x)

-----------------------------------------------------------------------------
(* Environment                                                             *)

\* A store error, a cancelled context or a panic ends one call where it is.
Abort(p) ==
  /\ call[p].pc # "idle"
  /\ Return(p)
  /\ UNCHANGED <<journal, index, decisions, events, now, executions, history>>

\* The process stops: every call is lost, the store and Docker keep their state.
Crash ==
  /\ \E p \in Proc : call[p].pc # "idle"
  /\ call' = [p \in Proc |-> IdleCall]
  /\ UNCHANGED <<journal, index, decisions, events, now, executions, history>>

Tick ==
  /\ now < MaxTime
  /\ now' = now + 1
  /\ UNCHANGED <<journal, index, decisions, events, call, executions, history>>

\* One step of a call in flight.
Step(p) ==
  \/ PublishAnalysisUnavailable(p)
  \/ PrepareDenied(p) \/ PublishPolicyDenied(p)
  \/ PersistConflict(p) \/ PersistDuplicate(p) \/ PersistNew(p)
  \/ PublishApprovalRequested(p)
  \/ Revalidate(p) \/ ValidateAction(p)
  \/ DenyAfterRevalidation(p) \/ Expire(p)
  \/ PublishRecoveryStarted(p) \/ Approve(p) \/ StartExecution(p)
  \/ Execute(p) \/ FinishExecution(p) \/ MarkUncertain(p)
  \/ \E e \in Effect : ReconcileOne(p, e)

Begin(p) ==
  \/ \E e \in Effect, k \in IdemKey, n \in FactName, x \in Expiries :
       SubmitBegin(p, e, k, n, x)
  \/ \E e \in Effect : ResumeBegin(p, e)
  \/ ReconcileBegin(p)

Next ==
  \/ \E p \in Proc : Begin(p) \/ Step(p) \/ Abort(p)
  \/ \E e \in Effect, a \in Actor, d \in {"granted", "denied", "malformed"},
          x \in Expiries :
       Decide(e, a, d, x)
  \/ \E e \in Effect, succeeded \in BOOLEAN : CompleteStabilization(e, succeeded)
  \/ Crash
  \/ Tick

Spec == Init /\ [][Next]_vars

-----------------------------------------------------------------------------
(* Properties                                                              *)

TypeOK ==
  /\ journal \in [Effect -> JournalRecord]
  /\ index \in [IdemKey -> Effect \cup {"none"}]
  /\ approvals \in [Effect -> Approval]
  /\ now \in Nat
  /\ call \in [Proc -> Call]
  /\ executions \in [Effect -> Nat]
  /\ audited \in [Effect -> SUBSET {"accepted", "rejected"}]
  /\ asked \subseteq Effect
  /\ cleared \in [Effect -> Nat]

\* However calls interleave, stop and restart, the adapter is asked to apply
\* one journaled effect at most once (startExecution is the only gate to
\* Adapter.Execute, and no step returns a record to the approved phase).
AtMostOneExecution == \A e \in Effect : executions[e] <= 1

\* The command may still be, or has just been, applied by a call in flight.
Applying(e) == \E p \in Proc : call[p].effect = e /\ call[p].pc = "execute"

\* The journal never lies about Docker: a command that ended denied or expired,
\* or was handed to an operator before it started executing, was not applied
\* and will not be; a command that is stabilizing or has a verified result was
\* applied (validRecordPhase with every path that writes those phases).
OutcomeTruthful ==
  \A e \in Effect :
    LET r == journal[e]
    IN  /\ \/ r.state \in {"denied", "expired"}
           \/ r.phase = "verify_and_notify" /\ r.state \in {"pending", "approved"}
           => executions[e] = 0 /\ ~Applying(e)
        /\ r.state \in {"stabilizing", "succeeded", "failed"} => executions[e] = 1

\* The last check that cleared command e, on its current record.
Authorized(e) ==
  /\ cleared[e] < journal[e].expires
  /\ \E n \in Loadable[e] :
       Revalidates(n, e, journal[e].approval, approvals[e], cleared[e])

\* An executed command passed its last check before it expired, on facts the
\* daemon itself can load and not on those of the request, and with the durable
\* approval when it carries one (revalidate in execute; StateSource "must not
\* derive authorization from the original request").
ExecutionAuthorized == \A e \in Effect : executions[e] > 0 => Authorized(e)

\* A command that was ever journaled as waiting for an approval reaches the
\* adapter only with a durable local grant, whatever the facts say later
\* (Resume, approve, Decide).
GrantedBeforeExecution ==
  \A e \in asked : executions[e] > 0 => approvals[e].decision = "granted"

Announced(e) ==
  \E event \in events : event.id = CommandEventID("recovery_started", e)

\* The recovery_started event is durable before the adapter is called
\* (publishRecoveryStarted precedes approve in execute).
AnnouncedBeforeExecution == \A e \in Effect : executions[e] > 0 => Announced(e)

\* The approval bucket, the command's ApprovalID and the audit log change
\* together (Decide is one store transaction).
DecisionAtomic ==
  \A e \in Effect :
    /\ journal[e].approval <=> approvals[e] # NoApproval
    /\ journal[e].approval <=> "accepted" \in audited[e]

\* Every idempotency key in use leads to a journaled command, so Submit never
\* meets the ErrCorruptJournal branch (persistPending writes both or neither).
IndexSound == \A k \in IdemKey : index[k] # "none" => journal[index[k]].phase # "none"

Terminal(r) == r.phase \in {"completed", "verify_and_notify"}

\* What is settled stays settled across retries, late steps of other calls and
\* restarts: a terminal record, a decision, and the effect a key stands for.
Settled ==
  [][/\ \A e \in Effect : Terminal(journal[e]) => journal'[e] = journal[e]
     /\ \A e \in Effect : approvals[e] # NoApproval => approvals'[e] = approvals[e]
     /\ \A k \in IdemKey : index[k] # "none" => index'[k] = index[k]]_vars

-----------------------------------------------------------------------------
(* Statements of the code's comments that its behaviour does not keep      *)

\* "A repeated EventID is an idempotent duplicate" (lifecycle/publisher.go
\* Publish): a call that publishes recovery_started again, after an earlier
\* call stopped between the event and approve, finds its event acceptable.
RepeatedEventIsDuplicate ==
  \A p \in Proc : call[p].pc = "started" =>
    Publishable(LifecycleEvent(CommandEventID("recovery_started", call[p].effect),
                               now, "recovery_started"))

\* "PublishApprovalRequested records a pending approval for a durable command"
\* (coordinator.go LifecyclePublisher): an approval_requested event belongs to
\* a command that was journaled as waiting for one.
ApprovalRequestedIsPending ==
  \A event \in events, e \in Effect :
    event.id = CommandEventID("approval_requested", e) => e \in asked


-----------------------------------------------------------------------------
(* Refinement                                                              *)

\* What a journal record says about its effect.
StatusOf(r) ==
  IF r.phase = "none" THEN "absent"
  ELSE IF r.state \in {"stabilizing", "succeeded", "failed"} THEN "applied"
  ELSE IF r.state \in {"denied", "expired"} THEN "closed"
  ELSE IF r.phase = "verify_and_notify"
  THEN IF r.state = "executing" THEN "suspected" ELSE "closed"
  ELSE IF r.state = "executing" THEN "committed"
  ELSE "open"

Promise == INSTANCE RecoveryPromise
             WITH status <- [e \in Effect |-> StatusOf(journal[e])],
                  calls <- executions

\* The coordinator, the approvals and the reconciliation together keep the
\* promise: every step of theirs is a step of RecoveryPromise or changes
\* nothing it speaks of.
KeepsPromise == Promise!Spec
=============================================================================
