--------------------------- MODULE RecoveryPromise ---------------------------
(***************************************************************************)
(* What internal/recovery promises about each recovery effect, without     *)
(* calls, approvals, policy or time.  A journaled effect is open until it  *)
(* is closed for good or committed.  Only a committed effect is applied,   *)
(* at most once; it then is either confirmed, or suspected and left to an  *)
(* operator, in which case the one application may still be under way.     *)
(***************************************************************************)
EXTENDS Naturals

CONSTANT Effect

VARIABLES
  status,  \* [Effect -> Status]
  calls    \* [Effect -> applications of the effect]

pvars == <<status, calls>>

Status == {"absent", "open", "closed", "committed", "suspected", "applied"}

Init ==
  /\ status = [e \in Effect |-> "absent"]
  /\ calls = [e \in Effect |-> 0]

Change(e, from, to) ==
  /\ status[e] = from
  /\ status' = [status EXCEPT ![e] = to]
  /\ UNCHANGED calls

\* persistPending
Admit(e) == Change(e, "absent", "open")

\* denied, expired, or reconciled before its execution started
Close(e) == Change(e, "open", "closed")

\* startExecution
Commit(e) == Change(e, "open", "committed")

\* Adapter.Execute, possibly after a concurrent Reconcile
Apply(e) ==
  /\ status[e] \in {"committed", "suspected"}
  /\ calls[e] = 0
  /\ calls' = [calls EXCEPT ![e] = 1]
  /\ UNCHANGED status

\* finishExecution
Confirm(e) == calls[e] = 1 /\ Change(e, "committed", "applied")

\* markVerifyAndNotify of an executing command
Suspect(e) == Change(e, "committed", "suspected")

Next ==
  \E e \in Effect :
    Admit(e) \/ Close(e) \/ Commit(e) \/ Apply(e) \/ Confirm(e) \/ Suspect(e)

Spec == Init /\ [][Next]_pvars
=============================================================================
