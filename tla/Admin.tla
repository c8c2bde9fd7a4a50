------------------------------- MODULE Admin -------------------------------
(***************************************************************************)
(* internal/adminipc: one administrative request from the client's call to *)
(* its answer.  The life of the server is in module Standalone, the        *)
(* registries are in Registry and the approvals in Recovery; here they are *)
(* what a request may change.                                              *)
(*                                                                         *)
(* Client and server go on by themselves: a client that gave up, or whose  *)
(* connection was cut, does not stop the goroutine that serves it.         *)
(***************************************************************************)
EXTENDS Naturals, FiniteSets

CONSTANTS
  Admins,       \* administrators; each has one request in flight at most
  Allowed,      \* those on both allowlists
  Operations,   \* the operations they use
  Supported,    \* the operations the server has a manager for
  Formed,       \* whether requests arrive whole, a set of Booleans
  Expiries,     \* ExpiresAt values of decisions
  CommandExpiry,\* ExpiresAt of the one recovery command
  BackupSize,   \* length of a snapshot, in writes
  MaxRequests,  \* bound on requests
  MaxTime       \* bound on the clock

\* What the constants have to satisfy.
AdminAssumption ==
  /\ Allowed \subseteq Admins
  /\ Operations \subseteq {"status", "backup", "target.register", "runbook.register",
                           "approval.grant", "approval.deny", "incident.list", "incident.show"}
  /\ Formed \subseteq BOOLEAN
  /\ Expiries \subseteq Nat \ {0}
  /\ {CommandExpiry, BackupSize} \subseteq Nat \ {0}
  /\ {MaxRequests, MaxTime} \subseteq Nat

VARIABLES
  requests,  \* the requests that were sent, by their number
  command,   \* the durable state of the recovery command
  version,   \* accepted registrations
  audit,     \* audit events: [request, result]
  now        \* the clock

vars == <<requests, command, version, audit, now>>

Decisions == {"approval.grant", "approval.deny"}
Registrations == {"target.register", "runbook.register"}

\* Where the goroutine of a connection is, and what the client knows.
Stages == {"dialed", "read", "route", "answer", "stream", "closed"}
Outcomes == {"waiting", "streaming", "success", "rejected", "unavailable", "truncated"}
Responses == {"none", "success", "failure"}

\* clock is the time that Decide reads before its transaction, received counts
\* the writes of a backup that reached the client, and changed is history: the
\* request changed the command or a registry.
Request == [admin : Admins, op : Operations, expires : Expiries \cup {0}, wellFormed : BOOLEAN,
            stage : Stages, clock : 0..MaxTime, response : Responses,
            sent : 0..BackupSize, received : 0..BackupSize,
            outcome : Outcomes, changed : BOOLEAN]

Numbers == DOMAIN requests

\* A server that NewServer has just made, with the managers it was given: approvals
\* that hold one recovery command or none, and registries without registrations.
Init ==
  /\ requests = <<>>
  /\ command \in {"missing", "awaiting"}
  /\ version = 0
  /\ audit = {}
  /\ now = 1

Is(n, stage) == requests[n].stage = stage

Audited(n, result) == audit' = audit \cup {[request |-> n, result |-> result]}

\* The goroutine goes on to write a response.
Respond(n, response) ==
  requests' = [requests EXCEPT ![n].stage = "answer", ![n].response = response]

\* The goroutine returns without a response; its connection is closed.
Hangup(n) == requests' = [requests EXCEPT ![n].stage = "closed"]

durable == <<command, version>>

-----------------------------------------------------------------------------
(* The client sends a request                                              *)

\* Client.request up to writeMessage, over a new connection.
Send(a, op, expires, wellFormed) ==
  LET n == Cardinality(Numbers) + 1
  IN  /\ n <= MaxRequests
      /\ \A m \in Numbers : requests[m].admin = a => requests[m].outcome \notin {"waiting", "streaming"}
      /\ requests' = [m \in 1..n |-> IF m < n THEN requests[m] ELSE
           [admin |-> a, op |-> op, expires |-> expires, wellFormed |-> wellFormed,
            stage |-> "dialed", clock |-> 0, response |-> "none", sent |-> 0, received |-> 0,
            outcome |-> "waiting", changed |-> FALSE]]
      /\ UNCHANGED <<durable, audit, now>>

-----------------------------------------------------------------------------
(* serveConnection                                                         *)

\* The socket is no longer the server's, or the deadline cannot be set.
Refuse(n) ==
  /\ Is(n, "dialed")
  /\ Hangup(n)
  /\ UNCHANGED <<durable, audit, now>>

\* Mutant: a peer counts as authorized when its credentials are known.
AuthorizeAny(n) ==
  /\ Is(n, "dialed")
  /\ requests' = [requests EXCEPT ![n].stage = "read"]
  /\ UNCHANGED <<durable, audit, now>>

\* The peer's credentials, and authorized.  A peer that is not allowed is told
\* so after an audit event.
Authorize(n) ==
  /\ Is(n, "dialed")
  /\ \/ /\ Respond(n, "failure")
        /\ UNCHANGED audit
     \/ /\ requests[n].admin \notin Allowed
        /\ Audited(n, "rejected")
        /\ Respond(n, "failure")
     \/ /\ requests[n].admin \in Allowed
        /\ requests' = [requests EXCEPT ![n].stage = "read"]
        /\ UNCHANGED audit
  /\ UNCHANGED <<durable, now>>

\* The message is whole, and the request validates.
Decoded(n) == requests[n].wellFormed

\* readMessage and decodeRequest, and the clock of the manager.
Read(n) ==
  /\ Is(n, "read")
  /\ IF Decoded(n)
     THEN /\ requests' = [requests EXCEPT ![n].stage = "route",
            ![n].clock = IF requests[n].op \in Decisions THEN now ELSE 0]
          /\ UNCHANGED audit
     ELSE /\ Audited(n, "rejected")
          /\ Respond(n, "failure")
  /\ UNCHANGED <<durable, now>>

-----------------------------------------------------------------------------
(* route                                                                   *)

Routed(n, ops) == Is(n, "route") /\ requests[n].op \in ops

Reads == {"status", "backup", "incident.list", "incident.show"}

\* appendAudit fails: serveConnection or route returns without a response.
AuditFails(n) ==
  /\ \/ Is(n, "dialed") /\ requests[n].admin \notin Allowed
     \/ Is(n, "read") /\ ~Decoded(n)
     \/ Routed(n, Reads \cup ((Registrations \cup Decisions) \ Supported))
  /\ Hangup(n)
  /\ UNCHANGED <<durable, audit, now>>

\* Mutant: a request is answered before it is audited.
AnswerReadsUnaudited(n) ==
  /\ Routed(n, Reads)
  /\ Respond(n, "success")
  /\ UNCHANGED <<durable, audit, now>>

\* A status, a backup, a page or an incident is audited, then answered.
AnswerRead(n) ==
  /\ Routed(n, Reads)
  /\ Audited(n, "accepted")
  /\ Respond(n, "success")
  /\ UNCHANGED <<durable, now>>

\* A list that cannot be read is answered without an audit event.
ListFails(n) ==
  /\ Routed(n, {"incident.list"})
  /\ Respond(n, "failure")
  /\ UNCHANGED <<durable, audit, now>>

ShowFails(n) ==
  /\ Routed(n, {"incident.show"})
  /\ Audited(n, "rejected")
  /\ Respond(n, "failure")
  /\ UNCHANGED <<durable, now>>

Unsupported(n) ==
  /\ Routed(n, (Registrations \cup Decisions) \ Supported)
  /\ Audited(n, "rejected")
  /\ Respond(n, "failure")
  /\ UNCHANGED <<durable, now>>

\* Mutant: a rejected registration takes a version.
RegisterBumps(n) ==
  /\ Routed(n, Registrations \cap Supported)
  /\ version' = version + 1
  /\ Audited(n, "rejected")
  /\ Respond(n, "failure")
  /\ UNCHANGED <<command, now>>

\* Register of either registry: accepted with its audit event in one transaction,
\* rejected with one, or failed without.
Register(n) ==
  /\ Routed(n, Registrations \cap Supported)
  /\ \/ /\ version' = version + 1
        /\ Audited(n, "accepted")
        /\ requests' = [requests EXCEPT ![n].stage = "answer", ![n].response = "success",
                                        ![n].changed = TRUE]
     \/ Audited(n, "rejected") /\ Respond(n, "failure") /\ UNCHANGED version
     \/ Respond(n, "failure") /\ UNCHANGED <<version, audit>>
  /\ UNCHANGED <<command, now>>

Decision(op) == IF op = "approval.grant" THEN "granted" ELSE "denied"

\* Mutant: a later decision replaces an earlier one.
DecideAgain(n) ==
  /\ Routed(n, Decisions \cap Supported)
  /\ requests[n].clock < CommandExpiry
  /\ command' = Decision(requests[n].op)
  /\ Audited(n, "accepted")
  /\ requests' = [requests EXCEPT ![n].stage = "answer", ![n].response = "success",
                                  ![n].changed = TRUE]
  /\ UNCHANGED <<version, now>>

\* ApprovalManager.Decide: of a command that awaits a decision, an expired one is
\* expired in the store, as is one that the decision comes too late for; an expiry
\* beyond that of the command is rejected, and so is a decision on a command that
\* is missing or was decided.
Decide(n) ==
  LET r == requests[n]
      expired == r.clock >= CommandExpiry \/ r.clock >= r.expires
  IN  /\ Routed(n, Decisions \cap Supported)
      /\ IF command = "awaiting" /\ expired
         THEN /\ command' = "expired"
              /\ Audited(n, "rejected")
              /\ requests' = [requests EXCEPT ![n].stage = "answer", ![n].response = "failure",
                                              ![n].changed = TRUE]
         ELSE IF command # "awaiting" \/ r.expires > CommandExpiry
         THEN /\ Audited(n, "rejected")
              /\ Respond(n, "failure")
              /\ UNCHANGED command
         ELSE /\ command' = Decision(r.op)
              /\ Audited(n, "accepted")
              /\ requests' = [requests EXCEPT ![n].stage = "answer", ![n].response = "success",
                                              ![n].changed = TRUE]
      /\ UNCHANGED <<version, now>>

\* The transaction of Decide fails.
DecideFails(n) ==
  /\ Routed(n, Decisions \cap Supported)
  /\ Respond(n, "failure")
  /\ UNCHANGED <<durable, audit, now>>

-----------------------------------------------------------------------------
(* The answer                                                              *)

\* writeMessage; a backup goes on with the snapshot.
Write(n) ==
  /\ Is(n, "answer")
  /\ requests' = [requests EXCEPT ![n].stage =
       IF requests[n].op = "backup" /\ requests[n].response = "success" THEN "stream" ELSE "closed"]
  /\ UNCHANGED <<durable, audit, now>>

\* writeMessage fails: the document is too large, the client is gone, the
\* deadline has passed or the server closes.
WriteFails(n) ==
  /\ Is(n, "answer")
  /\ requests' = [requests EXCEPT ![n].stage = "closed", ![n].response = "none"]
  /\ UNCHANGED <<durable, audit, now>>

Stream(n) ==
  /\ Is(n, "stream")
  /\ requests' = [requests EXCEPT ![n].sent = @ + 1,
                                  ![n].stage = IF requests[n].sent + 1 = BackupSize THEN "closed" ELSE @]
  /\ UNCHANGED <<durable, audit, now>>

StreamFails(n) ==
  /\ Is(n, "stream")
  /\ Hangup(n)
  /\ UNCHANGED <<durable, audit, now>>

\* The client reads the response.
Receive(n) ==
  LET r == requests[n]
  IN  /\ r.outcome = "waiting"
      /\ r.stage \in {"stream", "closed"}
      /\ requests' = [requests EXCEPT ![n].outcome =
           CASE r.response = "none" -> "unavailable"
             [] r.response = "failure" -> "rejected"
             [] r.response = "success" -> IF r.op = "backup" THEN "streaming" ELSE "success"]
      /\ UNCHANGED <<durable, audit, now>>

\* Mutant: the client takes what comes until the connection is closed.
CopyAll(n) ==
  LET r == requests[n]
  IN  /\ r.outcome = "streaming"
      /\ r.stage = "closed"
      /\ requests' = [requests EXCEPT ![n].received = r.sent, ![n].outcome = "success"]
      /\ UNCHANGED <<durable, audit, now>>

\* io.CopyN: exactly the announced number of bytes, or an error.
CopyN(n) ==
  LET r == requests[n]
  IN  /\ r.outcome = "streaming"
      /\ r.sent = BackupSize \/ r.stage = "closed"
      /\ requests' = [requests EXCEPT ![n].received = r.sent,
           ![n].outcome = IF r.sent = BackupSize THEN "success" ELSE "truncated"]
      /\ UNCHANGED <<durable, audit, now>>

\* The client's deadline passes or its context is cancelled; the server goes on.
GiveUp(n) ==
  /\ requests[n].outcome \in {"waiting", "streaming"}
  /\ requests' = [requests EXCEPT ![n].outcome =
       IF requests[n].outcome = "waiting" THEN "unavailable" ELSE "truncated"]
  /\ UNCHANGED <<durable, audit, now>>

Tick ==
  /\ now < MaxTime
  /\ now' = now + 1
  /\ UNCHANGED <<requests, durable, audit>>

Route(n) ==
  \/ AnswerRead(n) \/ ListFails(n) \/ ShowFails(n) \/ Unsupported(n)
  \/ Register(n) \/ Decide(n) \/ DecideFails(n)

\* All requests of the bound have been served and answered or given up.
Rest ==
  /\ Cardinality(Numbers) = MaxRequests /\ now = MaxTime
  /\ \A n \in Numbers : Is(n, "closed") /\ requests[n].outcome \notin {"waiting", "streaming"}
  /\ UNCHANGED vars

Next ==
  \/ \E a \in Admins, op \in Operations, wellFormed \in Formed :
       \E expires \in IF op \in Decisions THEN Expiries ELSE {0} : Send(a, op, expires, wellFormed)
  \/ \E n \in Numbers :
       \/ Refuse(n) \/ Authorize(n) \/ Read(n) \/ AuditFails(n) \/ Route(n)
       \/ Write(n) \/ WriteFails(n) \/ Stream(n) \/ StreamFails(n)
       \/ Receive(n) \/ CopyN(n) \/ GiveUp(n)
  \/ Tick \/ Rest

Spec == Init /\ [][Next]_vars

-----------------------------------------------------------------------------
(* Properties                                                              *)

\* Type invariant.
TypeOK ==
  /\ Numbers = 1..Cardinality(Numbers)
  /\ \A n \in Numbers : requests[n] \in Request
  /\ command \in {"missing", "awaiting", "granted", "denied", "expired"}
  /\ version = Cardinality({n \in Numbers : requests[n].changed /\ requests[n].op \in Registrations})
  /\ audit \subseteq [request : Numbers, result : {"accepted", "rejected"}]
  /\ now \in 1..MaxTime

\* A client that is told of success has its request in the audit log as accepted,
\* whatever happened to the connection (route audits before it answers).
SuccessAudited ==
  \A n \in Numbers : requests[n].outcome = "success" =>
    [request |-> n, result |-> "accepted"] \in audit

\* Of decisions that race, that are repeated after a lost answer or that come
\* after their client gave up, one at most is accepted, and it is what the
\* command says (Decide finds the command awaiting approval).
OneDecision ==
  LET accepted == {n \in Numbers : requests[n].op \in Decisions /\
                                   [request |-> n, result |-> "accepted"] \in audit}
  IN  /\ Cardinality(accepted) <= 1
      /\ \A n \in accepted : command = Decision(requests[n].op)

\* The command and the registries change only for a request that was well formed
\* and whose peer is allowed, and together with an audit event of that request.
ChangesAudited ==
  \A n \in Numbers : requests[n].changed =>
    /\ requests[n].admin \in Allowed
    /\ requests[n].wellFormed
    /\ \E result \in {"accepted", "rejected"} : [request |-> n, result |-> result] \in audit

\* Backup succeeds only with the whole snapshot that the server announced.
BackupWhole ==
  \A n \in Numbers : requests[n].op = "backup" /\ requests[n].outcome = "success" =>
    requests[n].received = BackupSize
=============================================================================
