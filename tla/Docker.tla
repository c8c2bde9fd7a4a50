------------------------------- MODULE Docker -------------------------------
(***************************************************************************)
(* internal/docker: the adapter that resolves a target to one container,   *)
(* observes it, reads its logs and restarts it.  Goroutines share the      *)
(* adapter; the first call negotiates the API version under a mutex that   *)
(* is held over the request.  The Docker Engine is external: containers    *)
(* come and go between any two requests of a call.                         *)
(***************************************************************************)
EXTENDS Naturals

CONSTANTS
  Callers,    \* goroutines
  IDs,        \* container IDs; the engine uses each once
  Names,      \* container names
  Services,   \* values of the Compose service label
  Operations, \* the operations that are called
  Nobody      \* no caller: the mutex is free; and no target

\* What the constants have to satisfy.
DockerAssumption ==
  /\ Operations \subseteq {"observe", "evidence", "validate", "execute"}
  /\ Nobody \notin Callers

VARIABLES
  containers,  \* the engine's containers
  used,        \* IDs the engine has given out
  negotiated,  \* the field of the adapter
  mutex,       \* its holder
  negotiations,\* history: negotiations that succeeded, counted up to 2
  calls        \* the last call of each goroutine

engine == <<containers, used>>
adapter == <<negotiated, mutex, negotiations>>
vars == <<engine, adapter, calls>>

Targets == [kind : {"container"}, value : Names] \cup [kind : {"compose_service"}, value : Services]

\* found is what the selector matched when it was resolved; restarted is history:
\* the containers that the call restarted.
NewCall(op, target, pc, result) ==
  [op |-> op, target |-> target, pc |-> pc, found |-> {}, restarted |-> {}, result |-> result]

Init ==
  /\ containers = {}
  /\ used = {}
  /\ negotiated = FALSE
  /\ mutex = Nobody
  /\ negotiations = 0
  /\ calls = [p \in Callers |-> NewCall("none", Nobody, "idle", "none")]

At(p, pc) == calls[p].pc = pc
Goto(p, pc) == calls' = [calls EXCEPT ![p].pc = pc]
Return(p, result) == calls' = [calls EXCEPT ![p].pc = "idle", ![p].result = result]

-----------------------------------------------------------------------------
(* The engine                                                              *)

Create(id, name, service) ==
  /\ id \notin used
  /\ \A c \in containers : c.name # name
  /\ containers' = containers \cup {[id |-> id, name |-> name, service |-> service, running |-> TRUE]}
  /\ used' = used \cup {id}
  /\ UNCHANGED <<adapter, calls>>

Remove(c) ==
  /\ containers' = containers \ {c}
  /\ UNCHANGED <<used, adapter, calls>>

Toggle(c) ==
  /\ containers' = (containers \ {c}) \cup {[c EXCEPT !.running = ~@]}
  /\ UNCHANGED <<used, adapter, calls>>

Matches(target) ==
  {c \in containers : target.value = IF target.kind = "container" THEN c.name ELSE c.service}

-----------------------------------------------------------------------------
(* The adapter                                                             *)

\* A call whose target, rule or action is not accepted is rejected at once; the
\* other calls go to negotiate.
Begin(p, op, target, accepted) ==
  /\ At(p, "idle")
  /\ calls' = [calls EXCEPT ![p] =
       IF accepted THEN NewCall(op, target, "lock", "none")
                   ELSE NewCall(op, target, "idle", "rejected")]
  /\ UNCHANGED <<engine, adapter>>

\* Mutant: the mutex is not held over the request.
LockBriefly(p) ==
  /\ At(p, "lock") /\ mutex = Nobody
  /\ Goto(p, IF negotiated THEN "resolve" ELSE "negotiate")
  /\ UNCHANGED <<engine, adapter>>

\* negotiate takes the mutex, and keeps it when there is a request to make.
Lock(p) ==
  /\ At(p, "lock") /\ mutex = Nobody
  /\ IF negotiated
     THEN Goto(p, "resolve") /\ UNCHANGED mutex
     ELSE Goto(p, "negotiate") /\ mutex' = p
  /\ UNCHANGED <<engine, negotiated, negotiations>>

Negotiate(p) ==
  /\ At(p, "negotiate")
  /\ negotiated' = TRUE
  /\ negotiations' = IF negotiations < 2 THEN negotiations + 1 ELSE 2
  /\ mutex' = Nobody
  /\ Goto(p, "resolve")
  /\ UNCHANGED engine

\* Mutant: the call tries the negotiation again, for as long as it takes.
NegotiateFailsRetries(p) ==
  /\ At(p, "negotiate")
  /\ mutex' = Nobody
  /\ Goto(p, "lock")
  /\ UNCHANGED <<engine, negotiated, negotiations>>

\* The request fails or its deadline passes.
NegotiateFails(p) ==
  /\ At(p, "negotiate")
  /\ mutex' = Nobody
  /\ Return(p, "unavailable")
  /\ UNCHANGED <<engine, negotiated, negotiations>>

\* What a call does with the container that it resolved.
Use(p, c) ==
  LET call == calls[p]
  IN  calls' = [calls EXCEPT ![p].found = Matches(call.target),
        ![p].pc = CASE call.op = "evidence" -> "logs"
                    [] call.op = "execute" /\ c.running -> "restart"
                    [] OTHER -> "idle",
        ![p].result = CASE call.op = "observe" -> "ok"
                        [] call.op = "evidence" -> "none"
                        [] call.op = "validate" -> IF c.running THEN "ok" ELSE "rejected"
                        [] call.op = "execute" -> IF c.running THEN "none" ELSE "rejected"]

\* resolve: Inspect or ListByLabel, and the container that it must find.
Resolve(p) ==
  /\ At(p, "resolve")
  /\ IF \E c \in containers : Matches(calls[p].target) = {c}
     THEN \E c \in Matches(calls[p].target) : Use(p, c)
     ELSE Return(p, IF calls[p].target.kind = "container" THEN "unavailable" ELSE "rejected")
  /\ UNCHANGED <<engine, adapter>>

\* A request fails, its deadline passes or the caller gives up.
RequestFails(p) ==
  /\ calls[p].pc \in {"resolve", "logs", "restart"}
  /\ Return(p, "unavailable")
  /\ UNCHANGED <<engine, adapter>>

\* The logs are read; Collect makes evidence of them or fails.
Logs(p) ==
  /\ At(p, "logs")
  /\ \E result \in {"ok", "rejected"} : Return(p, result)
  /\ UNCHANGED <<engine, adapter>>

\* Mutant: the selector is restarted, and not the container that was resolved.
RestartBySelector(p) ==
  /\ At(p, "restart")
  /\ Matches(calls[p].target) # {}
  /\ \E c \in Matches(calls[p].target) :
       calls' = [calls EXCEPT ![p].restarted = @ \cup {c.id}, ![p].pc = "idle", ![p].result = "ok"]
  /\ UNCHANGED <<engine, adapter>>

\* Mutant: a lost answer is taken for a refusal.
RestartMisreports(p) ==
  /\ At(p, "restart")
  /\ calls' = [calls EXCEPT ![p].restarted = {c.id : c \in calls[p].found}, ![p].pc = "idle",
                            ![p].result = "rejected"]
  /\ UNCHANGED <<engine, adapter>>

\* The engine restarts the container by its ID, whatever became of it; the answer
\* may be lost.  A container that is gone is an error.
Restart(p) ==
  LET ids   == {c.id : c \in calls[p].found}
      alive == {c \in containers : c.id \in ids}
  IN  /\ At(p, "restart")
      /\ alive # {}
      /\ containers' = (containers \ alive) \cup {[c EXCEPT !.running = TRUE] : c \in alive}
      /\ \E result \in {"ok", "unavailable"} :
           calls' = [calls EXCEPT ![p].restarted = @ \cup ids, ![p].pc = "idle", ![p].result = result]
      /\ UNCHANGED <<used, adapter>>

Answer(p) ==
  \/ Negotiate(p) \/ NegotiateFails(p) \/ Resolve(p) \/ RequestFails(p)
  \/ Logs(p) \/ Restart(p)

Next ==
  \/ \E id \in IDs, name \in Names, service \in Services : Create(id, name, service)
  \/ \E c \in containers : Remove(c) \/ Toggle(c)
  \/ \E p \in Callers : Lock(p) \/ Answer(p)
  \/ \E p \in Callers, op \in Operations, target \in Targets, accepted \in BOOLEAN :
       Begin(p, op, target, accepted)

Spec == Init /\ [][Next]_vars

-----------------------------------------------------------------------------
(* Properties                                                              *)

\* Type invariant; the mutex is held exactly by the call that negotiates.
TypeOK ==
  /\ containers \subseteq [id : used, name : Names, service : Services, running : BOOLEAN]
  /\ used \subseteq IDs
  /\ negotiated \in BOOLEAN
  /\ \A p \in Callers : mutex = p <=> At(p, "negotiate")
  /\ \A p \in Callers : calls[p].pc \in {"idle", "lock", "negotiate", "resolve", "logs", "restart"}

\* The version is negotiated once, and before any other request, whichever of the
\* concurrent first calls gets the mutex and however often it fails (negotiate).
NegotiatedOnceBefore ==
  /\ negotiations <= 1
  /\ \A p \in Callers : calls[p].pc \in {"resolve", "logs", "restart"} => negotiations = 1

\* A call restarts no more than one container, and only the one that its selector
\* matched alone when the call resolved it, though others match by the time of the
\* restart (Execute restarts by ID).
RestartsTheResolved ==
  \A p \in Callers :
    /\ \A id, other \in calls[p].restarted : id = other
    /\ calls[p].restarted # {} =>
         calls[p].op = "execute" /\ {c.id : c \in calls[p].found} = calls[p].restarted

\* A call that reports success has restarted its container, and one that was
\* rejected (ambiguous, not running, unsafe) has not; only an unavailable engine
\* leaves it open.
ResultTruthful ==
  \A p \in Callers : calls[p].op = "execute" /\ At(p, "idle") =>
    /\ calls[p].result = "ok" => calls[p].restarted # {}
    /\ calls[p].result = "rejected" => calls[p].restarted = {}

\* Every call returns, also those that wait for the mutex behind a negotiation
\* that fails.
CallsReturn == \A p \in Callers : ~At(p, "idle") ~> At(p, "idle")
=============================================================================
