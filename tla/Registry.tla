------------------------------ MODULE Registry ------------------------------
(***************************************************************************)
(* internal/target/registry.go and internal/runbook/runbook.go: the two    *)
(* registries of the daemon, which share the store and its audit chain.    *)
(* A registration and its audit event are one transaction.  The target     *)
(* registry also keeps a snapshot in memory, which it replaces after the   *)
(* transaction, under its lock, and loads again at every start.            *)
(***************************************************************************)
EXTENDS AuditChain

CONSTANTS
  Proc,        \* goroutines that register targets (IPC connections)
  TargetID,    \* target IDs
  RunbookID,   \* runbook IDs
  Configs,     \* configurations: [allowed : SUBSET TargetID, max : Nat]
  MaxStops     \* bound on restarts

\* What the constants have to satisfy.
RegistryAssumption ==
  /\ \A c \in Configs : c.allowed \subseteq TargetID /\ c.max \in Nat \ {0}
  /\ "none" \notin Proc \cup TargetID

VARIABLES
  targets,     \* BucketServiceTargets: [TargetID -> version], 0 when absent
  runbooks,    \* BucketRunbooks: the registered IDs
  audit,       \* BucketAudit
  config,      \* the configuration of the process, or of the next start
  up,          \* the daemon has loaded its registry and accepts registrations
  snapshot,    \* the registry's snapshot in memory
  mu,          \* holder of the registry's lock, or "none"
  call,        \* [Proc -> target being registered and how far]
  views,       \* history: the snapshots observers were given
  stops        \* restarts so far

stored == <<targets, runbooks, audit>>
vars == <<stored, config, up, snapshot, mu, call, views, stops>>

Snapshot == [version : Nat, targets : SUBSET TargetID]
EmptySnapshot == [version |-> 0, targets |-> {}]
IdleCall == [pc |-> "idle", target |-> "none"]

Stored == {t \in TargetID : targets[t] > 0}

Body(aggregate, result) == <<aggregate, result>>

\* Mutant: every event has the same ID.
AppendAuditReuses(aggregate, result) ==
  audit' = Appended(audit, 0, Body(aggregate, result))

\* appendAudit in the current transaction, with a fresh event ID.
AppendAudit(aggregate, result) ==
  audit' = Appended(audit, NextIndex(audit), Body(aggregate, result))

CanAppend == AppendResult(audit, TRUE, "works") = "ok"

\* Mutant: a restart numbers the snapshot by the targets it found.
LoadedCounts == [version |-> 1, targets |-> Stored]

\* load: every stored target must be valid under this start's configuration.
Loadable(c) == Stored \subseteq c.allowed /\ Cardinality(Stored) <= c.max

\* The snapshot load builds: the version is the highest stored one.
Loaded ==
  [version |-> CHOOSE v \in {0} \cup {targets[t] : t \in TargetID} :
                 \A t \in TargetID : targets[t] <= v,
   targets |-> Stored]

Init ==
  /\ targets = [t \in TargetID |-> 0]
  /\ runbooks = {}
  /\ audit = <<>>
  /\ config \in Configs
  /\ up = FALSE
  /\ snapshot = EmptySnapshot
  /\ mu = "none"
  /\ call = [p \in Proc |-> IdleCall]
  /\ views = {}
  /\ stops = 0

-----------------------------------------------------------------------------
(* Target registration                                                     *)

\* validateTarget rejects the target: one transaction with the audit event,
\* without the lock.  Besides the allowlist, any of its fields may be wrong.
RegisterInvalid(t) ==
  /\ up
  /\ CanAppend
  /\ AppendAudit(t, "rejected")
  /\ UNCHANGED <<targets, runbooks, config, up, snapshot, mu, call, views, stops>>

\* Mutant: the registration does not lock.
RegisterUnlocked(p, t) ==
  /\ up
  /\ call[p].pc = "idle"
  /\ t \in config.allowed
  /\ call' = [call EXCEPT ![p] = [pc |-> "commit", target |-> t]]
  /\ UNCHANGED <<stored, config, up, snapshot, mu, views, stops>>

Register(p, t) ==
  /\ up
  /\ call[p].pc = "idle"
  /\ t \in config.allowed
  /\ mu = "none"
  /\ mu' = p
  /\ call' = [call EXCEPT ![p] = [pc |-> "commit", target |-> t]]
  /\ UNCHANGED <<stored, config, up, snapshot, views, stops>>

Unlock(p) ==
  /\ mu' = IF mu = p THEN "none" ELSE mu
  /\ call' = [call EXCEPT ![p] = IdleCall]

\* Mutant: the limit counts the target that is to come as if it were there.
AtLimitLate == Cardinality(snapshot.targets) > config.max

AtLimit == Cardinality(snapshot.targets) >= config.max

\* The transaction of a duplicate, or of a target above the limit.
CommitRejected(p) ==
  /\ call[p].pc = "commit"
  /\ call[p].target \in Stored \/ AtLimit
  /\ CanAppend
  /\ AppendAudit(call[p].target, "rejected")
  /\ Unlock(p)
  /\ UNCHANGED <<targets, runbooks, config, up, snapshot, views, stops>>

\* Mutant: the target is stored in a transaction before that of its event.
CommitEarly(p) ==
  LET t == call[p].target
  IN  /\ call[p].pc = "commit"
      /\ t \notin Stored /\ ~AtLimit
      /\ targets' = [targets EXCEPT ![t] = snapshot.version + 1]
      /\ IF CanAppend THEN AppendAudit(t, "accepted") ELSE UNCHANGED audit
      /\ call' = [call EXCEPT ![p].pc = "publish"]
      /\ UNCHANGED <<runbooks, config, up, snapshot, mu, views, stops>>

\* The transaction that stores the target under the next version, with its event.
Commit(p) ==
  LET t == call[p].target
  IN  /\ call[p].pc = "commit"
      /\ t \notin Stored /\ ~AtLimit
      /\ CanAppend
      /\ targets' = [targets EXCEPT ![t] = snapshot.version + 1]
      /\ AppendAudit(t, "accepted")
      /\ call' = [call EXCEPT ![p].pc = "publish"]
      /\ UNCHANGED <<runbooks, config, up, snapshot, mu, views, stops>>

\* The transaction fails and is rolled back: the chain is full, or the store
\* refuses it.
CommitFails(p) ==
  /\ call[p].pc = "commit"
  /\ Unlock(p)
  /\ UNCHANGED <<stored, config, up, snapshot, views, stops>>

\* The new snapshot, after the transaction and still under the lock.
Publish(p) ==
  /\ call[p].pc = "publish"
  /\ snapshot' = [version |-> snapshot.version + 1,
                  targets |-> snapshot.targets \cup {call[p].target}]
  /\ Unlock(p)
  /\ UNCHANGED <<stored, config, up, views, stops>>

\* Snapshot, as the observer and the ingress read it under the read lock.
ReadSnapshot ==
  /\ up
  /\ mu = "none"
  /\ views' = views \cup {snapshot}
  /\ UNCHANGED <<stored, config, up, snapshot, mu, call, stops>>

-----------------------------------------------------------------------------
(* Runbook registration, and the life of the process                       *)

\* One transaction under the runbook registry's own lock.
RegisterRunbook(r) ==
  /\ up
  /\ CanAppend
  /\ runbooks' = runbooks \cup {r}
  /\ AppendAudit(r, IF r \in runbooks THEN "rejected" ELSE "accepted")
  /\ UNCHANGED <<targets, config, up, snapshot, mu, call, views, stops>>

\* NewRegistry: a start whose configuration rejects a stored target fails.
Start ==
  /\ ~up
  /\ Loadable(config)
  /\ up' = TRUE
  /\ snapshot' = Loaded
  /\ UNCHANGED <<stored, config, mu, call, views, stops>>

\* The operator edits the configuration file of a daemon that is down, also of
\* one that a start refused.
Configure ==
  /\ ~up
  /\ config' \in Configs
  /\ UNCHANGED <<stored, up, snapshot, mu, call, views, stops>>

\* The process stops between any two steps.
Stop ==
  /\ stops < MaxStops
  /\ stops' = stops + 1
  /\ up' = FALSE
  /\ snapshot' = EmptySnapshot
  /\ mu' = "none"
  /\ call' = [p \in Proc |-> IdleCall]
  /\ UNCHANGED <<stored, config, views>>

Next ==
  \/ \E t \in TargetID : RegisterInvalid(t)
  \/ \E p \in Proc, t \in TargetID : Register(p, t)
  \/ \E p \in Proc : CommitRejected(p) \/ Commit(p) \/ CommitFails(p) \/ Publish(p)
  \/ \E r \in RunbookID : RegisterRunbook(r)
  \/ ReadSnapshot
  \/ Start
  \/ Configure
  \/ Stop

Spec == Init /\ [][Next]_vars

-----------------------------------------------------------------------------
(* Properties                                                              *)

\* Type invariant; the audit chain of the registries reads back without error.
TypeOK ==
  /\ targets \in [TargetID -> Nat]
  /\ runbooks \subseteq RunbookID
  /\ ReadChain(audit)
  /\ config \in Configs
  /\ snapshot \in Snapshot
  /\ views \subseteq Snapshot
  /\ call \in [Proc -> [pc : {"idle", "commit", "publish"}, target : TargetID \cup {"none"}]]

Accepted(aggregate) == {i \in DOMAIN audit : audit[i].body = Body(aggregate, "accepted")}

\* Register commits a target or a runbook together with its audit event: what is
\* stored has exactly one accepted event and what is not stored has none, after
\* duplicates, failed transactions and process stops between any two steps.
RegistrationsAudited ==
  /\ \A t \in TargetID : Cardinality(Accepted(t)) = IF t \in Stored THEN 1 ELSE 0
  /\ \A r \in RunbookID : Cardinality(Accepted(r)) = IF r \in runbooks THEN 1 ELSE 0

\* Whenever the lock is free the snapshot shows exactly the stored targets, under
\* the version of the last stored one, and a restart would load the same.
SnapshotCurrent == up /\ mu = "none" => snapshot = Loaded

\* "TargetSnapshotVersion identifies the immutable target-registry snapshot"
\* (contracts.go:302): two snapshots that Snapshot returned under one version hold
\* the same targets, also before and after a restart.
VersionIdentifiesSnapshot ==
  \A v, w \in views : v.version = w.version => v = w

\* A registration never stores what the next start with the same configuration
\* would refuse to load: the limit and the allowlist hold for the stored targets
\* of a running daemon.
RestartLoads == up => Loadable(config)
=============================================================================
