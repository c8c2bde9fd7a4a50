------------------------------ MODULE MCDaemon ------------------------------
(***************************************************************************)
(* What the daemon keeps and serves, for TLC: the store file (Store), the  *)
(* audit chain (Audit) and the registries that write it (Registry),        *)
(* reports and events with their queue items (Publishing), the life of     *)
(* the daemon (Standalone) and the requests it serves (Admin).             *)
(*                                                                         *)
(* A behaviour is one of a single part, named by part, while the others    *)
(* stay in an initial state: what one part does with another is, in its    *)
(* own module, a choice among all that the other may answer.               *)
(***************************************************************************)
EXTENDS Store, FiniteSets, TLC

CONSTANTS
  Pair,        \* two goroutines, processes, connections or administrators
  Publishers   \* two publishers, or two units of admitted work

VARIABLES
  part,
  audit, changes, damages, written,                                             \* Audit
  targets, runbooks, chain, config, up, snapshot, mu, call, views, stops,       \* Registry
  reports, events, queue, publishClock, calls, reportMu, lifecycle,             \* Publishing
  socket, swapped, main, accepted, closer, cancelled, server, conns, service, work,
  store, result,                                                                \* Standalone
  requests, command, version, adminAudit, now                                   \* Admin

\* Backups from elsewhere: of an older and of a newer version, without a bucket,
\* with a bucket and no version, and with a bucket of a later version.
Elsewhere ==
  {Content(1, {1}, 1, 1, TRUE), Content(4, 1..4, 1, 0, TRUE), Content(3, 2..3, 1, 0, TRUE),
   Content(0, {1}, 1, 0, TRUE), Content(1, {1, 3}, 1, 0, TRUE)}

Audit == INSTANCE Audit WITH MaxIndex <- 3, Body <- {"b1", "b2"}, MaxDamages <- 2

\* A configuration for every target, one that allows fewer targets than there
\* are, and one that no longer allows a target.
Registry == INSTANCE Registry WITH audit <- chain, MaxIndex <- 4, Proc <- Pair,
  TargetID <- {"t1", "t2"}, RunbookID <- {"r1"}, MaxStops <- 2,
  Configs <- {[allowed |-> {"t1", "t2"}, max |-> 2], [allowed |-> {"t1", "t2"}, max |-> 1],
              [allowed |-> {"t2"}, max |-> 2]}

\* Inputs of two identities, two of which share one, and differ in their content.
Input(id, occurred, analysis, cited) ==
  [id |-> id, occurred |-> occurred, analysis |-> analysis, unavailable |-> ~analysis,
   refs |-> {"a"}, cited |-> cited, safe |-> TRUE]
Inputs == {Input("closed", 1, TRUE, {"b"}), Input("closed", 0, FALSE, {}), Input("failed", 0, FALSE, {})}

\* Two calls and two publishers, and one call over the end of the lifetime.
Racing == INSTANCE Publishing WITH now <- publishClock, mu <- reportMu, Calls <- Pair,
  Requests <- Inputs, TTL <- 1, MaxQueueItems <- 2, MaxRefs <- 2, MaxTime <- 1
Aging == INSTANCE Publishing WITH now <- publishClock, mu <- reportMu, Calls <- {"c"},
  Requests <- Inputs, TTL <- 1, MaxQueueItems <- 2, MaxRefs <- 2, MaxTime <- 3

Standalone == INSTANCE Standalone WITH path <- socket, Clients <- Pair, Workers <- Publishers

\* Every operation once, two requests of several, and two decisions.
Each == INSTANCE Admin WITH audit <- adminAudit, Admins <- Pair \cup {"x"}, Allowed <- Pair,
  Operations <- {"status", "backup", "target.register", "runbook.register",
                 "approval.grant", "approval.deny", "incident.list", "incident.show"},
  Supported <- {"target.register", "approval.grant"}, Formed <- BOOLEAN,
  Expiries <- {2}, CommandExpiry <- 3, BackupSize <- 2, MaxRequests <- 1, MaxTime <- 3
Mixed == INSTANCE Admin WITH audit <- adminAudit, Admins <- Pair \cup {"x"}, Allowed <- Pair,
  Operations <- {"backup", "target.register", "runbook.register", "approval.grant"},
  Supported <- {"target.register", "approval.grant"}, Formed <- {TRUE},
  Expiries <- {2}, CommandExpiry <- 2, BackupSize <- 2, MaxRequests <- 2, MaxTime <- 1
Deciding == INSTANCE Admin WITH audit <- adminAudit, Admins <- Pair, Allowed <- Pair,
  Operations <- {"approval.grant", "approval.deny"},
  Supported <- {"approval.grant", "approval.deny"}, Formed <- {TRUE},
  Expiries <- {2, 3}, CommandExpiry <- 2, BackupSize <- 1, MaxRequests <- 2, MaxTime <- 2

ASSUME InstancesSound ==
  /\ Audit!MaxIndexAssumption
  /\ Registry!MaxIndexAssumption /\ Registry!RegistryAssumption
  /\ Racing!PublishingAssumption /\ Aging!PublishingAssumption
  /\ Each!AdminAssumption /\ Mixed!AdminAssumption /\ Deciding!AdminAssumption

Parts == {"store", "restores", "audit", "registry", "racing", "aging", "standalone",
          "each", "mixed", "deciding"}

auditVars == <<audit, changes, damages, written>>
registryVars == <<targets, runbooks, chain, config, up, snapshot, mu, call, views, stops>>
publishingVars == <<reports, events, queue, publishClock, calls, reportMu, lifecycle>>
standaloneVars == <<socket, swapped, main, accepted, closer, cancelled, server, conns, service,
                    work, store, result>>
adminVars == <<requests, command, version, adminAudit, now>>

MCInit ==
  /\ part \in Parts
  /\ Init
  /\ CASE part = "store" -> TRUE
       [] part = "restores" -> path = 1 /\ disk[1].version = CurrentSchemaVersion
       [] OTHER -> path = 0
  /\ Audit!Init
  /\ Registry!Init
  /\ part # "registry" => config = [allowed |-> {"t2"}, max |-> 2]
  /\ IF part = "aging" THEN Aging!Init ELSE Racing!Init
  /\ Standalone!Init
  /\ part # "standalone" => socket = "none"
  /\ Each!Init
  /\ part \notin {"each", "mixed", "deciding"} => command = "missing"

\* Once a third file is made, in the part restores a second one, there are no
\* transactions and no backups any more.
\* In the part store nothing is set aside, and a third file is made only by an Open
\* of the path.  In the part restores the backups are those of the first store,
\* which is set aside and restored, and none are from elsewhere.
StoreScope ==
  LET quiet == Len(disk') > IF part = "store" THEN 2 ELSE 1
  IN  /\ quiet => \A p \in Procs : procs'[p].pc # "update" /\ procs'[p].view = {}
      /\ part = "store" => (quiet \/ path # 0 => path' # 0)
      /\ part = "restores" =>
           \A f \in 2..Len(disk') :
             disk'[f] \in {Damaged, NewFile, backup.content,
                          Content(CurrentSchemaVersion, 1..CurrentSchemaVersion, 0, 0, TRUE)}

MCNext ==
  \/ /\ part \in {"store", "restores"} /\ Next /\ StoreScope
     /\ UNCHANGED <<part, auditVars, registryVars, publishingVars, standaloneVars, adminVars>>
  \/ /\ part = "audit" /\ Audit!Next
     /\ UNCHANGED <<part, vars, registryVars, publishingVars, standaloneVars, adminVars>>
  \/ /\ part = "registry" /\ Registry!Next
     /\ UNCHANGED <<part, vars, auditVars, publishingVars, standaloneVars, adminVars>>
  \/ /\ \/ part = "racing" /\ Racing!Next
        \/ part = "aging" /\ Aging!Next
     /\ UNCHANGED <<part, vars, auditVars, registryVars, standaloneVars, adminVars>>
  \/ /\ part = "standalone" /\ Standalone!Next
     /\ UNCHANGED <<part, vars, auditVars, registryVars, publishingVars, adminVars>>
  \/ /\ \/ part = "each" /\ Each!Next
        \/ part = "mixed" /\ Mixed!Next
        \/ part = "deciding" /\ Deciding!Next
     /\ UNCHANGED <<part, vars, auditVars, registryVars, publishingVars, standaloneVars>>

MCSpec == MCInit /\ [][MCNext]_<<part, vars, auditVars, registryVars, publishingVars,
                                 standaloneVars, adminVars>>

Symmetry == Permutations(Pair) \cup Permutations(Publishers)

-----------------------------------------------------------------------------
(* Properties.  The parts state and explain each conjunct.                 *)

\* Append: after faults only what Append wrote is accepted, and Append leaves a
\* chain that the next Append accepts.
AuditSound == Audit!TypeOK /\ Audit!OnlyWrittenAccepted /\ Audit!AppendKeepsChainValid

\* Register: what is registered has exactly one accepted event, the snapshot shows
\* the stored targets, its version stands for one snapshot across restarts, and
\* nothing is stored that the next start would refuse to load.
RegistrySound ==
  /\ Registry!TypeOK
  /\ Registry!RegistrationsAudited
  /\ Registry!SnapshotCurrent /\ Registry!VersionIdentifiesSnapshot
  /\ Registry!RestartLoads

\* PublishTerminal: every payload has one queue item and every item one payload,
\* no terminal event stands without its report, and success means both are stored.
PublishingSound ==
  IF part = "aging"
  THEN Aging!TypeOK /\ Aging!OneItemPerPayload /\ Aging!ReportBeforeEvent /\ Aging!SuccessMeansPair
  ELSE Racing!TypeOK /\ Racing!OneItemPerPayload /\ Racing!ReportBeforeEvent /\ Racing!SuccessMeansPair

\* RunWithConfig, Close: the store is open while a connection is served, nil means
\* drained and closed, and when it has returned the daemon's own socket is gone or
\* the result is an error.
ShutdownSound ==
  /\ Standalone!TypeOK
  /\ Standalone!StoreOutlivesRequests
  /\ Standalone!NilMeansDrained
  /\ Standalone!SocketReleased

\* serveConnection, route, Client.Backup, Decide: success and every change are
\* audited, changes are made only for allowed peers, a backup that succeeds is
\* whole, and of several decisions one at most is accepted.
AdminSound ==
  /\ part = "each" => Each!TypeOK /\ Each!SuccessAudited /\ Each!ChangesAudited /\ Each!BackupWhole
  /\ part = "mixed" => Mixed!TypeOK /\ Mixed!SuccessAudited /\ Mixed!ChangesAudited /\ Mixed!BackupWhole
  /\ part = "deciding" =>
       Deciding!TypeOK /\ Deciding!SuccessAudited /\ Deciding!ChangesAudited /\ Deciding!OneDecision

\* Restore never replaces an existing store; schema upgrades are atomic and keep
\* the records (migrate); no audited change is committed on a damaged chain
\* (Append); what others put at the socket's path stays (Close).
NothingDestroyed ==
  /\ NeverOverwritten /\ UpgradeAtomic
  /\ Audit!ChangesOnValidChain
  /\ Standalone!ForeignPathKept
=============================================================================
