------------------------------ MODULE Ingress ------------------------------
(***************************************************************************)
(* internal/alert/ingress.go and internal/webhook/standard.go: external    *)
(* monitors send signed alerts, Accept takes each webhook ID once and      *)
(* keeps a receipt of it for Retention.                                    *)
(*                                                                         *)
(* Accept reads the clock once and uses that reading for the signature's   *)
(* tolerance, for the receipt it looks up, for the receipts it expires and *)
(* for the receipt it writes, in steps between which other calls run.  The *)
(* sender signs an alert again, under its ID, whenever it likes, and any   *)
(* copy of what it sent may be delivered any number of times.              *)
(***************************************************************************)
EXTENDS Naturals, Sequences

CONSTANTS
  Calls,      \* concurrent calls of Accept
  IDs,        \* webhook IDs
  Malformed,  \* the IDs whose body decode or validateIncoming refuses
  Tolerance,  \* DefaultTolerance (five minutes in the code), inclusive
  Retention,  \* how long a receipt lives: 24 hours by default, a minute at least
  Registry,   \* the values registered takes
  Skew,       \* how far the sender's clock may be ahead
  MaxTime,    \* bound on the clock
  MaxSecret   \* bound on the secrets that are ever deployed

ASSUME IngressAssumption ==
  /\ {Tolerance, Retention, Skew, MaxTime, MaxSecret} \subseteq Nat
  /\ Retention > 0
  /\ Malformed \subseteq IDs /\ Registry \subseteq BOOLEAN

VARIABLES
  now,        \* the wall clock
  registered, \* the registry holds the alert's target and rule, enabled
  signer,     \* secrets of the sender's Keyring: the current one, or it and the previous
  verifier,   \* secrets of the ingress's Keyring
  sent,       \* the messages the sender has signed
  receipts,   \* BucketIngressReceipts: [id, expires]
  calls,      \* calls of Accept in progress
  audited,    \* reasons of the alert.reject events in the audit log
  accepted    \* history: the alerts Accept took, in commit order

vars == <<now, registered, signer, verifier, sent, receipts, calls, audited, accepted>>

Message == [id : IDs, at : Nat, keys : SUBSET Nat]

Receipt == [id : IDs, expires : Nat]

Idle == [phase |-> "idle"]

Call == [phase : {"verified", "checked", "normalized"}, id : IDs, signed : Nat, at : Nat]

\* A taken alert: when it was signed, when its call read the clock, and when the
\* call committed.
Acceptance == [id : IDs, signed : Nat, at : Nat, done : Nat]

Reasons == {"invalid_signature", "invalid_payload", "unknown_target_or_rule"}

Init ==
  /\ now = 0
  /\ registered \in Registry
  /\ signer = {0} /\ verifier = {0}
  /\ sent = {}
  /\ receipts = {}
  /\ calls = [c \in Calls |-> Idle]
  /\ audited = {}
  /\ accepted = <<>>

-----------------------------------------------------------------------------
(* Keyring                                                                 *)

Current(keyring) == CHOOSE k \in keyring : \A other \in keyring : other <= k

\* Mutant: only the current secret signs.
SignCurrent(keyring, id, at) == [id |-> id, at |-> at, keys |-> {Current(keyring)}]

\* Sign: one signature for every secret of the keyring.
Sign(keyring, id, at) == [id |-> id, at |-> at, keys |-> keyring]

WithinTolerance(at, clock) == clock <= at + Tolerance /\ at <= clock + Tolerance

\* parseSignatures and the HMAC comparison: the secrets that signed the message.
Signatures(m) == m.keys

\* VerifyWithTolerance: a signature by any secret of the keyring will do.
Verify(keyring, m, clock) == WithinTolerance(m.at, clock) /\ Signatures(m) \cap keyring # {}

-----------------------------------------------------------------------------
(* Accept                                                                  *)

\* Mutant: the error stands for the reason.
RecordRejectedError(reason) == audited' \in {audited, audited \cup {"ErrInvalidAlert"}}

\* recordRejected, which may fail itself.
RecordRejected(reason) == audited' \in {audited, audited \cup {reason}}

\* Up to keyring.Verify.
Begin(c, m) ==
  /\ calls[c] = Idle
  /\ IF Verify(verifier, m, now)
     THEN /\ calls' = [calls EXCEPT ![c] =
                         [phase |-> "verified", id |-> m.id, signed |-> m.at, at |-> now]]
          /\ UNCHANGED audited
     ELSE /\ RecordRejected("invalid_signature")
          /\ UNCHANGED calls
  /\ UNCHANGED <<now, registered, signer, verifier, sent, receipts, accepted>>

Goto(c, phase) == calls' = [calls EXCEPT ![c] = [calls[c] EXCEPT !.phase = phase]]

\* The call ends; ServeHTTP answers 202, or 401 for every error.
Leave(c) == calls' = [calls EXCEPT ![c] = Idle]

\* The context ends before the receipts are read, or the store fails.
Cancel(c) ==
  /\ calls[c].phase \in {"verified", "normalized"}
  /\ Leave(c)
  /\ UNCHANGED <<now, registered, signer, verifier, sent, receipts, audited, accepted>>

HasActiveReceipt(id, clock) == \E r \in receipts : r.id = id /\ r.expires > clock

\* Mutant: the receipt is written before the alert is known to be valid.
CheckReserves(c) ==
  /\ calls[c].phase = "verified"
  /\ Goto(c, "checked")
  /\ receipts' = receipts \cup {[id |-> calls[c].id, expires |-> calls[c].at + Retention]}
  /\ UNCHANGED <<now, registered, signer, verifier, sent, audited, accepted>>

\* hasActiveReceipt: ErrReplay.
Check(c) ==
  /\ calls[c].phase = "verified"
  /\ IF HasActiveReceipt(calls[c].id, calls[c].at) THEN Leave(c) ELSE Goto(c, "checked")
  /\ UNCHANGED <<now, registered, signer, verifier, sent, receipts, audited, accepted>>

\* decode and validateIncoming.
Decodes(id) == id \notin Malformed

\* normalize: the snapshot of the registry has the target, enabled, with the rule.
Known(id) == registered

Normalize(c) ==
  /\ calls[c].phase = "checked"
  /\ IF ~Decodes(calls[c].id)
     THEN RecordRejected("invalid_payload") /\ Leave(c)
     ELSE IF ~Known(calls[c].id)
     THEN RecordRejected("unknown_target_or_rule") /\ Leave(c)
     ELSE Goto(c, "normalized") /\ UNCHANGED audited
  /\ UNCHANGED <<now, registered, signer, verifier, sent, receipts, accepted>>

\* Mutant: a receipt is expired a tick before its time has come.
UnexpiredEarly(clock) == {r \in receipts : r.expires > clock + 1}

\* The receipts a call that read clock leaves.
Unexpired(clock) == {r \in receipts : r.expires > clock}

\* A commit now, by a call that read the clock earlier.
Taken(call) == [id |-> call.id, signed |-> call.signed, at |-> call.at, done |-> now]

\* Mutant: the transaction does not look for a receipt of a concurrent call.
CommitBlind(c) ==
  LET call == calls[c]
  IN  /\ call.phase = "normalized"
      /\ receipts' = Unexpired(call.at) \cup {[id |-> call.id, expires |-> call.at + Retention]}
      /\ accepted' = Append(accepted, Taken(call))
      /\ Leave(c)
      /\ UNCHANGED <<now, registered, signer, verifier, sent, audited>>

\* The transaction: it rolls back with ErrReplay when a receipt is found.
Commit(c) ==
  LET call == calls[c]
      kept == Unexpired(call.at)
  IN  /\ call.phase = "normalized"
      /\ IF \E r \in kept : r.id = call.id
         THEN UNCHANGED <<receipts, accepted>>
         ELSE /\ receipts' = kept \cup {[id |-> call.id, expires |-> call.at + Retention]}
              /\ accepted' = Append(accepted,
                               Taken(call))
      /\ Leave(c)
      /\ UNCHANGED <<now, registered, signer, verifier, sent, audited>>

-----------------------------------------------------------------------------
(* The sender, the operator and time                                       *)

\* The sender signs an alert, for the first time or again; its clock may be ahead,
\* and every copy of what it signed may still arrive.
Send(id) ==
  /\ \E at \in now..(now + Skew) :
       sent' = sent \cup {Sign(signer, id, at)}
  /\ UNCHANGED <<now, registered, signer, verifier, receipts, calls, audited, accepted>>

\* The target is registered, disabled and enabled again.
Register ==
  /\ registered' \in Registry \ {registered}
  /\ UNCHANGED <<now, signer, verifier, sent, receipts, calls, audited, accepted>>

\* A restart ends every call; receipts are durable.
Restart == calls' = [c \in Calls |-> Idle]

\* Rotation as docs/operations.md describes it.  A side that has one secret takes
\* the next one and keeps the old one as previous, unless that would put it two
\* secrets ahead of the other side.
Rotated(keyring, other) ==
  {{k, k + 1} : k \in {k \in keyring : keyring = {k} /\ k \in other /\ k < MaxSecret}}

\* The previous secret is removed once both sides have the new one and nothing
\* signed without it can still be verified.
Retired(keyring, other) ==
  {{k} : k \in {k \in keyring : /\ k = Current(keyring) /\ keyring # {k} /\ k \in other
                                /\ \A m \in sent : k \in m.keys \/ now > m.at + Tolerance}}

DeploySigner ==
  /\ signer' \in Rotated(signer, verifier) \cup Retired(signer, verifier)
  /\ UNCHANGED <<now, registered, verifier, sent, receipts, calls, audited, accepted>>

DeployVerifier ==
  /\ verifier' \in Rotated(verifier, signer) \cup Retired(verifier, signer)
  /\ Restart
  /\ UNCHANGED <<now, registered, signer, sent, receipts, audited, accepted>>

Crash ==
  /\ \E c \in Calls : calls[c] # Idle
  /\ Restart
  /\ UNCHANGED <<now, registered, signer, verifier, sent, receipts, audited, accepted>>

Tick ==
  /\ now < MaxTime
  /\ now' = now + 1
  /\ UNCHANGED <<registered, signer, verifier, sent, receipts, calls, audited, accepted>>

Next ==
  \/ \E c \in Calls : \/ \E m \in sent : Begin(c, m)
                      \/ Cancel(c) \/ Check(c) \/ Normalize(c) \/ Commit(c)
  \/ \E id \in IDs : Send(id)
  \/ Register \/ DeploySigner \/ DeployVerifier \/ Crash \/ Tick

Spec == Init /\ [][Next]_vars

-----------------------------------------------------------------------------
(* Properties                                                              *)

\* Type invariant.
TypeOK ==
  /\ now \in Nat
  /\ registered \in BOOLEAN
  /\ signer \in SUBSET Nat /\ verifier \in SUBSET Nat
  /\ sent \in SUBSET Message
  /\ receipts \in SUBSET Receipt
  /\ calls \in [Calls -> Call \cup {Idle}]
  /\ audited \in SUBSET Reasons
  /\ accepted \in Seq(Acceptance)

\* The j-th acceptance takes the ID of the i-th again.
Again(i, j) == i < j /\ accepted[i].id = accepted[j].id

\* However often a signed message is delivered, to however many concurrent calls
\* and across restarts, Accept takes it a second time only when the retention is
\* no longer than twice the signature tolerance plus the time that the second call
\* took from reading the clock to its commit; with the retention of a day that is
\* the default, not unless a call lasts for almost a day.
AcceptedOnce ==
  \A i, j \in 1..Len(accepted) :
    Again(i, j) /\ accepted[i].signed = accepted[j].signed =>
      Retention <= 2 * Tolerance + (accepted[j].done - accepted[j].at)

\* An ID is not taken again, signed again or not, while its receipt lives: the
\* second commit is the retention after the first call's clock reading.
AcceptancesFarApart ==
  \A i, j \in 1..Len(accepted) :
    Again(i, j) => accepted[i].at + Retention <= accepted[j].done

\* A receipt, which makes Accept answer ErrReplay, exists only for an alert that
\* was taken: one that was refused or abandoned on the way can be sent again.
ReplayMeansAccepted ==
  \A r \in receipts :
    \E i \in 1..Len(accepted) : accepted[i].id = r.id /\ r.expires = accepted[i].at + Retention

\* Accept: an alert is refused as a replay only when it was taken before, and
\* taken again only when its receipt has expired.
ReceiptsSound == TypeOK /\ AcceptancesFarApart /\ ReplayMeansAccepted

\* Rotation on both sides, in any order, never makes the ingress refuse a message
\* that is within the tolerance: Sign uses, and Verify tries, every secret.
RotationKeepsTraffic ==
  \A m \in sent : WithinTolerance(m.at, now) => Verify(verifier, m, now)

-----------------------------------------------------------------------------
(* A statement of the documentation that the code does not keep            *)

\* docs/operations.md: the receiver records the IDs it has accepted in durable
\* receipts and refuses a replay of the same ID.  Here only a replay of the very
\* same signed message is looked at.
ReplayRefused ==
  \A i, j \in 1..Len(accepted) :
    Again(i, j) => accepted[i].signed # accepted[j].signed
=============================================================================
