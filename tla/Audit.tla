------------------------------- MODULE Audit -------------------------------
(***************************************************************************)
(* The audit chain on a store that may be damaged: transactions that call  *)
(* audit.Append around a state change, and faults of the stored bucket.    *)
(***************************************************************************)
EXTENDS AuditChain

CONSTANTS
  Body,        \* what an event says besides its ID
  MaxDamages   \* bound on faults of the store

VARIABLES
  audit,       \* the audit bucket
  changes,     \* audited state changes that were committed
  damages,     \* faults so far
  written      \* history: every content of the bucket that Append committed

vars == <<audit, changes, damages, written>>

Init ==
  /\ audit = <<>>
  /\ changes = 0
  /\ damages = 0
  /\ written = {<<>>}

\* Mutant: a generator that repeats its IDs.
NewAuditEventIDRepeats == 0

\* NewAuditEventID: random, so never one that was used before.
NewAuditEventID == Cardinality(UNION {{w[i].id : i \in DOMAIN w} : w \in written})

\* Mutant: the change is committed although Append returned an error.
AppendKeeps(body, valid, change) ==
  LET result == AppendResult(audit, valid, change)
  IN  /\ changes' = IF change = "works" THEN changes + 1 ELSE changes
      /\ audit' = IF result = "ok" THEN Appended(audit, NewAuditEventID, body) ELSE audit
      /\ written' = written \cup {audit'}
      /\ UNCHANGED damages

\* A transaction around Append: an error rolls back the change and the event.
Append(body, valid, change) ==
  LET result == AppendResult(audit, valid, change)
  IN  /\ IF result = "ok"
         THEN /\ audit' = Appended(audit, NewAuditEventID, body)
              /\ changes' = IF change = "works" THEN changes + 1 ELSE changes
              /\ written' = written \cup {audit'}
         ELSE UNCHANGED <<audit, changes, written>>
      /\ UNCHANGED damages

\* Faults of the stored file: an event is altered, lost, or takes the place of
\* another one.
Damaged ==
  UNION {
    {[audit EXCEPT ![i] = [@ EXCEPT !.body = b]] : i \in DOMAIN audit, b \in Body},
    {[j \in DOMAIN audit \ {i} |-> audit[j]] : i \in DOMAIN audit},
    {[audit EXCEPT ![i] = audit[j]] : i, j \in DOMAIN audit},
    {[audit EXCEPT ![i] = audit[j], ![j] = audit[i]] : i, j \in DOMAIN audit}}

Damage ==
  /\ damages < MaxDamages
  /\ damages' = damages + 1
  /\ \E b \in Damaged \ {audit} : audit' = b
  /\ UNCHANGED <<changes, written>>

Next ==
  \/ \E body \in Body, valid \in BOOLEAN,
        change \in {"none", "works", "fails", "appends"} : Append(body, valid, change)
  \/ Damage

Spec == Init /\ [][Next]_vars

-----------------------------------------------------------------------------
(* Properties                                                              *)

\* Type invariant: the bucket holds events under indices of the key space.
TypeOK ==
  /\ DOMAIN audit \subseteq 0..(MaxIndex - 1)
  /\ \A i \in DOMAIN audit : audit[i].id \in Nat /\ audit[i].body \in Body
  /\ changes \in Nat

\* readChain accepts nothing that Append has not written: after any faults of the
\* store, a bucket that is accepted holds the first events of a chain that was
\* committed, each as it was written.
OnlyWrittenAccepted ==
  ReadChain(audit) =>
    \E w \in written : /\ DOMAIN audit \subseteq DOMAIN w
                       /\ \A i \in DOMAIN audit : audit[i] = w[i]

\* Append commits a state change exactly when it commits an event for it on a
\* chain that reads back without error, so that a damaged chain stops audited
\* changes before they are applied (ValidateChain's comment).
ChangesOnValidChain ==
  [][changes' # changes =>
       /\ ReadChain(audit)
       /\ NextIndex(audit') = NextIndex(audit) + 1
       /\ \A i \in DOMAIN audit : audit'[i] = audit[i]]_vars

\* While the generators return fresh IDs and the store keeps what it was given,
\* every chain Append leaves behind is one that the next Append accepts.
AppendKeepsChainValid == damages = 0 => ReadChain(audit)
=============================================================================
