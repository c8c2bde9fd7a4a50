----------------------------- MODULE AuditChain -----------------------------
(***************************************************************************)
(* internal/audit/chain.go as operators on the contents of the audit       *)
(* bucket: a function from keys (eventKey of an index, ordered like the    *)
(* index) to stored events.  Every component that changes audited state    *)
(* does it inside Append, in one store transaction.                        *)
(*                                                                         *)
(* SHA-256 over the canonical event is taken to be injective: the digest   *)
(* of an event is the tuple of what the canonical form holds, in which the *)
(* previous digest is nested.                                              *)
(***************************************************************************)
EXTENDS Naturals, FiniteSets, TLC

CONSTANT MaxIndex    \* math.MaxUint64: the last index of the key space

\* What the constants have to satisfy.
MaxIndexAssumption == MaxIndex \in Nat

NoDigest == <<>>

\* CanonicalDigest: every field but the digest itself.
CanonicalDigest(event) == <<event.id, event.body, event.previous>>

\* decodeEvent: the stored document is well formed and its digest its own.
Intact(event) == event.digest = CanonicalDigest(event)

NextIndex(bucket) == Cardinality(DOMAIN bucket)

PreviousDigest(bucket, i) == IF i = 0 THEN NoDigest ELSE bucket[i - 1].digest

\* Mutant: events are checked one by one, without their links.
ReadChainUnlinked(bucket) ==
  /\ DOMAIN bucket = 0..(NextIndex(bucket) - 1)
  /\ \A i \in DOMAIN bucket : Intact(bucket[i])

\* readChain: the keys are the first indices, every event is intact and linked
\* to the one before it, and no event ID occurs twice.
ReadChain(bucket) ==
  /\ DOMAIN bucket = 0..(NextIndex(bucket) - 1)
  /\ \A i \in DOMAIN bucket :
       /\ Intact(bucket[i])
       /\ bucket[i].previous = PreviousDigest(bucket, i)
       /\ \A j \in DOMAIN bucket : bucket[i].id = bucket[j].id => i = j

Event(bucket, id, body) ==
  LET event == [id |-> id, body |-> body,
                previous |-> PreviousDigest(bucket, NextIndex(bucket))]
  IN  event @@ [digest |-> CanonicalDigest(event)]

\* Mutant: the end of the key space is not looked at.
AppendResultUnbounded(bucket, valid, change) ==
  IF ReadChain(bucket) /\ valid /\ change \in {"none", "works"} THEN "ok"
  ELSE "ErrChainInvalid"

\* The error Append returns before, during or after the change, or "ok".  The
\* change is "none", one that works, one that fails, or one that writes an audit
\* record of its own.  validateEventFields is the flag valid.
AppendResult(bucket, valid, change) ==
  CASE ~ReadChain(bucket) -> "ErrChainInvalid"
    [] ReadChain(bucket) /\ ~valid -> "ErrInvalidEvent"
    [] ReadChain(bucket) /\ valid /\ change = "fails" -> "change failed"
    [] ReadChain(bucket) /\ valid /\ change = "appends" -> "ErrChainInvalid"
    [] ReadChain(bucket) /\ valid /\ change \in {"none", "works"} ->
         IF NextIndex(bucket) = MaxIndex THEN "ErrChainCapacity" ELSE "ok"

\* The bucket after an Append that was committed.
Appended(bucket, id, body) ==
  bucket @@ (NextIndex(bucket) :> Event(bucket, id, body))
=============================================================================
