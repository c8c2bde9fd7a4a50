------------------------------ MODULE Evidence ------------------------------
(***************************************************************************)
(* internal/evidence: Collect bounds and redacts local records.  A record  *)
(* is the length of its redacted line, whether it lies in the requested    *)
(* range, and whether it can be redacted at all.  The loop is modelled     *)
(* record by record and compared with a definition of what it selects.     *)
(***************************************************************************)
EXTENDS Naturals, SequencesExt

CONSTANTS
  Sizes,      \* lengths of redacted lines; 0 is a record without allowed fields
  MaxRecords, \* bound on the records of a call
  LineLimits, \* values of MaxLines
  ByteLimits  \* values of MaxBytes

\* What the constants have to satisfy.
EvidenceAssumption ==
  /\ Sizes \subseteq Nat
  /\ MaxRecords \in Nat
  /\ LineLimits \cup ByteLimits \subseteq Nat \ {0}

VARIABLES
  records,  \* the argument of Collect
  maxLines, maxBytes,
  next,     \* the record that the loop looks at
  lines,    \* lengths of the lines that were taken
  size,     \* bytes counted so far
  result    \* "none", "collected", "failed" or "invalid"

vars == <<records, maxLines, maxBytes, next, lines, size, result>>

Record == [size : Sizes, inRange : BOOLEAN, redactable : BOOLEAN]

Init ==
  /\ records \in BoundedSeq(Record, MaxRecords)
  /\ maxLines \in LineLimits
  /\ maxBytes \in ByteLimits
  /\ next = 1
  /\ lines = <<>>
  /\ size = 0
  /\ result = "none"

input == <<records, maxLines, maxBytes>>

\* The loop is at a record of the range and has room for another line.
At == result = "none" /\ next <= Len(records)
Looks == At /\ records[next].inRange /\ Len(lines) < maxLines

\* Bytes that the record adds, the newline between lines included.
AdditionalBytes == records[next].size + IF lines = <<>> THEN 0 ELSE 1

Continue ==
  /\ next' = next + 1
  /\ UNCHANGED <<input, lines, size, result>>

Return(value) ==
  /\ result' = value
  /\ UNCHANGED <<input, next, lines, size>>

\* The loop is over; Collect fails when it gets no evidence ID or no time.
Complete == Return("collected") \/ Return("invalid")

\* A record outside the range is skipped.
OutOfRange == At /\ ~records[next].inRange /\ Continue

\* The lines are complete.
Full == At /\ records[next].inRange /\ Len(lines) = maxLines /\ Complete

\* Mutant: a record that cannot be redacted is left out.
RedactionSkips == Looks /\ ~records[next].redactable /\ Continue

RedactionFails == Looks /\ ~records[next].redactable /\ Return("failed")

Empty == Looks /\ records[next].redactable /\ records[next].size = 0 /\ Continue

Overflow ==
  /\ Looks /\ records[next].redactable /\ records[next].size > 0
  /\ size + AdditionalBytes > maxBytes
  /\ Complete

\* Mutant: the separators are not counted.
AppendWithoutSeparator ==
  /\ Looks /\ records[next].redactable /\ records[next].size > 0
  /\ size + AdditionalBytes <= maxBytes
  /\ lines' = Append(lines, records[next].size)
  /\ size' = size + records[next].size
  /\ next' = next + 1
  /\ UNCHANGED <<input, result>>

AppendLine ==
  /\ Looks /\ records[next].redactable /\ records[next].size > 0
  /\ size + AdditionalBytes <= maxBytes
  /\ lines' = Append(lines, records[next].size)
  /\ size' = size + AdditionalBytes
  /\ next' = next + 1
  /\ UNCHANGED <<input, result>>

Finish == result = "none" /\ next > Len(records) /\ Complete

\* Collect has returned.
Done == result # "none" /\ UNCHANGED vars

Next ==
  \/ OutOfRange \/ Full \/ RedactionFails \/ Empty \/ Overflow
  \/ AppendLine \/ Finish \/ Done

Spec == Init /\ [][Next]_vars

-----------------------------------------------------------------------------
(* Properties                                                              *)

\* Length of lines that are joined with newlines.
Joined(seq) == FoldLeft(+, 0, seq) + IF seq = <<>> THEN 0 ELSE Len(seq) - 1

\* Type invariant; the byte count of the reference is the length of the content
\* within its limit, at every record.
TypeOK ==
  /\ records \in Seq(Record)
  /\ next \in 1..Len(records) + 1
  /\ Len(lines) <= maxLines
  /\ size = Joined(lines)
  /\ size <= maxBytes
  /\ result \in {"none", "collected", "failed", "invalid"}

\* What Collect is to select: of the records in the range, the lines of the
\* longest prefix that is redactable and keeps both limits.  It fails exactly
\* when that prefix ends at a record that cannot be redacted while there is
\* room for another line.
InRange == SelectSeq(records, LAMBDA r : r.inRange)
LinesOf(k) == SelectSeq([i \in 1..k |-> InRange[i].size], LAMBDA s : s > 0)
Admissible(k) ==
  /\ \A i \in 1..k : InRange[i].redactable
  /\ Len(LinesOf(k)) <= maxLines
  /\ Joined(LinesOf(k)) <= maxBytes
Longest == CHOOSE k \in 0..Len(InRange) :
  Admissible(k) /\ \A j \in 0..Len(InRange) : Admissible(j) => j <= k

\* When Collect returns, it has taken exactly those lines, or has failed exactly
\* then: nothing after the first line that does not fit is taken, and a record
\* beyond the limits cannot make the call fail.
CollectsLongestPrefix ==
  result # "none" =>
    /\ result = "collected" => lines = LinesOf(Longest)
    /\ result = "failed" <=> /\ Longest < Len(InRange)
                             /\ ~InRange[Longest + 1].redactable
                             /\ Len(LinesOf(Longest)) < maxLines
=============================================================================
