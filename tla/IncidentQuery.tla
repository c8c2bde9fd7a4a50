--------------------------- MODULE IncidentQuery ---------------------------
(***************************************************************************)
(* internal/incident: List and Show.  A reader follows NextOffset from     *)
(* page to page, one read transaction each, while the correlator opens     *)
(* incidents and changes their state.  Incident IDs are ordered and say    *)
(* nothing about when an incident was opened.                              *)
(***************************************************************************)
EXTENDS Naturals, FiniteSets, SequencesExt

CONSTANTS
  IncidentIDs,  \* numbers, compared as the code compares strings
  OpenedAts,    \* times at which incidents open
  Filters,      \* filters of the reader: [state, from, to], "any" for no state
  PageSizes     \* page sizes of the reader

\* What the constants have to satisfy.
QueryAssumption ==
  /\ IncidentIDs \cup OpenedAts \subseteq Nat
  /\ PageSizes \subseteq Nat \ {0}

VARIABLES
  incidents,  \* the bucket: [id, state, openedAt]
  filter, pageSize, offset,  \* the reader's next request
  reading,    \* "before", "pages" or "done"
  listed,     \* IDs of all pages so far, in order
  start,      \* IDs that matched when the reader began
  opened      \* incidents opened since then

reader == <<filter, pageSize, offset, reading, listed, start, opened>>
vars == <<incidents, reader>>

Matching == {i \in incidents :
  /\ filter.state \in {"any", i.state}
  /\ filter.from <= i.openedAt /\ i.openedAt <= filter.to}

\* The matching incidents, sorted by ID.
Items == [k \in 1..Cardinality(Matching) |->
  CHOOSE i \in Matching : Cardinality({j \in Matching : j.id < i.id}) = k - 1]

IDsOf(items) == [k \in DOMAIN items |-> items[k].id]

Init ==
  /\ incidents = {}
  /\ filter \in Filters
  /\ pageSize \in PageSizes
  /\ offset = 0
  /\ reading = "before"
  /\ listed = <<>>
  /\ start = {}
  /\ opened = 0

-----------------------------------------------------------------------------
(* The correlator                                                          *)

\* newCandidate.  Incidents are neither removed nor replaced.
Open(id, at) ==
  /\ \A i \in incidents : i.id # id
  /\ incidents' = incidents \cup {[id |-> id, state |-> "open", openedAt |-> at]}
  /\ opened' = IF reading = "pages" THEN opened + 1 ELSE opened
  /\ UNCHANGED <<filter, pageSize, offset, reading, listed, start>>

\* advance, as far as a filter tells states apart: an incident leaves its first state.
Change(i) ==
  /\ i.state = "open"
  /\ incidents' = (incidents \ {i}) \cup {[i EXCEPT !.state = "closed"]}
  /\ UNCHANGED reader

-----------------------------------------------------------------------------
(* The reader                                                              *)

Begin ==
  /\ reading = "before"
  /\ reading' = "pages"
  /\ start' = {i.id : i \in Matching}
  /\ UNCHANGED <<incidents, filter, pageSize, offset, listed, opened>>

\* The end of the page that begins at offset.
End == IF offset + pageSize > Len(Items) THEN Len(Items) ELSE offset + pageSize

\* Mutant: the last page repeats its own offset.
FollowKeepsOffset(next) ==
  /\ offset' = IF next = 0 THEN offset ELSE next
  /\ reading' = IF next = 0 THEN "done" ELSE "pages"
  /\ UNCHANGED <<incidents, filter, pageSize, start, opened>>

\* NextOffset is zero on the last page.
Follow(next) ==
  /\ offset' = next
  /\ reading' = IF next = 0 THEN "done" ELSE "pages"
  /\ UNCHANGED <<incidents, filter, pageSize, start, opened>>

\* Mutant: the next page begins behind its first incident.
ListSkips ==
  /\ reading = "pages"
  /\ listed' = listed \o IDsOf(SubSeq(Items, offset + 1, End))
  /\ Follow(IF End < Len(Items) THEN End + 1 ELSE 0)

\* Mutant: the next page begins with the last incident of this one.
ListRepeats ==
  /\ reading = "pages"
  /\ listed' = listed \o IDsOf(SubSeq(Items, offset + 1, End))
  /\ Follow(IF End < Len(Items) /\ End > offset + 1 THEN End - 1 ELSE IF End < Len(Items) THEN End ELSE 0)

\* List; an offset beyond the items gives an empty last page.
List ==
  /\ reading = "pages"
  /\ listed' = listed \o IDsOf(SubSeq(Items, offset + 1, End))
  /\ Follow(IF offset < Len(Items) /\ End < Len(Items) THEN End ELSE 0)

\* The reader begins again.
Again ==
  /\ reading = "done"
  /\ reading' = "before"
  /\ offset' = 0 /\ listed' = <<>> /\ start' = {} /\ opened' = 0
  /\ UNCHANGED <<incidents, filter, pageSize>>

Next ==
  \/ \E id \in IncidentIDs, at \in OpenedAts : Open(id, at)
  \/ \E i \in incidents : Change(i)
  \/ Begin \/ List \/ Again

Spec == Init /\ [][Next]_vars

-----------------------------------------------------------------------------
(* Properties                                                              *)

\* Type invariant.
TypeOK ==
  /\ \A i, j \in incidents : i.id = j.id => i = j
  /\ offset \in 0..Cardinality(IncidentIDs)
  /\ listed \in Seq(IncidentIDs)
  /\ reading = "done" => offset = 0

\* Pages of different transactions miss nothing: a reader without a state filter
\* sees every incident that matched when it began, whatever is opened before its
\* offset or changes state meanwhile (List sorts by the ID, which never changes).
PagesCoverStart ==
  reading = "done" /\ filter.state = "any" => start \subseteq ToSet(listed)

\* An incident is listed again only because another one was opened before it:
\* there are no more repetitions than incidents opened while the reader read.
RepeatsOnlyShifted ==
  filter.state = "any" => Len(listed) - Cardinality(ToSet(listed)) <= opened
=============================================================================
