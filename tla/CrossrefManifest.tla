-------------------------- MODULE CrossrefManifest --------------------------
(***************************************************************************)
(* The Crossref manifest of one run (crossref.py,                          *)
(* retrieve_crossref_manifests): which DOIs the configured ISSNs published *)
(* in a range of days, asked of a service that caps its pages, fails, and  *)
(* goes on indexing while it is asked.  A query that is too large, damaged *)
(* or refused is cut: by ISSN, then by date, then a single day is read     *)
(* cursor by cursor.  The recursion of plan() is a stack of queries here;  *)
(* what a failed query did deliver travels with its parts ("carry") and is *)
(* merged where a part stays incomplete.                                   *)
(*                                                                         *)
(* A revision is a number, 0 for none; a DOI's ISSNs and day do not change *)
(* while it is asked for, and no work is withdrawn.                        *)
(***************************************************************************)
EXTENDS Naturals, FiniteSets, Sequences

CONSTANTS ISSNs,        \* the query aliases, in order
          DOIs,
          IssnsOf,      \* DOI -> the ISSNs it is listed under
          DayOf,        \* DOI -> the day it was published
          LastDay,      \* the range asked for is 1 .. LastDay
          PageSize,     \* CROSSREF_PAGE_SIZE
          MaxRevision,  \* bound: how often a work is indexed again
          MaxFailures   \* bound: requests that fail or are answered badly

Issn == {ISSNs[n] : n \in 1 .. Len(ISSNs)}

\* There are finitely many works, each published on a day.
ASSUME ManifestAssumption ==
    /\ IsFiniteSet(DOIs) /\ ISSNs \in Seq(Issn) /\ DayOf \in [DOIs -> Nat]
    /\ LastDay \in Nat /\ PageSize \in Nat /\ MaxRevision \in Nat \ {0}

VARIABLES rev,       \* DOI -> its revision at Crossref, 0: not there yet
          stack,     \* the queries still to be made
          cursor,    \* the traversal of a single day, or none
          attempt,   \* _request_json: attempts made of the current request
          unit,      \* ISSN -> CrossrefManifestUnit
          failures,
          start,     \* history: what was indexed when the retrieval began
          seen       \* history: DOI -> the revision it was last delivered with, 0: never

vars == <<rev, stack, cursor, attempt, unit, failures, start, seen>>

\* Of the cursor a page gave, whether it is one seen before, and its parity: a fresh one differs from the last.
NoCursor == [active |-> FALSE, members |-> {}, expected |-> 0, valid |-> TRUE, first |-> TRUE, repeats |-> FALSE,
             parity |-> 0]

Member(d) == [doi |-> d, rev |-> rev[d]]

\* _merge_manifest_members: one member for each DOI, without a revision where two observations differ
Merge(ms) == {LET rs == {m.rev : m \in {n \in ms : n.doi = d}}
              IN  [doi |-> d, rev |-> IF Cardinality(rs) = 1 THEN CHOOSE r \in rs : TRUE ELSE 0]
              : d \in {m.doi : m \in ms}}

GroupOf(q) == {q.group[i] : i \in 1 .. Len(q.group)}
Matches(q) == {d \in DOIs : /\ rev[d] > 0 /\ IssnsOf[d] \cap GroupOf(q) # {}
                            /\ q.from <= DayOf[d] /\ DayOf[d] <= q.to}

Smaller(a, b) == IF a < b THEN a ELSE b

Init == /\ rev \in [DOIs -> 0 .. 1]
        /\ stack = <<[group |-> ISSNs, from |-> 1, to |-> LastDay, carry |-> {}]>>
        /\ cursor = NoCursor
        /\ attempt = 0
        /\ unit = [i \in Issn |-> [members |-> {}, complete |-> TRUE]]
        /\ failures = 0
        /\ start = {d \in DOIs : rev[d] > 0}
        /\ seen = [d \in DOIs |-> 0]

Done == stack = <<>>
Q == Head(stack)

\* Crossref indexes a work, or indexes it again
Index(d) ==
    /\ ~Done
    /\ rev[d] < MaxRevision
    /\ rev' = [rev EXCEPT ![d] = @ + 1]
    /\ UNCHANGED <<stack, cursor, attempt, unit, failures, start, seen>>

-----------------------------------------------------------------------------
(* _request_json: three attempts; a transport error, 429 or 5xx is tried   *)
(* again, any other failure is final.                                      *)

Retry ==
    /\ ~Done
    /\ attempt < 2 /\ failures < MaxFailures
    /\ attempt' = attempt + 1
    /\ failures' = failures + 1
    /\ UNCHANGED <<rev, stack, cursor, unit, start, seen>>

Fails == failures < MaxFailures /\ failures' = failures + 1 /\ seen' = seen
Delivers(items) == seen' = [d \in DOIs |-> IF d \in items THEN rev[d] ELSE seen[d]]

\* One page of a query: at most PageSize of the works left, some of which may be unusable.
Pages(left) == {items \in SUBSET left : Cardinality(items) = Smaller(PageSize, Cardinality(left))}

\* units(): the result of a query, for every ISSN of its group
Finish(members, complete) ==
    /\ unit' = [i \in DOMAIN unit |->
                  IF i \notin GroupOf(Q) THEN unit[i]
                  ELSE LET mine == {m \in members : i \in IssnsOf[m.doi]}
                           more == IF complete THEN {} ELSE {m \in Q.carry : i \in IssnsOf[m.doi]}
                       IN  [members |-> Merge(unit[i].members \cup mine \cup more),
                            complete |-> unit[i].complete /\ complete]]
    /\ stack' = Tail(stack)
    /\ cursor' = NoCursor

\* the query is cut in two, or becomes the traversal of one day
Split(members) ==
    LET carry == Merge(Q.carry \cup members)
        half == Len(Q.group) \div 2
        middle == Q.from + (Q.to - Q.from) \div 2
        Parts(a, b) == stack' = <<a, b>> \o Tail(stack) /\ cursor' = cursor
        Cut == [Q EXCEPT !.carry = carry]
    IN  /\ unit' = unit
        /\ IF Len(Q.group) > 1
           THEN Parts([Cut EXCEPT !.group = SubSeq(Q.group, 1, half)],
                      [Cut EXCEPT !.group = SubSeq(Q.group, half + 1, Len(Q.group))])
           ELSE IF Q.from < Q.to
           THEN Parts([Cut EXCEPT !.to = middle], [Cut EXCEPT !.from = middle + 1])
           ELSE /\ stack' = <<Cut>> \o Tail(stack)
                /\ cursor' = [NoCursor EXCEPT !.active = TRUE]

-----------------------------------------------------------------------------
(* plan(): one query, one page.                                            *)

\* Mutant: a full page is taken for everything
CompleteFull(members, total, valid) == Cardinality(members) = Smaller(PageSize, total) /\ valid

\* the page holds all there is, and all of it is usable
Complete(members, total, valid) ==
    total <= PageSize /\ Cardinality(members) = total /\ valid

PlanPage ==
    /\ ~Done /\ ~cursor.active
    /\ attempt' = 0
    /\ \E items \in Pages(Matches(Q)) : \E unusable \in SUBSET items, known \in BOOLEAN :
          LET members == {Member(d) : d \in items \ unusable}
              total == Cardinality(Matches(Q))
              valid == known /\ unusable = {}
          IN  /\ valid \/ failures < MaxFailures
              /\ failures' = failures + (IF valid THEN 0 ELSE 1)
              /\ Delivers(items \ unusable)
              /\ IF known /\ Complete(members, total, valid) THEN Finish(members, TRUE) ELSE Split(members)
    /\ UNCHANGED <<rev, start>>

\* 401 and 403 end this branch; any other failure of the request cuts the query
PlanDenied ==
    /\ ~Done /\ ~cursor.active
    /\ Fails /\ attempt' = 0
    /\ Finish({}, FALSE)
    /\ UNCHANGED <<rev, start>>

PlanFails ==
    /\ ~Done /\ ~cursor.active
    /\ Fails /\ attempt' = 0
    /\ Split({})
    /\ UNCHANGED <<rev, start>>

-----------------------------------------------------------------------------
(* cursor_day(): the pages of a single ISSN and day.                       *)

CursorEnds(members) == Finish(members, FALSE)

CursorFails ==
    /\ cursor.active
    /\ Fails /\ attempt' = 0
    /\ CursorEnds(cursor.members)
    /\ UNCHANGED <<rev, start>>

\* a cursor seen before is never asked again
CursorRepeats ==
    /\ cursor.active /\ cursor.repeats
    /\ CursorEnds(cursor.members)
    /\ UNCHANGED <<rev, attempt, failures, start, seen>>

\* Mutant: a page that brings nothing new is no reason to stop
GoesOnAnyway(members, total, items) == Cardinality(members) < total /\ Cardinality(items) = PageSize

\* the traversal may go on: the total stands, and the page brought something new and was full
GoesOn(members, total, items) ==
    /\ Cardinality(members) < total
    /\ Cardinality(members) > Cardinality(cursor.members)
    /\ Cardinality(items) = PageSize

\* A page of works not served yet, or one served before.
CursorPage ==
    /\ cursor.active /\ ~cursor.repeats
    /\ attempt' = 0
    /\ LET served == {m.doi : m \in cursor.members}
       IN  \E items \in Pages(Matches(Q) \ served) \cup {served} :
           \E unusable \in SUBSET items, known \in BOOLEAN, next \in {"fresh", "repeated", "missing"} :
          LET members == Merge(cursor.members \cup {Member(d) : d \in items \ unusable})
              total == Cardinality(Matches(Q))
              valid == cursor.valid /\ unusable = {}
              odd == ~known \/ unusable # {} \/ next # "fresh"
              same == cursor.first \/ total = cursor.expected
          IN  /\ odd => failures < MaxFailures
              /\ failures' = failures + (IF odd THEN 1 ELSE 0)
              /\ Delivers(items \ unusable)
              /\ IF known /\ same /\ Cardinality(members) = total THEN Finish(members, valid)
                 ELSE IF known /\ same /\ GoesOn(members, total, items) /\ next # "missing"
                 THEN /\ cursor' = [active |-> TRUE, members |-> members, expected |-> total, valid |-> valid,
                                    first |-> FALSE, repeats |-> next = "repeated", parity |-> 1 - cursor.parity]
                      /\ UNCHANGED <<stack, unit>>
                 ELSE CursorEnds(members)
    /\ UNCHANGED <<rev, start>>

Retrieve == Retry \/ PlanPage \/ PlanDenied \/ PlanFails \/ CursorFails \/ CursorRepeats \/ CursorPage

Next == (\E d \in DOIs : Index(d)) \/ Retrieve

\* the retrieval is one thread that only waits for answers
Spec == Init /\ [][Next]_vars /\ WF_vars(Retrieve)

-----------------------------------------------------------------------------
Dois(i) == {m.doi : m \in unit[i].members}

\* A unit reported complete misses nothing: every work Crossref had for the ISSN and the range when
\* the retrieval began is in it, whatever was cut, indexed meanwhile or failed on the way
\* (plan, cursor_day; the coverage a run reports rests on it).
CompleteMissesNothing ==
    Done => \A i \in DOMAIN unit :
        unit[i].complete => {d \in start : i \in IssnsOf[d] /\ DayOf[d] \in 1 .. LastDay} \subseteq Dois(i)

\* What any page delivered usably stays, however its query ended afterwards (the trustworthy
\* siblings of plan and cursor_day); and a member that keeps a revision keeps the last one delivered,
\* so a record of the provider state is never reused against an outdated observation.
DeliveredIsKept ==
    Done => LET all == Merge(UNION {unit[i].members : i \in DOMAIN unit})
            IN  /\ {d \in DOIs : seen[d] > 0} \subseteq {m.doi : m \in all}
                /\ \A m \in all : m.rev \in {0, seen[m.doi]}

\* A unit reported complete misses nothing Crossref had, and what was delivered usably is in the
\* result, with the last revision or none.
ManifestIsTrue == CompleteMissesNothing /\ DeliveredIsKept

\* The retrieval ends, even when the service serves the same page under ever new cursors.
ManifestEnds == <>Done
=============================================================================
