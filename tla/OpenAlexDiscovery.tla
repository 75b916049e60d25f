------------------------- MODULE OpenAlexDiscovery -------------------------
(***************************************************************************)
(* What a run learns from OpenAlex (openalex.py): the journals' ISSNs are  *)
(* resolved to Sources, in one batch and then one by one, and the works of *)
(* the Sources are read together, page by page.  A traversal that went     *)
(* wrong is repeated for the Sources it affected, in two halves, down to   *)
(* single Sources.  A terminal failure (401, 402, 403, 429 to the end)     *)
(* opens the client's circuit: every later request fails at once.          *)
(*                                                                         *)
(* The recursion of _fetch_thin_sources is a stack of groups; what each    *)
(* traversal found of a Source is appended to its trail, and the results   *)
(* are merged from the innermost outwards, as the recursion returns.       *)
(* Works are not withdrawn or moved between Sources while they are read.   *)
(***************************************************************************)
EXTENDS Naturals, Sequences, FiniteSets

CONSTANTS ISSNs,      \* the journals, in order
          Sources,    \* the Sources, in order
          Works, SourceOf,
          BelowFloor, \* works with neither a valid DOI nor a usable title
          PageSize,
          MaxOdd      \* bound: answers that fail, are damaged or out of order

\* What OpenAlex may come to have is finite.
ASSUME DiscoveryAssumption == IsFiniteSet(Works)

VARIABLES supports,   \* Source -> the ISSNs it lists
          exists,     \* the works OpenAlex has
          stage,      \* "batch", "singles" or "works"
          outcome,    \* ISSN -> what it was resolved to
          circuit,    \* _terminal_failure is set
          attempt,    \* _request_json: attempts made of the current request
          stack,      \* the groups of Sources still to be traversed
          page,       \* the traversal in progress
          trail,      \* Source -> what its traversals found, the outermost first
          odd,
          start       \* history: the works there were at first

discoveryVars == <<supports, exists, stage, outcome, circuit, attempt, stack, page, trail, odd, start>>
found == <<supports, outcome>>

SetOf(s) == {s[i] : i \in 1 .. Len(s)}
Smaller(a, b) == IF a < b THEN a ELSE b

NoPage == [obtained |-> 0, expected |-> 0, first |-> TRUE, records |-> {}, seen |-> {}, affected |-> {},
           conflicts |-> {}, repeats |-> FALSE, again |-> {}]

Open == "open"
Failures == {"ambiguous", "invalid", "not_found", "failed"}
Resolved(s) == [kind |-> "source", source |-> s]
IssnOutcome(kind) == [kind |-> kind, source |-> "none"]

DiscoveryInit == /\ supports \in [SetOf(Sources) -> SUBSET SetOf(ISSNs)]
        /\ exists \in SUBSET Works
        /\ stage = "batch"
        /\ outcome = [i \in SetOf(ISSNs) |-> IssnOutcome(Open)]
        /\ circuit = FALSE
        /\ attempt = 0
        /\ stack = <<>>
        /\ page = NoPage
        /\ trail = [s \in SetOf(Sources) |-> <<>>]
        /\ odd = 0
        /\ start = exists

Done == stage = "works" /\ stack = <<>>
Group == Head(stack)

\* OpenAlex indexes a work
Index(w) ==
    /\ ~Done /\ w \notin exists
    /\ exists' = exists \cup {w}
    /\ UNCHANGED <<found, stage, circuit, attempt, stack, page, trail, odd, start>>

-----------------------------------------------------------------------------
(* _request_json                                                           *)

\* a transport error, 429 or 5xx is tried again, twice
Retry ==
    /\ ~Done /\ ~circuit
    /\ attempt < 2 /\ odd < MaxOdd
    /\ attempt' = attempt + 1
    /\ odd' = odd + 1
    /\ UNCHANGED <<found, exists, stage, circuit, stack, page, trail, start>>

\* The request fails: for good (an open circuit fails every request), or only this one.
Fails(terminal) ==
    /\ circuit => terminal
    /\ circuit \/ odd < MaxOdd
    /\ odd' = IF circuit THEN odd ELSE odd + 1
    /\ circuit' = terminal
    /\ attempt' = 0

Answers == ~circuit /\ attempt' = 0 /\ circuit' = circuit

-----------------------------------------------------------------------------
(* _resolve_source_hits_batched                                            *)

\* the Sources that were resolved, once each, in the order of the journals
ResolvedOf(out) == {out[i].source : i \in {j \in DOMAIN out : out[j].kind = "source"}}
InOrder(S) == SelectSeq(Sources, LAMBDA s : s \in S)

GoOn(out) ==
    /\ outcome' = out
    /\ IF \E i \in DOMAIN out : out[i].kind = Open
       THEN stage' = "singles" /\ stack' = stack
       ELSE /\ stage' = "works"
            /\ stack' = IF ResolvedOf(out) = {} THEN <<>> ELSE <<InOrder(ResolvedOf(out))>>

\* What the records of a batch say of one ISSN: two Source IDs are ambiguous, an unusable record is
\* final, and one good record counts unless some record could not be assigned to any ISSN.
OfRecords(i, quality, recovery) ==
    LET listing == {s \in DOMAIN quality : i \in supports[s] /\ quality[s] # "shapeless"}
        identified == {s \in listing : quality[s] # "no_id"}
    IN  IF Cardinality(identified) > 1 THEN IssnOutcome("ambiguous")
        ELSE IF \E s \in listing : quality[s] # "good" THEN IssnOutcome("invalid")
        ELSE IF listing # {} /\ ~recovery THEN Resolved(CHOOSE s \in listing : TRUE)
        ELSE IssnOutcome(Open)

ResolveBatch ==
    /\ stage = "batch"
    /\ Answers
    /\ \E quality \in [{s \in SetOf(Sources) : supports[s] # {}} -> {"good", "not_journal", "no_id", "shapeless"}] :
          LET flawed == {s \in DOMAIN quality : quality[s] # "good"}
              recovery == \E s \in flawed : quality[s] = "shapeless"
          IN  /\ odd + Cardinality(flawed) <= MaxOdd
              /\ odd' = odd + Cardinality(flawed)
              /\ GoOn([i \in DOMAIN outcome |-> OfRecords(i, quality, recovery)])
    /\ UNCHANGED <<supports, exists, page, trail, start>>

\* an incomplete batch counts as a failed request
BatchFails(terminal) ==
    /\ stage = "batch"
    /\ Fails(terminal)
    /\ GoOn([i \in DOMAIN outcome |-> IF terminal THEN IssnOutcome("failed") ELSE IssnOutcome(Open)])
    /\ UNCHANGED <<supports, exists, page, trail, start>>

NextOpen == ISSNs[CHOOSE n \in 1 .. Len(ISSNs) :
                    /\ outcome[ISSNs[n]].kind = Open
                    /\ \A m \in 1 .. n - 1 : outcome[ISSNs[m]].kind # Open]

ResolveSingle ==
    /\ stage = "singles"
    /\ Answers
    /\ LET listing == {s \in SetOf(Sources) : NextOpen \in supports[s]}
       IN  \/ /\ listing = {}
              /\ GoOn([outcome EXCEPT ![NextOpen] = IssnOutcome("not_found")])
              /\ odd' = odd
           \/ \E s \in listing :
                 /\ GoOn([outcome EXCEPT ![NextOpen] = Resolved(s)])
                 /\ odd' = odd
           \/ /\ listing # {} /\ odd < MaxOdd
              /\ GoOn([outcome EXCEPT ![NextOpen] = IssnOutcome("invalid")])
              /\ odd' = odd + 1
    /\ UNCHANGED <<supports, exists, page, trail, start>>

\* a terminal failure answers for the remaining ISSNs too
SingleFails(terminal) ==
    /\ stage = "singles"
    /\ Fails(terminal)
    /\ GoOn([i \in DOMAIN outcome |->
               IF i = NextOpen \/ (terminal /\ outcome[i].kind = Open) THEN IssnOutcome("failed") ELSE outcome[i]])
    /\ UNCHANGED <<supports, exists, page, trail, start>>

-----------------------------------------------------------------------------
(* _fetch_thin_sources: one traversal                                      *)

InGroup(w) == w \in Works /\ SourceOf[w] \in SetOf(Group)
Matches == {w \in exists : InGroup(w)}

Observation(s, p, failed) ==
    LET mine == {w \in p.records : SourceOf[w] = s}
    IN  [records |-> mine, conflict |-> s \in p.conflicts, again |-> p.again \ {w \in Works : SourceOf[w] = s},
         status |-> IF s \notin p.affected THEN "complete"
                    ELSE IF mine # {} \/ ~failed THEN "partial" ELSE "failed"]

\* the affected Sources of a group, in two halves
Halves(affected) ==
    LET keys == SelectSeq(Group, LAMBDA s : s \in affected)
        middle == IF Len(keys) > 1 THEN Len(keys) \div 2 ELSE 1
    IN  SelectSeq(<<SubSeq(keys, 1, middle), SubSeq(keys, middle + 1, Len(keys))>>, LAMBDA g : g # <<>>)

\* The traversal ends: with an error of its own all its Sources are affected.
TraversalEnds(p, failed, terminal) ==
    LET q == IF failed THEN [p EXCEPT !.affected = SetOf(Group)] ELSE p
    IN  /\ trail' = [s \in DOMAIN trail |->
                       IF s \in SetOf(Group) THEN Append(trail[s], Observation(s, q, failed)) ELSE trail[s]]
        /\ stack' = (IF q.affected # {} /\ Len(Group) > 1 /\ ~terminal THEN Halves(q.affected) ELSE <<>>) \o Tail(stack)
        /\ page' = NoPage

WorksFail(terminal) ==
    /\ stage = "works" /\ ~Done /\ ~page.repeats
    /\ Fails(terminal)
    /\ TraversalEnds(page, TRUE, terminal)
    /\ UNCHANGED <<found, exists, stage, start>>

\* a cursor seen before is an error of the traversal
CursorRepeats ==
    /\ stage = "works" /\ ~Done /\ page.repeats
    /\ TraversalEnds(page, TRUE, FALSE)
    /\ UNCHANGED <<found, exists, stage, circuit, attempt, odd, start>>

\* The works a page may hold: the next ones not served yet; out of order, works served before too.
Served(k) == {items \in SUBSET Matches : Cardinality(items) = k}

\* One entry of a page may be damaged: without a Source, of a Source nobody asked for, or unusable.
Damage == {"none", "no_source", "foreign", "unusable"}

\* A page folded into the traversal.  An entry without a Source belongs to the only Source of a
\* group of one.
Read(items, hurt, damage, count) ==
    LET twice == items \cap page.seen
        astray == \/ damage = "foreign"
                  \/ damage = "no_source" /\ Len(Group) > 1
        usable == items \ (IF astray \/ damage = "unusable" THEN {hurt} ELSE {})
        met == IF astray THEN items \ {hurt} ELSE items
    IN  [obtained |-> page.obtained + Cardinality(items), expected |-> count, first |-> FALSE,
         seen |-> page.seen \cup met,
         again |-> page.again \cup twice,
         records |-> page.records \cup (usable \ BelowFloor),
         affected |-> page.affected \cup {SourceOf[w] : w \in twice \cap met}
                        \cup (IF astray THEN SetOf(Group)
                              ELSE IF damage = "unusable" THEN {SourceOf[hurt]} ELSE {}),
         conflicts |-> page.conflicts \cup (IF damage = "foreign" THEN SetOf(Group) ELSE {}),
         repeats |-> FALSE]

\* expected != obtained: the traversal was incomplete
Settled(p) == p.expected = p.obtained

ReadPage ==
    /\ stage = "works" /\ ~Done /\ ~page.repeats
    /\ Answers
    /\ LET total == Cardinality(Matches)
           left == IF page.obtained < total THEN total - page.obtained ELSE 0
           size == Smaller(PageSize, left)
           ends == page.obtained + size >= total
       IN  \E items \in Served(size), count \in {total, total + 1}, next \in {"due", "repeated", "missing"} :
           \E damage \in Damage, hurt \in items \cup {"none"} :
              LET p == Read(items, hurt, damage, count)
                  oddity == (IF items \cap page.seen # {} THEN 1 ELSE 0) + (IF damage # "none" THEN 1 ELSE 0)
                            + (IF count # total THEN 1 ELSE 0) + (IF next # "due" THEN 1 ELSE 0)
              IN  /\ (damage = "none") <=> (hurt = "none")
                  /\ next # "due" => ~ends
                  /\ odd + oddity <= MaxOdd
                  /\ odd' = odd + oddity
                  /\ IF ~page.first /\ page.expected # count THEN TraversalEnds(p, TRUE, FALSE)
                     ELSE IF ends \/ next = "missing" THEN TraversalEnds(p, ~Settled(p), FALSE)
                     ELSE /\ page' = [p EXCEPT !.repeats = next = "repeated"]
                          /\ UNCHANGED <<stack, trail>>
    /\ UNCHANGED <<found, exists, stage, start>>

-----------------------------------------------------------------------------
(* The results of the recursion, from the innermost traversal outwards.    *)

\* Mutant: a complete recovery is believed after a scope conflict as well
RecoveredAlways(outer, inner) == inner.status = "complete"

\* recovery restores what was missing; it does not erase an explicit scope conflict
Recovered(outer, inner) == inner.status = "complete" /\ ~outer.conflict

MergeResults(outer, inner) ==
    IF Recovered(outer, inner) THEN inner
    ELSE LET all == outer.records \cup inner.records
         IN  [outer EXCEPT !.records = all,
                           !.status = IF all # {} \/ "partial" \in {outer.status, inner.status} THEN "partial" ELSE "failed"]

Result(s) ==
    LET from[n \in 1 .. Len(trail[s])] ==
            IF n = Len(trail[s]) THEN trail[s][n] ELSE MergeResults(trail[s][n], from[n + 1])
    IN  from[1]

Discover == \/ Retry \/ ResolveBatch \/ ResolveSingle \/ ReadPage \/ CursorRepeats
            \/ \E terminal \in BOOLEAN : BatchFails(terminal) \/ SingleFails(terminal) \/ WorksFail(terminal)

DiscoveryNext == (\E w \in Works : Index(w)) \/ Discover

DiscoverySpec == DiscoveryInit /\ [][DiscoveryNext]_discoveryVars

-----------------------------------------------------------------------------
Fetched == {s \in SetOf(Sources) : trail[s] # <<>>}
WorksOf(s) == {w \in Works \ BelowFloor : SourceOf[w] = s}

\* A unit reported complete holds every usable work its Source had when the discovery began,
\* whichever traversals were damaged, cut short or repeated.  The one exception is the shared
\* traversal: where another Source's work was served twice, the count of a group comes right
\* although a work of this Source was skipped (_fetch_thin_sources: affected, expected, obtained).
CompleteMissesNothing ==
    Done => \A s \in Fetched :
        Result(s).status = "complete" /\ Result(s).again = {} => WorksOf(s) \cap start \subseteq Result(s).records

\* A Source in whose traversal a work of a Source nobody asked for came up is not reported complete,
\* however well its recovery went (scope_conflicts).
ConflictIsReported ==
    Done => \A s \in Fetched : (\E n \in 1 .. Len(trail[s]) : trail[s][n].conflict) => Result(s).status # "complete"

\* A usable record that any traversal delivered is in the result, and a Source is reported as failed
\* only if no traversal delivered any.  The exception is the same: a recovery whose count came right
\* because another Source's work was served twice is believed in place of what went before.
DeliveredIsKept ==
    Done => \A s \in Fetched :
        LET delivered == UNION {trail[s][n].records : n \in 1 .. Len(trail[s])}
            last == trail[s][Len(trail[s])]
        IN  \/ delivered \subseteq Result(s).records /\ (Result(s).status = "failed" => delivered = {})
            \/ last.status = "complete" /\ last.again # {}

\* What OpenAlex had of a Source that is reported complete is in the result, conflicts are reported,
\* and what was delivered stays.
DiscoveryIsTrue == CompleteMissesNothing /\ ConflictIsReported /\ DeliveredIsKept
=============================================================================
