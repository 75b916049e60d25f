-------------------------- MODULE CandidatePipeline --------------------------
(***************************************************************************)
(* How a run turns what two providers know into the evidence of its        *)
(* papers (application/monitor.py, _execute_canonical_core;                *)
(* application/crossref_retrieval.py; application/candidate_eligibility).  *)
(* OpenAlex records and the Crossref manifest name candidate DOIs; full    *)
(* Crossref records are reused from the provider state, hydrated, or       *)
(* fetched as supplements, through aliases to prime DOIs; Crossref goes on *)
(* indexing, renaming types and failing between any two requests.          *)
(*                                                                         *)
(* A record is its revision and its type (rev 0: no record).  What the     *)
(* keyword expression finds in a text is a constant of the DOI: "hit",     *)
(* "hit_thin" (found, but the title or the journal is missing), "thin"     *)
(* (not found, and a field is missing), "miss", or "none" (no record).     *)
(***************************************************************************)
EXTENDS Naturals, FiniteSets

CONSTANTS DOIs,
          Alias,        \* the one DOI that may be an alias, and
          Prime,        \*   the DOI Crossref redirects it to
          MayBeSaved,   \* the DOIs the Workspace may hold already
          MayHaveState, \* the DOIs the provider state may have a row of
          MayBeIssue,   \* the DOIs Crossref may call a journal issue
          Finds,        \* what the search may find in the OpenAlex records
          MaxRevision,
          MaxReindexed  \* bound: the DOIs indexed again while the run asks for them

\* A redirect leads to another DOI.
ASSUME PipelineAssumption ==
    Alias \in DOIs /\ Prime \in DOIs /\ Alias # Prime /\ MaxRevision \in Nat \ {0}

Types == {"article", "journal-issue"}
NoRecord == [rev |-> 0, type |-> "none"]
Records == [rev : 1 .. MaxRevision, type : Types] \cup {NoRecord}

VARIABLES live,      \* DOI -> the record Crossref has now
          aliased,   \* whether Alias redirects to Prime
          openalex,  \* DOI -> what the search finds in the OpenAlex record
          crossref,  \* the DOIs the search finds in the Crossref record
          held,      \* DOIs the Workspace holds already (needs_metadata is false)
          state,     \* DOI -> the row of the provider state
          ex,        \* the CrossrefRetrieval of this run
          manifest,  \* DOI -> the revision the manifest gave it, where it is a member
          stage,     \* where _execute_canonical_core is
          sup,       \* the supplement in progress
          sets,      \* the sets of DOIs the core computes
          results,   \* what the early and the late supplement returned
          observed   \* history: DOI -> every revision seen of it in this run

pipelineVars == <<live, aliased, openalex, crossref, held, state, ex, manifest, stage, sup, sets, results, observed>>

world == <<aliased, openalex, crossref, held, state>>

Exists(d) == live[d].rev > 0
IsAlias(d) == aliased /\ d = Alias

NoSup == [batch |-> "none", anchors |-> {}, probes |-> <<>>, targets |-> <<>>, supplied |-> <<>>,
          unavailable |-> {}, aliases |-> <<>>, skipped |-> {}]

NothingBack == [aliases |-> <<>>, skipped |-> {}, unresolved |-> {}, failed |-> {}, records |-> {}]

PipelineInit ==
        /\ live \in [DOIs -> {NoRecord} \cup {[rev |-> 1, type |-> t] : t \in Types}]
        /\ \A d \in DOIs \ MayBeIssue : live[d].type # "journal-issue"
        /\ aliased \in BOOLEAN
        /\ aliased => live[Alias] = NoRecord
        /\ openalex \in [DOIs -> Finds]
        /\ crossref \in SUBSET DOIs
        /\ held \in SUBSET MayBeSaved
        /\ state \in {f \in [DOIs -> {NoRecord, [rev |-> 1, type |-> "article"]}] :
                       \A d \in DOIs \ MayHaveState : f[d] = NoRecord}
        /\ ex = [resolved |-> <<>>, revs |-> <<>>, class |-> <<>>, pending |-> <<>>,
                 types |-> [d \in DOIs |-> [kind |-> "none", conflict |-> FALSE]],
                 discovered |-> {}, used |-> {}]
        /\ manifest = <<>>
        /\ stage = "manifest"
        /\ sup = NoSup
        /\ sets = [oa |-> {}, selected |-> {}, metadata |-> {}, matched |-> {}, rejected |-> {},
                   hydrated |-> {}, evidence |-> {}]
        /\ results = [early |-> NothingBack, late |-> NothingBack]
        /\ observed = [d \in DOIs |-> {}]

\* Crossref indexes a work again, perhaps under another type; only a stage that asks it can tell
Reindex(d) ==
    /\ stage \in {"manifest", "hydrate", "early", "singletons", "primes", "resolve", "late"}
    /\ Exists(d) /\ live[d].rev < MaxRevision
    /\ Cardinality({e \in DOIs : live[e].rev > 1} \ {d}) < MaxReindexed
    /\ \E t \in Types : live' = [live EXCEPT ![d] = [rev |-> live[d].rev + 1, type |-> t]]
    /\ UNCHANGED <<aliased, openalex, crossref, held, state, ex, manifest, stage, sup, sets, results, observed>>

-----------------------------------------------------------------------------
(* The pieces of CrossrefRetrieval.                                        *)

\* _observe_types: two types of one DOI are a dispute, and a dispute excludes nothing
Observe(types, kinds) ==
    [d \in DOIs |->
        IF d \notin DOMAIN kinds THEN types[d]
        ELSE LET all == {types[d].kind, kinds[d]} \ {"none"}
                 conflict == types[d].conflict \/ Cardinality(all) > 1
             IN  [conflict |-> conflict,
                  kind |-> IF conflict \/ all = {} THEN "none" ELSE CHOOSE k \in all : TRUE]]

Excluded(x) == {d \in DOIs : x.types[d].kind = "journal-issue"}

NeedsMetadata(x, d) == d \notin Excluded(x) /\ d \notin held

Over(f, g) == [d \in DOMAIN f \cup DOMAIN g |-> IF d \in DOMAIN g THEN g[d] ELSE f[d]]
Without(f, S) == [d \in DOMAIN f \ S |-> f[d]]
Typed(recs) == [d \in DOMAIN recs |-> recs[d].type]

\* _resolve: the members (DOI -> revision) with the full records supplied; what is neither resolved,
\* reusable nor supplied is hydrated, and the DOIs in "lost" come back without a record
Known(x, members) == DOMAIN members \cap DOMAIN x.resolved
\* Mutant: any row of the state is reused
ReusableAny(x, members) == {d \in DOMAIN members \ DOMAIN x.resolved : state[d].rev > 0}

Reusable(x, members) == {d \in DOMAIN members \ DOMAIN x.resolved :
                           state[d].rev > 0 /\ members[d] = state[d].rev}
Requested(x, members, supplied) ==
    DOMAIN members \ (DOMAIN x.resolved \cup Reusable(x, members) \cup DOMAIN supplied)

ResolveMembers(x, members, supplied, lost) ==
    LET known == Known(x, members)
        superseded == {d \in known \cap DOMAIN supplied :
                         x.resolved[d].rev = 0 \/ x.revs[d] # members[d]}
        ambiguous == {d \in known \ superseded : x.revs[d] # members[d]}
        reused == Reusable(x, members)
        new == DOMAIN members \ known
        resolved == [d \in DOMAIN x.resolved \cup new |->
            IF d \in superseded \cup ((new \ reused) \cap DOMAIN supplied) THEN supplied[d]
            ELSE IF d \in ambiguous \cup lost THEN NoRecord
            ELSE IF d \in reused THEN state[d]
            ELSE IF d \in new THEN live[d]
            ELSE x.resolved[d]]
        class == Over(Without(x.class, superseded \cup ambiguous), [d \in reused |-> "reused"])
        full == {d \in DOMAIN members : resolved[d].rev > 0 /\ d \notin DOMAIN class}
    IN  [x EXCEPT !.resolved = resolved,
                  !.revs = Over(Over(@, [d \in new |-> members[d]]), [d \in full |-> resolved[d].rev]),
                  !.class = Over(class, [d \in full |-> IF state[d].rev > 0 THEN "refreshed" ELSE "new"]),
                  !.pending = Over(Without(@, superseded \cup ambiguous), [d \in full |-> resolved[d]])]

Sees(f) == observed' = [d \in DOIs |-> IF d \in DOMAIN f /\ f[d] > 0 THEN observed[d] \cup {f[d]} ELSE observed[d]]
Revs(recs) == [d \in DOMAIN recs |-> recs[d].rev]
HydratedFrom(requested, lost) == [d \in requested \ lost |-> live[d].rev]

-----------------------------------------------------------------------------
(* _execute_canonical_core, up to the hydration of the manifest.           *)

\* discover_manifest: some of what there is, some of it with conflicting revisions
Discover ==
    /\ stage = "manifest"
    /\ \E members \in SUBSET {d \in DOIs : Exists(d)} : \E torn \in SUBSET members :
          /\ manifest' = [d \in members |-> IF d \in torn THEN 0 ELSE live[d].rev]
          /\ ex' = [ex EXCEPT !.types = Observe(@, [d \in members |-> live[d].type])]
          /\ Sees(manifest')
    /\ stage' = "select"
    /\ UNCHANGED <<live, world, sup, sets, results>>

Select ==
    /\ stage = "select"
    /\ LET selected == {d \in DOMAIN manifest : NeedsMetadata(ex, d)}
           oa == {d \in DOIs : openalex[d] # "none" /\ NeedsMetadata(ex, d)}
           matched == {d \in oa : openalex[d] \in {"hit", "hit_thin"}}
           thin == {d \in oa : openalex[d] \in {"thin", "hit_thin"}}
       IN  sets' = [sets EXCEPT !.oa = oa, !.selected = selected, !.matched = matched,
                                !.metadata = (selected \ oa) \cup thin]
    /\ stage' = "hydrate"
    /\ UNCHANGED <<live, world, ex, manifest, sup, results, observed>>

\* hydrate_manifest: only what the search still needs; a lost record is a discovered DOI all the same
Hydrate ==
    /\ stage = "hydrate"
    /\ LET dois == (sets.selected \cap sets.metadata) \ Excluded(ex)
           members == [d \in dois |-> manifest[d]]
           requested == Requested(ex, members, <<>>)
       IN  \E lost \in SUBSET requested :
              LET x == ResolveMembers(ex, members, <<>>, lost)
                  full == {d \in dois : x.resolved[d].rev > 0}
              IN  /\ ex' = [x EXCEPT !.discovered = DOMAIN manifest,
                                     !.types = Observe(@, [d \in dois |-> x.resolved[d].type]),
                                     !.used = full]
                  /\ sets' = [sets EXCEPT !.hydrated = full]
                  /\ Sees(HydratedFrom(requested, lost))
    /\ stage' = "early"
    /\ UNCHANGED <<live, world, manifest, sup, results>>

-----------------------------------------------------------------------------
(* supplement(): the DOIs only OpenAlex named, in two batches.             *)

EarlyRequested == {d \in sets.oa : d \in sets.metadata /\ d \notin sets.selected}
LateRequested == {d \in sets.oa : d \in sets.matched /\ d \notin sets.selected \cup EarlyRequested}

ShouldProcess(x, d) == NeedsMetadata(x, d) /\ (sup.batch = "late" => d \notin sets.rejected)

\* _probe: what this run resolved already keeps its revision; the others are asked for in a batch,
\* which answers for what Crossref holds under that very DOI, or fails
Probed(dois) == {d \in dois : d \in DOMAIN ex.resolved}
Answerable(dois) == {d \in dois \ Probed(dois) : Exists(d) /\ ~IsAlias(d)}

Start(batch, records) ==
    LET anchors == records \ ex.discovered
    IN  \E answered \in SUBSET Answerable(anchors) :
           /\ sup' = [NoSup EXCEPT !.batch = batch, !.anchors = anchors,
                        !.probes = [d \in Probed(anchors) \cup answered |->
                                      IF d \in answered THEN live[d].rev ELSE ex.revs[d]]]
           /\ ex' = [ex EXCEPT !.types = Observe(@, [d \in answered |-> live[d].type])]
           /\ Sees([d \in answered |-> live[d].rev])

Early ==
    /\ stage = "early"
    /\ Start("early", EarlyRequested)
    /\ stage' = "singletons"
    /\ UNCHANGED <<live, world, manifest, sets, results>>

Late ==
    /\ stage = "late"
    /\ Start("late", LateRequested)
    /\ stage' = "singletons"
    /\ UNCHANGED <<live, world, manifest, sets, results>>

\* get_doi_outcome for every anchor the probe did not answer: a record, not found, a redirect, or an error
Singletons ==
    /\ stage = "singletons"
    /\ LET asked == sup.anchors \ DOMAIN sup.probes
       IN  \E answered \in SUBSET asked :
              LET prime == {d \in answered : IsAlias(d)}
                  gone == {d \in answered : ~Exists(d) /\ ~IsAlias(d)}
                  found == {d \in answered : Exists(d) /\ ~IsAlias(d)}
              IN  /\ sup' = [sup EXCEPT !.unavailable = gone,
                               !.aliases = [d \in prime |-> Prime],
                               !.supplied = [d \in found |-> live[d]],
                               !.probes = Over(@, [d \in found |-> live[d].rev]),
                               !.targets = [d \in DOMAIN sup.probes \cup found \cup prime |->
                                              IF d \in prime THEN Prime ELSE d],
                               !.skipped = {d \in DOMAIN sup.probes \cup found \cup prime :
                                              ~ShouldProcess(ex, IF d \in prime THEN Prime ELSE d)}]
                  /\ Sees([d \in found |-> live[d].rev])
    /\ stage' = "primes"
    /\ UNCHANGED <<live, world, ex, manifest, sets, results>>

\* The prime of an alias: what this run knows of it, or a probe, or its own singleton.
Primes ==
    /\ stage = "primes"
    /\ LET primes == {sup.aliases[d] : d \in DOMAIN sup.aliases}
           known == [d \in {p \in primes : p \in DOMAIN ex.resolved \cup (ex.discovered \cap DOMAIN manifest)} |->
                       IF d \in DOMAIN ex.resolved THEN ex.revs[d] ELSE manifest[d]]
           asked == {p \in primes \ (DOMAIN sup.probes \cup DOMAIN known) : ShouldProcess(ex, p)}
       IN  \E probed \in SUBSET {p \in asked : Exists(p)} : \E single \in SUBSET {p \in asked \ probed : Exists(p)} :
              LET got == [d \in probed \cup single |-> live[d].rev]
              IN  /\ sup' = [sup EXCEPT !.probes = Over(Over(@, known), got),
                                        !.supplied = Over(@, [d \in single |-> live[d]])]
                  /\ ex' = [ex EXCEPT !.types = Observe(@, Over(Typed(sup.supplied),
                                                                [d \in DOMAIN got |-> live[d].type]))]
                  /\ Sees(got)
    /\ stage' = "resolve"
    /\ UNCHANGED <<live, world, manifest, sets, results>>

\* _resolve, and one unit for every anchor: its record, or why there is none
Target(d) == IF d \in DOMAIN sup.targets THEN sup.targets[d] ELSE d

Settle ==
    /\ stage = "resolve"
    /\ LET wanted == {t \in {sup.targets[d] : d \in DOMAIN sup.targets} :
                        /\ t \in DOMAIN sup.probes /\ ShouldProcess(ex, t)
                        /\ sup.batch = "early" \/ t \in DOMAIN sup.supplied \/ t \in DOMAIN ex.resolved}
           members == [t \in wanted |-> sup.probes[t]]
           supplied == [d \in DOMAIN sup.supplied \cap wanted |-> sup.supplied[d]]
           requested == Requested(ex, members, supplied)
       IN  \E lost \in SUBSET requested :
              LET x == ResolveMembers(ex, members, supplied, lost)
                  left == {d \in sup.anchors \ sup.skipped : Target(d) \notin Excluded(ex)}
                  HasRecord(d) == /\ Target(d) \in DOMAIN sup.probes /\ Target(d) \in DOMAIN x.resolved
                                  /\ x.resolved[Target(d)].rev > 0
                  Thin(d) == sup.batch = "late" /\ Target(d) \in DOMAIN sup.probes
                  failed == {d \in left : ~HasRecord(d) /\ ~Thin(d) /\ d \notin sup.unavailable}
                  records == {Target(d) : d \in {e \in left : HasRecord(e)}}
              IN  /\ ex' = [x EXCEPT !.types = Observe(@, [d \in records |-> x.resolved[d].type]),
                                     !.used = @ \cup records]
                  /\ results' = [results EXCEPT ![sup.batch] =
                        [aliases |-> sup.aliases, skipped |-> sup.skipped, records |-> records, failed |-> failed,
                         unresolved |-> {d \in failed : Target(d) \notin DOMAIN sup.probes}]]
                  /\ Sees(HydratedFrom(requested, lost))
    /\ stage' = IF sup.batch = "early" THEN "match" ELSE "evidence"
    /\ sup' = NoSup
    /\ UNCHANGED <<live, world, manifest, sets>>

-----------------------------------------------------------------------------
(* Matching, the late batch, and the evidence that is left.                *)

FinalDoi(aliases, d) == IF d \in DOMAIN aliases THEN aliases[d] ELSE d
Finals(aliases, S) == {FinalDoi(aliases, d) : d \in S}

\* filter_candidate_evidence: the DOIs that keep evidence, under their final identity
Kept(retained, records, aliases, r) ==
    LET left == {d \in retained : /\ d \notin r.skipped \cup r.unresolved
                                  /\ FinalDoi(aliases, d) \notin Excluded(ex)}
        attributed == Finals(aliases, left) \cup DOMAIN manifest
    IN  Finals(aliases, left) \cup ((records \cap attributed) \ Excluded(ex))

\* Mutant: the records of the supplement are left out of the search
FoundHydrated(d, evidence) == d \in evidence \cap sets.hydrated \cap crossref

\* Crossref fills the missing fields of the search; it never replaces an OpenAlex field
Found(d, evidence) ==
    /\ d \in evidence
    /\ d \in sets.hydrated \cup results.early.records
    /\ d \in crossref

Match ==
    /\ stage = "match"
    /\ LET aliases == results.early.aliases
           evidence == Kept(sets.oa, sets.hydrated \cup results.early.records, aliases, results.early)
           hits == Finals(aliases, sets.matched)
           matched == hits \cup {d \in Finals(aliases, sets.metadata) \ hits : Found(d, evidence)}
       IN  sets' = [sets EXCEPT !.matched = matched,
                                !.rejected = Finals(aliases, sets.selected \cup sets.oa) \ matched]
    /\ stage' = "late"
    /\ UNCHANGED <<live, world, ex, manifest, sup, results, observed>>

Both == [aliases |-> Over(results.early.aliases, results.late.aliases),
         skipped |-> results.early.skipped \cup results.late.skipped,
         unresolved |-> results.early.unresolved \cup results.late.unresolved,
         failed |-> results.early.failed \cup results.late.failed]

Evidence ==
    /\ stage = "evidence"
    /\ LET retained == {d \in sets.oa : FinalDoi(results.early.aliases, d) \in sets.matched}
           kept == Kept(retained, sets.hydrated \cup results.early.records \cup results.late.records,
                        Both.aliases, Both)
       IN  sets' = [sets EXCEPT !.evidence =
                      {d \in kept \cap (Finals(Both.aliases, sets.matched) \ sets.rejected) : NeedsMetadata(ex, d)}]
    /\ stage' = "done"
    /\ UNCHANGED <<live, world, ex, manifest, sup, results, observed>>

PipelineNext ==
        \/ \E d \in DOIs : Reindex(d)
        \/ Discover \/ Select \/ Hydrate \/ Early \/ Late \/ Singletons \/ Primes \/ Settle \/ Match \/ Evidence

PipelineSpec == PipelineInit /\ [][PipelineNext]_pipelineVars

-----------------------------------------------------------------------------
Dones == stage = "done"

\* What the run keeps of its state: a row it persists is the full record it fetched in this run, and
\* a row it reuses unfetched was seen live at exactly that revision and at no other (_resolve).
StateIsCurrent ==
    /\ \A d \in DOMAIN ex.pending : ex.pending[d].rev > 0 /\ ex.pending[d] = ex.resolved[d]
    /\ \A d \in DOMAIN ex.class : ex.class[d] = "reused" => observed[d] = {state[d].rev}

\* Nothing the search found vanishes silently.  A DOI found in its OpenAlex text ends in the evidence
\* under its final identity, unless that is saved, a journal issue or rejected, or the DOI is reported
\* as failed.  A DOI found in its full Crossref record, hydrated or supplemented early (for a DOI
\* OpenAlex lists with too thin a text, perhaps through its alias), ends there unless it is saved or
\* a journal issue.
FindsAreKept ==
    Dones =>
        /\ \A d \in {e \in sets.oa : openalex[e] \in {"hit", "hit_thin"}} :
              LET final == FinalDoi(Both.aliases, d)
              IN  \/ final \in sets.evidence \cup held \cup Excluded(ex) \cup sets.rejected
                  \/ d \in Both.failed
        /\ \A d \in (sets.hydrated \cup results.early.records) \cap crossref :
              d \in sets.evidence \cup held \cup Excluded(ex)

\* One paper, one DOI: an alias the run followed is not evidence besides its prime, and nothing
\* known to be only a journal issue is evidence, under whichever DOI it was asked for.
OneIdentity ==
    Dones => sets.evidence \cap (DOMAIN Both.aliases \cup Excluded(ex) \cup held) = {}

\* Nothing the search found vanishes silently, and a paper has one DOI: the evidence of a run is what
\* its searches and retrievals found, neither less nor twice.
NothingVanishes == FindsAreKept /\ OneIdentity
=============================================================================
