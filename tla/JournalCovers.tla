---------------------------- MODULE JournalCovers ----------------------------
(***************************************************************************)
(* web/journal_covers.py and application/journal_covers.py: one search of  *)
(* the Connector for the covers of the saved Journals, uploads, Reset, and *)
(* the asset files they share.  Two locks: _lock for the task (result()    *)
(* lets it go while it decodes an image and holds it while it saves one)   *)
(* and _asset_lock for the files (held by result() and upload() from       *)
(* beginning to end).  A second web process shares only the manifest's     *)
(* file lock.  A cover is its Journal and its digest.                      *)
(***************************************************************************)
EXTENDS Naturals, Sequences, SequencesExt

CONSTANTS
    List,        \* the Journals of list.md, in its order, each once
    Digest,      \* the images there may be
    MaxRequests, \* requests of one history (a bound)
    Lease,       \* LEASE_SECONDS
    Unset

Journal == Range(List)
Source == {"downloaded", "uploaded"}
Record == [digest : Digest, source : Source]
Outcome == {"Saved", "Skipped", "Failed"}
SearchTask == [request : 1..MaxRequests, journals : Seq(Journal), missing : BOOLEAN,
               phase : {"Running", "Cancelled", "Completed", "Failed"}, results : Seq(Outcome),
               owner : BOOLEAN, claimed : BOOLEAN, left : 0..Lease]
Decoding == [request : 1..MaxRequests, journal : Journal]
CoverSave == [by : Source, journal : Journal, digest : Digest, missing : BOOLEAN, imaged : BOOLEAN]

\* list.md names each Journal once, and Unset is none of the values it stands beside.
ASSUME CoverAssumption ==
    /\ List \in Seq(Journal) /\ MaxRequests \in Nat /\ Lease \in Nat
    /\ Unset \notin Record \cup SearchTask \cup Decoding \cup CoverSave \cup {"search", "upload", "other"}

VARIABLES
    listed,      \* the Journals still in list.md
    manifest,    \* the record of each Journal
    images,      \* the image files
    search,      \* _task
    uploading,   \* _uploading
    decoding,    \* result() between its two uses of _lock
    saving,      \* _save_cover; once imaged, under the manifest's lock
    holder,      \* who owns the browser: "search", "upload", "other" or Unset
    connected,   \* connector_online and covers_capable
    requests,    \* requests made so far
    \* History, never read by the code:
    done,        \* Journals with a cover since the last start
    torn         \* whether a Reset ever failed half-way

assets == <<listed, manifest, images>>
coverVars == <<assets, search, uploading, decoding, saving, holder, connected, requests, done, torn>>

-----------------------------------------------------------------------------
Remaining(t) == Len(t.journals) - Len(t.results)
Next1(t) == t.journals[Len(t.results) + 1]

\* _expire
LiveSearch ==
    IF search # Unset /\ search.owner /\ (search.left = 0 \/ ~connected)
    THEN [search EXCEPT !.owner = FALSE, !.phase = IF @ = "Running" THEN "Failed" ELSE @]
    ELSE search

Busy == uploading \/ (LiveSearch # Unset /\ LiveSearch.owner)
HolderUnder(t) == IF holder = "search" /\ (t = Unset \/ ~t.owner) THEN Unset ELSE holder
SearchBecomes(t) == search' = t /\ holder' = HolderUnder(t)

\* _lock and _asset_lock.
TaskLockFree == saving # Unset => saving.by = "uploaded"
AssetLockFree == decoding = Unset /\ saving = Unset

\* The Journals of S, each once, in the order they have in seq.
InOrder(S, seq) ==
    {s \in SetToSeqs(S) : \A m, n \in DOMAIN s :
        m < n => \E k, l \in DOMAIN seq : k < l /\ seq[k] = s[m] /\ seq[l] = s[n]}

\* _matching
\* Mutant: a task of another request will do.
MatchesAnyRequest(request) == LiveSearch # Unset /\ LiveSearch.phase = "Running" /\ LiveSearch.claimed
Matching(request) ==
    LiveSearch # Unset /\ LiveSearch.phase = "Running" /\ LiveSearch.claimed /\ LiveSearch.request = request

CoverInit ==
    /\ listed = Journal /\ manifest \in [Journal -> {Unset}] /\ images = {}
    /\ search = Unset /\ uploading = FALSE /\ decoding = Unset /\ saving = Unset
    /\ holder = Unset /\ connected = FALSE /\ requests = 0 /\ done = {} /\ torn = FALSE

-----------------------------------------------------------------------------
\* _activate on a task that was made or is resumed.
Activate(t) ==
    /\ ~Busy /\ connected /\ requests < MaxRequests
    /\ Remaining(t) > 0 => HolderUnder(LiveSearch) = Unset
    /\ requests' = requests + 1
    /\ search' = [t EXCEPT !.request = requests + 1, !.owner = Remaining(t) > 0, !.left = Lease,
                         !.claimed = FALSE,
                         !.phase = IF Remaining(t) > 0 THEN "Running" ELSE "Completed"]
    /\ holder' = IF Remaining(t) > 0 THEN "search" ELSE HolderUnder(LiveSearch)
    /\ UNCHANGED <<assets, uploading, decoding, saving, connected, torn>>

NewSearch(journals, missing) ==
    [request |-> 1, journals |-> journals, missing |-> missing, phase |-> "Running", results |-> <<>>,
     owner |-> FALSE, claimed |-> FALSE, left |-> 0]

StartMissing ==
    /\ TaskLockFree
    /\ \E journals \in InOrder({j \in listed : manifest[j] = Unset}, List) : Activate(NewSearch(journals, TRUE))
    /\ done' = {}

StartOne(j) ==
    /\ TaskLockFree /\ j \in listed
    /\ Activate(NewSearch(<<j>>, FALSE))
    /\ done' = {}

\* resume: the rest of the search, or what failed in it.
Failures(t) == {t.journals[i] : i \in {n \in DOMAIN t.results : t.results[n] = "Failed"}}

Resumable == TaskLockFree /\ LiveSearch # Unset /\ LiveSearch.phase # "Running"

Continue ==
    /\ Resumable /\ Remaining(LiveSearch) > 0
    /\ Activate(LiveSearch) /\ UNCHANGED done

Retry ==
    /\ Resumable /\ Failures(LiveSearch) # {}
    /\ \E journals \in InOrder(Failures(LiveSearch), LiveSearch.journals) :
         Activate(NewSearch(journals, LiveSearch.missing))
    /\ UNCHANGED done

\* state, and every call that is refused.
SearchState ==
    /\ TaskLockFree /\ SearchBecomes(LiveSearch)
    /\ UNCHANGED <<assets, uploading, decoding, saving, connected, requests, done, torn>>

ClaimSearch ==
    /\ TaskLockFree /\ LiveSearch # Unset /\ LiveSearch.phase = "Running" /\ ~LiveSearch.claimed
    /\ SearchBecomes([LiveSearch EXCEPT !.claimed = TRUE])
    /\ UNCHANGED <<assets, uploading, decoding, saving, connected, requests, done, torn>>

Authorize(request) ==
    /\ TaskLockFree /\ Matching(request) /\ holder = "search"
    /\ search' = [search EXCEPT !.left = Lease]
    /\ UNCHANGED <<assets, uploading, decoding, saving, holder, connected, requests, done, torn>>

CancelSearch(request) ==
    /\ TaskLockFree /\ search # Unset /\ search.request = request /\ search.phase = "Running"
    /\ search' = [search EXCEPT !.phase = "Cancelled"]
    /\ UNCHANGED <<assets, uploading, decoding, saving, holder, connected, requests, done, torn>>

EndPhase(t) == IF Remaining(t) = 0 THEN "Completed" ELSE "Failed"

Finish(request) ==
    /\ TaskLockFree /\ search # Unset /\ search.request = request
    /\ SearchBecomes([search EXCEPT !.owner = FALSE, !.phase = IF @ = "Running" THEN EndPhase(search) ELSE @])
    /\ UNCHANGED <<assets, uploading, decoding, saving, connected, requests, done, torn>>

-----------------------------------------------------------------------------
(***************************************************************************)
(* result: an image arrives, is decoded, and is saved or not.              *)
(***************************************************************************)
Decode(request, j) ==
    /\ AssetLockFree /\ Matching(request) /\ Remaining(search) > 0 /\ Next1(search) = j
    /\ decoding' = [request |-> request, journal |-> j]
    /\ UNCHANGED <<assets, search, uploading, saving, holder, connected, requests, done, torn>>

Judged(outcome) == [search EXCEPT !.results = Append(@, outcome)]
Done(j, outcome) == IF outcome = "Failed" THEN done ELSE done \cup {j}

Dropped ==
    /\ decoding # Unset /\ ~Matching(decoding.request)
    /\ SearchBecomes(LiveSearch) /\ decoding' = Unset
    /\ UNCHANGED <<assets, uploading, saving, connected, requests, done, torn>>

\* No image, or a record that is there already.
Decided ==
    /\ decoding # Unset /\ Matching(decoding.request) /\ decoding' = Unset
    /\ \E outcome \in {"Failed"} \cup (IF search.missing /\ manifest[decoding.journal] # Unset
                                        THEN {"Skipped"} ELSE {}) :
         search' = Judged(outcome) /\ done' = Done(decoding.journal, outcome)
    /\ UNCHANGED <<assets, uploading, saving, holder, connected, requests, torn>>

BeginSave ==
    /\ decoding # Unset /\ Matching(decoding.request) /\ decoding' = Unset
    /\ ~(search.missing /\ manifest[decoding.journal] # Unset)
    /\ \E digest \in Digest :
         saving' = [by |-> "downloaded", journal |-> decoding.journal, digest |-> digest,
                  missing |-> search.missing, imaged |-> FALSE]
    /\ UNCHANGED <<assets, search, uploading, holder, connected, requests, done, torn>>

Upload(j, digest) ==
    /\ TaskLockFree /\ AssetLockFree /\ j \in listed
    /\ ~Busy /\ HolderUnder(LiveSearch) = Unset
    /\ search' = LiveSearch /\ holder' = "upload" /\ uploading' = TRUE
    /\ saving' = [by |-> "uploaded", journal |-> j, digest |-> digest, missing |-> FALSE, imaged |-> FALSE]
    /\ UNCHANGED <<assets, decoding, connected, requests, done, torn>>

\* _save_cover: the record is looked for again under the manifest's lock, the
\* image is written, and then the manifest that names it.
Wanted(s) == s.journal \in listed /\ ~(s.missing /\ manifest[s.journal] # Unset)

\* Mutant: the record may come before the image it names.
ImageMayFollow(s) == TRUE
Imaged(s) == s.imaged

WriteImage ==
    /\ saving # Unset /\ ~saving.imaged /\ Wanted(saving)
    /\ images' = images \cup {<<saving.journal, saving.digest>>}
    /\ saving' = [saving EXCEPT !.imaged = TRUE]
    /\ UNCHANGED <<listed, manifest, search, uploading, decoding, holder, connected, requests, done, torn>>

\* Back in result() or upload().
SaveReturns(outcome) ==
    /\ saving' = Unset
    /\ IF saving.by = "uploaded"
       THEN uploading' = FALSE /\ holder' = Unset /\ UNCHANGED <<search, done>>
       ELSE search' = Judged(outcome) /\ done' = Done(saving.journal, outcome) /\ UNCHANGED <<uploading, holder>>
    /\ UNCHANGED <<listed, images, decoding, connected, requests, torn>>

WriteManifest ==
    /\ saving # Unset /\ Imaged(saving)
    /\ manifest' = [manifest EXCEPT ![saving.journal] = [digest |-> saving.digest, source |-> saving.by]]
    /\ \E outcome \in {"Saved", "Failed"} : SaveReturns(outcome)     \* the sync may fail after it

SaveSkips ==
    /\ saving # Unset /\ ~saving.imaged /\ saving.missing /\ manifest[saving.journal] # Unset
    /\ SaveReturns("Skipped") /\ UNCHANGED manifest

CoverSaveFails == saving # Unset /\ SaveReturns("Failed") /\ UNCHANGED manifest

\* reset: the whole directory, or what could be removed of it.
Resettable == TaskLockFree /\ AssetLockFree /\ ~Busy /\ HolderUnder(LiveSearch) = Unset

Reset ==
    /\ Resettable
    /\ manifest' = [j \in Journal |-> Unset] /\ images' = {}
    /\ search' = Unset /\ holder' = HolderUnder(LiveSearch)
    /\ UNCHANGED <<listed, uploading, decoding, saving, connected, requests, done, torn>>

ResetFails ==
    /\ Resettable
    /\ \E left \in SUBSET images : images' = left
    /\ manifest' \in {manifest, [j \in Journal |-> Unset]}
    /\ SearchBecomes(LiveSearch) /\ torn' = TRUE
    /\ UNCHANGED <<listed, uploading, decoding, saving, connected, requests, done>>

-----------------------------------------------------------------------------
(***************************************************************************)
(* Another web process, Settings, the Connector's lease, time and crashes  *)
(***************************************************************************)
OtherProcessUploads(j, digest) ==
    /\ (saving # Unset => ~saving.imaged) /\ j \in listed
    /\ images' = images \cup {<<j, digest>>}
    /\ manifest' = [manifest EXCEPT ![j] = [digest |-> digest, source |-> "uploaded"]]
    /\ UNCHANGED <<listed, search, uploading, decoding, saving, holder, connected, requests, done, torn>>

ListChanges(j) ==
    /\ listed' = IF j \in listed THEN listed \ {j} ELSE listed \cup {j}
    /\ UNCHANGED <<manifest, images, search, uploading, decoding, saving, holder, connected, requests, done, torn>>

ConnectionChanges ==
    /\ connected' = ~connected
    /\ UNCHANGED <<assets, search, uploading, decoding, saving, holder, requests, done, torn>>

OtherTakes ==
    /\ holder = Unset \/ (holder = "search" /\ search.left = 0)
    /\ holder' = "other"
    /\ UNCHANGED <<assets, search, uploading, decoding, saving, connected, requests, done, torn>>

OtherFrees ==
    /\ holder = "other" /\ holder' = Unset
    /\ UNCHANGED <<assets, search, uploading, decoding, saving, connected, requests, done, torn>>

LeaseTick ==
    /\ search # Unset /\ search.owner /\ search.left > 0
    /\ search' = [search EXCEPT !.left = @ - 1]
    /\ UNCHANGED <<assets, uploading, decoding, saving, holder, connected, requests, done, torn>>

RestartCovers ==
    /\ search' = Unset /\ uploading' = FALSE /\ decoding' = Unset /\ saving' = Unset
    /\ holder' = Unset /\ connected' = FALSE /\ done' = {}
    /\ UNCHANGED <<assets, requests, torn>>

CoverNext ==
    \/ StartMissing \/ Continue \/ Retry \/ SearchState \/ ClaimSearch
    \/ \E request \in 1..MaxRequests :
         \/ Authorize(request) \/ CancelSearch(request) \/ Finish(request)
         \/ \E j \in Journal : Decode(request, j)
    \/ Dropped \/ Decided \/ BeginSave
    \/ WriteImage \/ WriteManifest \/ SaveSkips \/ CoverSaveFails \/ Reset \/ ResetFails
    \/ \E j \in Journal :
         \/ StartOne(j) \/ ListChanges(j)
         \/ \E digest \in Digest : Upload(j, digest) \/ OtherProcessUploads(j, digest)
    \/ ConnectionChanges \/ OtherTakes \/ OtherFrees \/ LeaseTick \/ RestartCovers

CoverSpec == CoverInit /\ [][CoverNext]_coverVars

-----------------------------------------------------------------------------
(***************************************************************************)
(* Properties                                                              *)
(***************************************************************************)
\* Every field is of the kind the code stores in it, and results never
\* outnumber the Journals.
CoverTypes ==
    /\ listed \subseteq Journal /\ manifest \in [Journal -> Record \cup {Unset}]
    /\ images \subseteq Journal \X Digest
    /\ search \in SearchTask \cup {Unset} /\ (search # Unset => Len(search.results) <= Len(search.journals))
    /\ uploading \in BOOLEAN /\ decoding \in Decoding \cup {Unset} /\ saving \in CoverSave \cup {Unset}
    /\ holder \in {"search", "upload", "other", Unset} /\ connected \in BOOLEAN

\* A search has the browser until the Connector finishes it or its lease ends,
\* canceled or not, and an upload has it while it saves.
BrowserFollowsSearch ==
    /\ holder = "search" => search # Unset /\ search.owner
    /\ search # Unset /\ search.owner /\ search.left > 0 => holder = "search"
    /\ uploading <=> holder = "upload"

\* A search is called Completed only when every Journal was judged.
CompletedIsComplete == search # Unset /\ search.phase = "Completed" => Remaining(search) = 0

\* Continue and Retry never search again what was found since the start.
FoundIsDone ==
    search # Unset => \A i \in Len(search.results) + 1..Len(search.journals) : search.journals[i] \notin done

\* Whatever step a save is interrupted at, a record names an image that is there.
RecordsHaveImages ==
    ~torn => \A j \in Journal : manifest[j] # Unset => <<j, manifest[j].digest>> \in images

\* A search for missing covers never replaces one, also not one that was
\* uploaded, here or by another process, after it looked: only an upload does.
MissingReplacesNothing ==
    [][\A j \in Journal :
          saving # Unset /\ saving.by = "downloaded" /\ saving.missing /\ saving.journal = j
            /\ manifest[j] # Unset /\ manifest'[j] # manifest[j] => manifest'[j].source = "uploaded"]_coverVars

\* An image that was being decoded when its request was canceled, expired or
\* resumed under another is neither saved nor counted.
LateImageIsDropped ==
    [][decoding # Unset /\ decoding' = Unset /\ search' # Unset /\ search # Unset
         /\ (saving' # Unset \/ Len(search'.results) > Len(search.results))
         => search.request = decoding.request /\ search.phase = "Running"]_coverVars

\* A search for missing covers replaces none, also not one uploaded after it looked, and an image
\* still being decoded when its request ended is not recorded.
CoversStand == MissingReplacesNothing /\ LateImageIsDropped

\* A search has the browser until it is finished, Completed is said when every
\* Journal was judged, nothing found is searched again, and every record names
\* an image that is there.
CoversAreTrue == CoverTypes /\ BrowserFollowsSearch /\ CompletedIsComplete /\ FoundIsDone /\ RecordsHaveImages
==============================================================================
