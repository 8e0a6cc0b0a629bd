-------------------------- MODULE SnapshotDownload --------------------------
(***************************************************************************)
(* Recovery from a snapshot, page by page (store/snapshot.go).  Creating a *)
(* snapshot cuts it into pages; the owner then asks for one page after the *)
(* other, while writes, collections, prunes and restarts go on.  A page    *)
(* that is refused, because the snapshot is gone or its lease has run out, *)
(* is not a step: the client can only begin again, with an empty staging   *)
(* area.  The client is external: what it checks before it adopts a        *)
(* finished download is section 11.2 of SYNC-PROTOCOL.md.                  *)
(***************************************************************************)
EXTENDS Startup, SequencesExt

CONSTANTS
  PageItems,      \* items of a snapshot page (128)
  BodyLimit,      \* room for the items of a page (maxBodyBytes)
  LiveSize        \* room a live revision takes; any other item takes 1

\* One item fits in a page.
ASSUME SizeAssumption ==
  /\ {PageItems, LiveSize} \subseteq Nat \ {0}
  /\ BodyLimit \in Nat
  /\ LiveSize <= BodyLimit

VARIABLES
  pages,          \* snapshot_pages, by owner
  staging         \* the client of each device: the pages it has so far

downloadVars == <<vars, pages, staging>>

\* An item of a page: a revision, a marker or a row of the registry.
RevisionItem(c) == [phase |-> "revision", of |-> c]
MarkerItem(m) == [phase |-> "marker", of |-> m]
SourceItem(d) == [phase |-> "source", of |-> d, counter |-> dev[d].counter]

\* ORDER BY record_id, revision_id.
HeadBefore(c, x) ==
  \/ rev[c].record < rev[x].record
  \/ /\ rev[c].record = rev[x].record
     /\ IdRank[rev[c].author][rev[c].counter] < IdRank[rev[x].author][rev[x].counter]

OrderedHeads == SetToSortSeq(heads, HeadBefore)

OrderedMarkers == SetToSortSeq({marker[r] : r \in Record} \ {0},
                               LAMBDA m, n : marks[m].record < marks[n].record)

Size(item) ==
  IF item.phase = "revision" /\ ~rev[item.of].tombstone THEN LiveSize ELSE 1

\* snapshotPageFits.
PageFits(page) ==
  FoldLeft(LAMBDA total, item : total + Size(item), 0, page) <= BodyLimit

\* Mutant: the item that did not fit is left out.
PutDropping(filled, item) ==
  IF Len(filled.page) + 1 > PageItems \/ ~PageFits(Append(filled.page, item))
  THEN [finished |-> Append(filled.finished, filled.page), page |-> <<>>]
  ELSE [filled EXCEPT !.page = Append(@, item)]

\* The next item goes on the page at hand, or on a new one when that is full.
Put(filled, item) ==
  IF Len(filled.page) + 1 > PageItems \/ ~PageFits(Append(filled.page, item))
  THEN [finished |-> Append(filled.finished, filled.page), page |-> <<item>>]
  ELSE [filled EXCEPT !.page = Append(@, item)]

\* finishRevisionPage and finishMarkerPage: the last page unless it is empty.
Paged(items) ==
  LET filled == FoldLeft(Put, [finished |-> <<>>, page |-> <<>>], items)
  IN IF filled.page = <<>> THEN filled.finished ELSE Append(filled.finished, filled.page)

\* Mutant: no pages of markers.
PlanWithoutMarkers ==
  Paged([i \in DOMAIN OrderedHeads |-> RevisionItem(OrderedHeads[i])])
  \o <<SetToSeq({SourceItem(d) : d \in Registered})>>

\* buildSnapshotPlan: the heads, then the markers, then the registry on one page (it
\* has at least the device that asks).
\* A page of each kind holds items of that kind only.
SnapshotPlan ==
  Paged([i \in DOMAIN OrderedHeads |-> RevisionItem(OrderedHeads[i])])
  \o Paged([i \in DOMAIN OrderedMarkers |-> MarkerItem(OrderedMarkers[i])])
  \o <<SetToSeq({SourceItem(d) : d \in Registered})>>

-----------------------------------------------------------------------------
\* No download: the next page is 0 when there is none to ask for.
NotStaging == [cut |-> 0, next |-> 0, got |-> <<>>]

\* The rows of snapshot_pages go with the row of their snapshot.
PagesKept == [d \in Device |-> IF snap'[d].cut = 0 THEN <<>> ELSE pages[d]]

\* handleCreateSnapshot; the client starts over with the first page's token.
BeginDownload(d, expired) ==
  /\ CreateSnapshot(d, expired)
  /\ pages' = [PagesKept EXCEPT ![d] = SnapshotPlan]
  /\ staging' = [staging EXCEPT ![d] = [cut |-> serverCursor, next |-> 1, got |-> <<>>]]

\* handleSnapshotPage: the owner is still active, its snapshot and lease are
\* there, and so is every body.
ReadPage(d) ==
  LET k == staging[d].next IN
  /\ k # 0
  /\ d \in Active
  /\ d \in Owners(snap) \cap lease
  /\ \A i \in DOMAIN pages[d][k] :
       pages[d][k][i].phase = "revision" => pages[d][k][i].of \in objects
  /\ staging' = [staging EXCEPT ![d] =
                   [@ EXCEPT !.next = IF k < Len(pages[d]) THEN k + 1 ELSE 0,
                             !.got = @ \o pages[d][k]]]
  /\ UNCHANGED <<vars, pages>>

\* The other handlers, and the restart.
Elsewhere ==
  /\ \/ \E d \in Device : Enroll(d) \/ Sync(d)
     \/ \E actor \in Managers, d \in Device : Revoke(actor, d, TRUE, 0)
     \/ \E d \in Device : PutEnvelope(d, envelopeGeneration, envelopeGeneration + 1, 0)
     \/ \E d \in Device, expired \in SUBSET Owners(snap) : CreateSnapshotRolledBack(d, expired)
     \/ Restart
  /\ pages' = PagesKept
  /\ UNCHANGED staging

DownloadInit ==
  /\ Init
  /\ pages = [d \in Device |-> <<>>]
  /\ staging = [d \in Device |-> NotStaging]

DownloadNext ==
  \/ \E d \in Device, expired \in SUBSET Owners(snap) : BeginDownload(d, expired)
  \/ \E d \in Device : ReadPage(d)
  \/ Elsewhere

DownloadSpec == DownloadInit /\ [][DownloadNext]_downloadVars

-----------------------------------------------------------------------------
\* The pages of a snapshot that validatePersistentSnapshots accepts: none is empty,
\* mixes phases or holds too much, the phases follow each other, and the items of
\* a phase are in order over all its pages.
PhaseRank(item) ==
  CASE item.phase = "revision" -> 0 [] item.phase = "marker" -> 1 [] item.phase = "source" -> 2

ValidPages(d) ==
  LET stream == FlattenSeq(pages[d]) IN
  /\ \A k \in DOMAIN pages[d] :
       /\ pages[d][k] # <<>>
       /\ Len(pages[d][k]) <= IF pages[d][k][1].phase = "source" THEN MaxDevices ELSE PageItems
       /\ \A i \in DOMAIN pages[d][k] : pages[d][k][i].phase = pages[d][k][1].phase
  /\ \A i, j \in DOMAIN stream : i < j =>
       \/ PhaseRank(stream[i]) < PhaseRank(stream[j])
       \/ /\ stream[i].phase = stream[j].phase
          /\ stream[i].phase = "revision" => HeadBefore(stream[i].of, stream[j].of)
          /\ stream[i].phase = "marker" => marks[stream[i].of].record < marks[stream[j].of].record
          /\ stream[i].phase = "source" => stream[i].of # stream[j].of

\* Together they are the snapshot: its references, its markers, and the registry
\* at its cut with the counters of then.
PagesMatch(d) ==
  LET items == ToSet(FlattenSeq(pages[d]))
      Listed(phase) == {item.of : item \in {x \in items : x.phase = phase}}
  IN /\ Listed("revision") = snap[d].refs
     /\ Listed("marker") = snap[d].markers
     /\ {item \in items : item.phase = "source"} =
          {[phase |-> "source", of |-> e, counter |-> snap[d].sources[e]] :
             e \in {x \in Registered : dev[x].created <= snap[d].cut}}

\* The store never leaves a snapshot behind that its next start would refuse:
\* through later enrollments, writes, collections and prunes, its row, its
\* references and its pages stay what the history says they were at the cut
\* (handleCreateSnapshot, validatePersistentSnapshots).
SnapshotsAccepted ==
  ValidSnapshots /\ \A d \in Owners(snap) : ValidPages(d) /\ PagesMatch(d)

-----------------------------------------------------------------------------
Finished(d) == staging[d].cut # 0 /\ staging[d].next = 0

\* What the client of d has of a phase.
Got(d, phase) ==
  {staging[d].got[i].of : i \in {j \in DOMAIN staging[d].got : staging[d].got[j].phase = phase}}

GotCounter(d, e) ==
  Highest({staging[d].got[i].counter :
             i \in {j \in DOMAIN staging[d].got :
                      staging[d].got[j].phase = "source" /\ staging[d].got[j].of = e}})

\* A finished download, however long it took and whatever was collected, pruned
\* or written meanwhile, misses nothing: what is now a head, a current marker or
\* a device up to the cut is in it, each item once, and unless the floor has passed
\* the cut the log goes on from there (buildSnapshotPlan's paging,
\* handleSnapshotPage).
DownloadMissesNothing ==
  \A d \in Device : Finished(d) =>
    LET cut == staging[d].cut
    IN /\ heads \cap 1..cut \subseteq Got(d, "revision")
       /\ {marker[r] : r \in Record} \cap 1..cut \subseteq Got(d, "marker")
       /\ Got(d, "source") = {e \in Registered : dev[e].created <= cut}
       /\ cut >= cursorFloor => (cut + 1)..serverCursor \subseteq changes
       /\ \A i, j \in DOMAIN staging[d].got : staging[d].got[i] = staging[d].got[j] => i = j

\* A finished download can be adopted by a client with any checkpoint: the checks
\* SYNC-PROTOCOL.md asks of it pass.  Every device that a vector names is in the
\* registry with a counter at least as high; every revision accepted up to the
\* cut has one witness of its own (itself, one revision that dominates it, or one
\* marker for it or above it), and every earlier marker is there or replaced by
\* a dominating one.  Several vectors are never combined.
DownloadActivates ==
  \A d \in Device : Finished(d) =>
    LET cut == staging[d].cut
        revisions == Got(d, "revision")
        witnesses == {marks[m].witness : m \in Got(d, "marker")}
        Continues(c, w) == rev[w].record = rev[c].record
                           /\ (w = c \/ Dominates(rev[w].vec, rev[c].vec))
    IN /\ \A w \in revisions \cup witnesses, e \in Device :
            rev[w].vec[e] # 0 => e \in Got(d, "source") /\ rev[w].vec[e] <= GotCounter(d, e)
       /\ \A c \in Revisions \cap 1..cut : \E w \in revisions \cup witnesses : Continues(c, w)
       /\ \A m \in DOMAIN marks \cap 1..cut : \E w \in witnesses : Continues(marks[m].witness, w)

=============================================================================
