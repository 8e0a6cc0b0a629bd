------------------------------- MODULE Startup -------------------------------
(***************************************************************************)
(* validatePersistentState (store/validation.go): the checks a process     *)
(* runs over the whole database before it serves.  Each operator below is  *)
(* the cross-row part of one validator; row encodings are abstracted.  The *)
(* database of every reachable state must pass, or the store would refuse  *)
(* at its next start a database that it wrote itself.                      *)
(***************************************************************************)
EXTENDS SyncStore

Cursors == 1..serverCursor

ValidRuntime == cursorFloor <= serverCursor

ValidDevices ==
  /\ Cardinality(Registered) <= MaxDevices
  /\ \A d \in Registered :
       /\ dev[d].created \in Cursors
       /\ dev[d].status = "revoked" <=> dev[d].revoked # 0
       /\ dev[d].revoked # 0 => dev[d].revoked \in (dev[d].created + 1)..serverCursor
       /\ dev[d].ack <= dev[d].returned
       /\ dev[d].returned <= serverCursor

\* validatePersistentChangeOrigins: the cursors up to the server cursor each
\* have one origin, its kind has exactly one owner, and the envelope's
\* generations are the envelope origins in order.
Enrolled(c) == {d \in Registered : dev[d].created = c}
Revoked(c) == {d \in Registered : dev[d].revoked = c}

ValidChangeOrigins ==
  /\ DOMAIN origin = Cursors
  /\ \A c \in Cursors :
       /\ origin[c] = "record_revision" <=> c \in Revisions
       /\ origin[c] = "collection_marker" <=> c \in DOMAIN marks
       /\ origin[c] = "device_changed" <=>
            Cardinality(Enrolled(c)) + Cardinality(Revoked(c)) = 1
       /\ c \in changes <=> c \notin DOMAIN collected
  /\ Cardinality({c \in Cursors : origin[c] = "envelope_changed"}) = envelopeGeneration
  /\ \A d \in Registered : origin[dev[d].created] = "device_changed"
  /\ \A m \in DOMAIN marks :
       LET r == marks[m].record IN marker[r] >= m /\ marks[marker[r]].record = r

\* advanceFrontier, over the revisions of S up to each cursor in turn: no record
\* ever has more than MaxSiblings of them undominated.
ReplayFits(S) ==
  \A c \in S :
    LET past == {x \in S : x <= c /\ rev[x].record = rev[c].record}
    IN Cardinality(Frontier(rev, past)) <= MaxSiblings

\* validatePersistentRevisions: every revision was accepted after its author and
\* the devices its vector names were enrolled, and its body and change are there
\* unless it was collected.
ValidRevisions ==
  /\ \A c \in Revisions :
       LET v == rev[c].vec IN
       /\ v[rev[c].author] = rev[c].counter
       /\ \A d \in Device : v[d] # 0 =>
            /\ d \in Registered
            /\ dev[d].created < c
            /\ v[d] <= dev[d].counter
       /\ c \in Retained => c \in objects /\ c \in changes
       /\ c \in DOMAIN collected => collected[c] \in 1..collectionGeneration
  /\ ReplayFits(Revisions)

\* The startup check of the stored heads (validatePersistentRevisions,
\* flushFrontier): they are the frontier that replaying the retained revisions
\* reproduces.
ValidFrontier ==
  /\ ReplayFits(Retained)
  /\ heads = Frontier(rev, Retained)

\* validatePersistentHistorySequence and the counter check of
\* validatePersistentState: each author's counters are 1, 2, ... up to its row's,
\* and the floor is the highest collected cursor.
ValidHistorySequence ==
  /\ \A d \in Registered :
       LET own == {c \in Revisions : rev[c].author = d}
       IN /\ {rev[c].counter : c \in own} = 1..dev[d].counter
          /\ Cardinality(own) = dev[d].counter
  /\ cursorFloor = Highest(DOMAIN collected)

\* validatePersistentCollectionGenerationSequence.
ValidCollectionGenerations ==
  {collected[c] : c \in DOMAIN collected} = 1..collectionGeneration

\* validatePersistentRecordVectorIndex: no two revisions of a record share a
\* vector.
ValidVectorIndex ==
  \A c, x \in Revisions :
    rev[c].record = rev[x].record /\ rev[c].vec = rev[x].vec => c = x

\* validatePersistentCollectionQueues.
ValidCollectionQueues ==
  /\ candidates = Retained
  /\ \A r \in Record :
       LET own == {c \in Revisions : rev[c].record = r}
       IN /\ barrier[r] # 0 <=> own \cap Retained # {}
          /\ barrier[r] # 0 => barrier[r] = Highest(own)

\* validatePersistentMarkers.
ValidMarkers ==
  \A r \in Record : marker[r] # 0 =>
    LET m == marks[marker[r]] IN
    /\ m.record = r
    /\ m.barrier < marker[r]
    /\ rev[m.witness].record = r
    /\ rev[m.witness].witness
    /\ \A d \in Device : rev[m.witness].vec[d] <= dev[d].counter

\* validatePersistentChanges: above the floor the rows have no gap.
ValidChanges ==
  /\ (cursorFloor + 1)..serverCursor \subseteq changes
  /\ changes \subseteq Cursors

\* validatePersistentSnapshots, the row: its owner was enrolled by the cut, the cut
\* and the collection generation were reached, and the envelope is the one then.
ValidSnapshotRow(d) ==
  LET sn == snap[d] IN
  /\ d \in Registered
  /\ dev[d].created <= sn.cut
  /\ sn.cut <= serverCursor
  /\ sn.generation <= collectionGeneration
  /\ sn.envelope = Cardinality({c \in 1..sn.cut : origin[c] = "envelope_changed"})

\* Its references: the frontier of everything accepted up to the cut, less a
\* tombstone collected before it that its marker names.
ValidSnapshotFrontier(d) ==
  LET sn == snap[d]
      front == Frontier(rev, {c \in Revisions : c <= sn.cut})
      before(c) == c \in DOMAIN collected /\ collected[c] <= sn.generation
  IN /\ sn.refs \subseteq front
     /\ \A c \in sn.refs : ~before(c)
     /\ \A c \in front \ sn.refs :
          /\ rev[c].tombstone
          /\ before(c)
          /\ \E m \in sn.markers : marks[m].witness = c

\* Its markers and counters: the last marker of each record and the revisions of
\* each author up to the cut, and no vector ahead of those counters.
ValidSnapshotContext(d) ==
  LET sn == snap[d]
      past == {m \in DOMAIN marks : m <= sn.cut}
  IN /\ sn.markers = {m \in past : \A n \in past :
                        marks[n].record = marks[m].record => n <= m}
     /\ \A m \in sn.markers : marks[m].barrier <= sn.cut
     /\ \A e \in Device : sn.sources[e] =
          Cardinality({c \in Revisions : c <= sn.cut /\ rev[c].author = e})
     /\ \A c \in sn.refs \union {marks[m].witness : m \in sn.markers}, e \in Device :
          rev[c].vec[e] <= sn.sources[e]

\* A snapshot is what the permanent history says the store held at its cut and
\* collection generation (validatePersistentSnapshots).
ValidSnapshots ==
  /\ Cardinality(Owners(snap)) <= MaxSnapshots
  /\ \A d \in Owners(snap) :
       ValidSnapshotRow(d) /\ ValidSnapshotFrontier(d) /\ ValidSnapshotContext(d)

\* validatePersistentObjectReferences: no object without a reference.
ValidObjectReferences == objects \subseteq Retained \cup References(snap)

\* The store never commits a state that its next start would refuse: after every
\* handler the tables pass validatePersistentState.  The replayed heads and the
\* snapshots are properties of their own.
RestartAccepted ==
  /\ ValidRuntime
  /\ ValidDevices
  /\ ValidChangeOrigins
  /\ ValidRevisions
  /\ ValidHistorySequence
  /\ ValidCollectionGenerations
  /\ ValidVectorIndex
  /\ ValidCollectionQueues
  /\ ValidMarkers
  /\ ValidChanges
  /\ ValidObjectReferences

=============================================================================
