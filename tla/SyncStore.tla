------------------------------ MODULE SyncStore ------------------------------
(***************************************************************************)
(* The durable sync state of one instance (runtime/internal/store): the    *)
(* device registry, the cursor-numbered change log, record revisions and   *)
(* their heads, acknowledgement-gated collection with its markers, the     *)
(* vault envelope generation and leased snapshots.                         *)
(*                                                                         *)
(* The store opens its database with one connection, so every handler is   *)
(* one serialized transaction and one action here.  A request the code     *)
(* refuses is rolled back and changes nothing durable: its conditions are  *)
(* the guards below.  The refusals that still change the process's memory  *)
(* (snapshot leases dropped by a transaction that later rolls back) are    *)
(* actions of their own.                                                   *)
(*                                                                         *)
(* A revision is named by its change cursor, which is unique and permanent *)
(* (record_revisions.change_cursor).  Records are positive naturals in the *)
(* order of their UUIDs; 0 is the empty scan position.                     *)
(***************************************************************************)
EXTENDS VersionVectors, FiniteSets, Sequences

CONSTANTS
  Record,           \* record ids
  Shapes,           \* the <<tombstone, witness>> pairs clients write
  Managers,         \* the devices that revoke
  IdRank,           \* IdRank[d][k]: place of the id d draws for its k-th
                    \* revision in the order of revision ids
  MaxCursor,        \* the largest cursor        (2^64-1 in the code)
  MaxCounter,       \* the largest author counter (2^64-1)
  MaxEnvelopes,     \* the largest envelope generation (2^64-1)
  MaxCollections,   \* the largest collection generation (2^64-1)
  MaxUptime,        \* the largest accumulated uptime (2^64-1 ms)
  MaxElapsed,       \* the most uptime one checkpoint adds
  MinRetention,     \* uptime a revision must age (90 days)
  MaxDevices,       \* registry capacity (64)
  MaxSiblings,      \* undominated revisions of a record (32)
  MaxMutations,     \* new revisions in one sync (256)
  PageSize,         \* changes in one response (128)
  PageTrims,        \* how many of them the body limit may cut off
  RecordBatch,      \* records one collection pass visits (32)
  CandidateBatch,   \* revisions one pass considers per record (256)
  MaxSnapshots      \* snapshots of an instance (8)

\* There is a last record id: the space of UUIDs is finite.
ASSUME RecordAssumption ==
  /\ Record \subseteq Nat
  /\ \E last \in Record \cup {0} : Record \subseteq 1..last

ASSUME ManagerAssumption == Managers \subseteq Device

ASSUME BoundAssumption ==
  {MaxCursor, MaxCounter, MaxEnvelopes, MaxCollections, MaxUptime, MaxElapsed,
   MinRetention, MaxDevices, MaxSiblings, MaxMutations, PageSize, RecordBatch,
   CandidateBatch, MaxSnapshots} \subseteq Nat

VARIABLES
  serverCursor,         \* runtime_state.server_cursor
  cursorFloor,          \* runtime_state.cursor_floor
  collectionGeneration, \* runtime_state.collection_generation
  envelopeGeneration,   \* runtime_state.envelope_generation
  accumulatedUptime,    \* runtime_state.accumulated_uptime_ms
  scanAfter,            \* runtime_state.collection_scan_after_record_id
  dev,                  \* devices, device_origins, device_sync_state
  origin,               \* change_origins: the kind of every cursor
  changes,              \* the cursors that still have a changes row
  rev,                  \* record_revisions, permanent columns
  collected,            \* record_revisions.collected_generation, where set
  heads,                \* record_heads and the undominated flag
  candidates,           \* collection_candidates
  objects,              \* revision_objects
  barrier,              \* collection_records.barrier_cursor, 0 = no row
  marks,                \* the marker bodies of the collection_marker changes
  marker,               \* collection_markers.change_cursor, 0 = no row
  snap,                 \* snapshots by owner, cut 0 = no row
  lease                 \* ephemeral.snapshotDeadlines, by owner

runtimeVars == <<serverCursor, cursorFloor, collectionGeneration,
                 envelopeGeneration, accumulatedUptime, scanAfter>>
historyVars == <<origin, changes, rev, collected, heads, candidates, objects,
                 barrier, marks, marker>>
vars == <<runtimeVars, dev, historyVars, snap, lease>>

Kinds == {"record_revision", "collection_marker", "device_changed",
          "envelope_changed"}

Revision == [record : Record, author : Device, counter : Nat, vec : Vector,
             tombstone : BOOLEAN, witness : BOOLEAN, uptime : Nat]

\* What a request may say of a new revision by d (validateRevision): the
\* vector's entry for the author is the author's counter.  witness is the
\* presence of a collection witness authenticator.
Mutation(d) ==
  {m \in [record : Record, counter : 1..MaxCounter,
          vec : [Device -> 0..MaxCounter],
          tombstone : BOOLEAN, witness : BOOLEAN] :
     m.vec[d] = m.counter /\ <<m.tombstone, m.witness>> \in Shapes}

Batches(d) == UNION {[1..n -> Mutation(d)] : n \in 0..MaxMutations}

DeviceRow == [status : {"absent", "active", "revoked"}, ack : Nat,
              returned : Nat, counter : Nat, created : Nat, revoked : Nat]

NoDevice == [status |-> "absent", ack |-> 0, returned |-> 0, counter |-> 0,
             created |-> 0, revoked |-> 0]

NoSnapshot == [cut |-> 0, envelope |-> 0, generation |-> 0, refs |-> {},
               markers |-> {}, sources |-> [d \in Device |-> 0]]

Larger(a, b) == IF a >= b THEN a ELSE b
Smaller(a, b) == IF a <= b THEN a ELSE b

\* The largest element of a nonempty set of naturals; 0 for the empty set.
Highest(S) == IF S = {} THEN 0 ELSE CHOOSE c \in S : \A x \in S : x <= c

\* The first k members of a set of naturals.
First(S, k) == {r \in S : Cardinality({q \in S : q < r}) < k}

Active == {d \in Device : dev[d].status = "active"}
Registered == {d \in Device : dev[d].status # "absent"}
Revisions == DOMAIN rev
Retained == Revisions \ DOMAIN collected

Owners(sn) == {d \in Device : sn[d].cut # 0}
References(sn) == UNION {sn[d].refs : d \in Device}

\* The vector of the revision that the current marker of r names as witness.
MarkerFrontier(r) == rev[marks[marker[r]].witness].vec

-----------------------------------------------------------------------------
(* Enrollment, revocation and the envelope: one change each. *)

\* reserveCursors(1), insertChangeOrigin, insertChange and setServerCursor for
\* a change that is not a revision or a marker.
AppendChange(kind) ==
  /\ serverCursor < MaxCursor
  /\ serverCursor' = serverCursor + 1
  /\ origin' = [c \in 1..(serverCursor + 1) |->
                  IF c <= serverCursor THEN origin[c] ELSE kind]
  /\ changes' = changes \cup {serverCursor + 1}
  /\ UNCHANGED <<cursorFloor, collectionGeneration, scanAfter, rev, collected,
                 heads, candidates, objects, barrier, marks, marker, snap,
                 lease>>

\* Mutant: the sum is not clamped.
UnclampedUptime(elapsed) == accumulatedUptime + elapsed

\* checkpointUptimeTx with elapsed more uptime on the process's clock.
Checkpointed(elapsed) == Smaller(accumulatedUptime + elapsed, MaxUptime)

\* handleEnrollment, the path that creates a device.  The grant it consumes and
\* the replies to retries are outside this module.
Enroll(d) ==
  /\ dev[d].status = "absent"
  /\ Cardinality(Registered) < MaxDevices
  /\ AppendChange("device_changed")
  /\ dev' = [dev EXCEPT ![d] = [NoDevice EXCEPT
               !.status = "active", !.created = serverCursor + 1]]
  /\ UNCHANGED <<envelopeGeneration, accumulatedUptime>>

\* Mutant: the origin row does not get the revocation's cursor.
RevokeUnrecorded(actor, d, confirmed, elapsed) ==
  /\ actor \in Active
  /\ d \in Active
  /\ Active = {d} => confirmed
  /\ AppendChange("device_changed")
  /\ dev' = [dev EXCEPT ![d].status = "revoked"]
  /\ accumulatedUptime' = Checkpointed(elapsed)
  /\ UNCHANGED envelopeGeneration

\* handleRevokeDevice.  Any active device may revoke any active device, itself
\* included; confirmed is allow_zero_active.  Its receipt checkpoints uptime.
Revoke(actor, d, confirmed, elapsed) ==
  /\ actor \in Active
  /\ d \in Active
  /\ Active = {d} => confirmed
  /\ AppendChange("device_changed")
  /\ dev' = [dev EXCEPT ![d].status = "revoked",
                        ![d].revoked = serverCursor + 1]
  /\ accumulatedUptime' = Checkpointed(elapsed)
  /\ UNCHANGED envelopeGeneration

\* handlePutEnvelope: the request names the stored generation and its exact
\* successor.
PutEnvelope(d, expected, generation, elapsed) ==
  /\ d \in Active
  /\ expected = envelopeGeneration
  /\ envelopeGeneration < MaxEnvelopes
  /\ generation = envelopeGeneration + 1
  /\ AppendChange("envelope_changed")
  /\ envelopeGeneration' = generation
  /\ accumulatedUptime' = Checkpointed(elapsed)
  /\ UNCHANGED dev

-----------------------------------------------------------------------------
(* Acceptance: what a sync does before it collects. *)

\* The transaction of a sync by d after its new revisions, uptime checkpoint
\* and acknowledgement are written.  The i-th new revision has the i-th next
\* cursor.
Staged(d, ack, muts, elapsed) ==
  LET up  == Checkpointed(elapsed)
      top == serverCursor + Len(muts)
      New == (serverCursor + 1)..top
      R   == [c \in Revisions \cup New |->
                IF c \in Revisions THEN rev[c]
                ELSE LET m == muts[c - serverCursor]
                     IN [record |-> m.record, author |-> d,
                         counter |-> m.counter, vec |-> m.vec,
                         tombstone |-> m.tombstone, witness |-> m.witness,
                         uptime |-> up]]
  IN [cursor     |-> top,
      uptime     |-> up,
      new        |-> New,
      rev        |-> R,
      heads      |-> Frontier(R, heads \cup New),
      candidates |-> candidates \cup New,
      barrier    |-> [r \in Record |->
                        LET own == {c \in New : R[c].record = r}
                        IN IF own = {} THEN barrier[r] ELSE Highest(own)],
      acks       |-> [e \in Active |-> IF e = d THEN ack ELSE dev[e].ack]]

\* Mutant: the collection marker is not consulted.
MutationsPastMarker(d, muts) ==
  \A i \in 1..Len(muts) :
    LET m == muts[i] IN
    /\ m.counter = dev[d].counter + i
    /\ \A e \in Device \ {d} : m.vec[e] <= dev[e].counter
    /\ \A c \in Revisions : rev[c].record = m.record => rev[c].vec # m.vec
    /\ \A j \in 1..(i - 1) : muts[j].record = m.record => muts[j].vec # m.vec

\* validateMutations for the new items of a batch, in counter order (an item the
\* store already has is skipped): the counter is the successor of the last one
\* (none follows MaxCounter), the vector's other entries are known counters, the
\* revision strictly dominates the record's marker, and its vector is new to the
\* record.
ValidMutations(d, muts) ==
  \A i \in 1..Len(muts) :
    LET m == muts[i] IN
    /\ m.counter = dev[d].counter + i
    /\ \A e \in Device \ {d} : m.vec[e] <= dev[e].counter
    /\ marker[m.record] # 0 => Dominates(m.vec, MarkerFrontier(m.record))
    /\ \A c \in Revisions : rev[c].record = m.record => rev[c].vec # m.vec
    /\ \A j \in 1..(i - 1) : muts[j].record = m.record => muts[j].vec # m.vec

\* validateRecordCausality's bound, at every prefix of the batch.
SiblingsFit(s) ==
  \A top \in s.new :
    LET r == s.rev[top].record
        S == {c \in heads \cup (s.new \cap 1..top) : s.rev[c].record = r}
    IN Cardinality(Frontier(s.rev, S)) <= MaxSiblings

-----------------------------------------------------------------------------
(* Collection: collectEligible over a staged sync s. *)

\* loadCollectionRecordBatch, wrapping to the start when the scan has passed
\* the last queued record.  No pass runs at the last generation.
Batch(s) ==
  LET queued(from) == {r \in Record : s.barrier[r] # 0 /\ r > from}
      from == IF queued(scanAfter) = {} THEN 0 ELSE scanAfter
  IN IF collectionGeneration = MaxCollections THEN {}
     ELSE First(queued(from), RecordBatch)

\* Mutant: the scan position is never stored.
ScanNotAdvanced(batch) == scanAfter

\* The scan position a pass over batch leaves.
ScanAfter(batch) ==
  IF collectionGeneration = MaxCollections THEN scanAfter ELSE Highest(batch)

\* Mutant: newest candidates first.
QueuedAfter(s, x, c) ==
  \/ s.rev[x].uptime > s.rev[c].uptime
  \/ /\ s.rev[x].uptime = s.rev[c].uptime
     /\ IdRank[s.rev[x].author][s.rev[x].counter]
          > IdRank[s.rev[c].author][s.rev[c].counter]

\* The order of a record's candidate queue: acceptance uptime, then revision id.
QueuedBefore(s, x, c) ==
  \/ s.rev[x].uptime < s.rev[c].uptime
  \/ /\ s.rev[x].uptime = s.rev[c].uptime
     /\ IdRank[s.rev[x].author][s.rev[x].counter]
          < IdRank[s.rev[c].author][s.rev[c].counter]

\* Mutant: no retention cutoff.
CandidatesOfAnyAge(s, r) ==
  LET all == {c \in s.candidates : s.rev[c].record = r}
  IN {c \in all :
        Cardinality({x \in all : QueuedBefore(s, x, c)}) < CandidateBatch}

\* loadCollectionRecordWork: the oldest candidates of r past the retention age.
CandidateRows(s, r) ==
  LET aged == {c \in s.candidates : /\ s.rev[c].record = r
                                    /\ s.rev[c].uptime + MinRetention <= s.uptime}
  IN {c \in aged :
        Cardinality({x \in aged : QueuedBefore(s, x, c)}) < CandidateBatch}

\* Mutant: off by one.
NearlyAcknowledged(s, r) == \A e \in DOMAIN s.acks : s.acks[e] + 1 >= s.barrier[r]

\* allAcknowledged: every active device has acknowledged the record's barrier.
Acknowledged(s, r) == \A e \in DOMAIN s.acks : s.acks[e] >= s.barrier[r]

\* Mutant: the witness need not be ahead of the marker.
RepeatedWitness(s, r) ==
  {w \in s.heads :
     /\ s.rev[w].record = r
     /\ s.rev[w].witness
     /\ \A h \in s.heads \ {w} :
          s.rev[h].record = r => Dominates(s.rev[w].vec, s.rev[h].vec)}

\* selectAdvancingWitness, as a set of at most one head.
AdvancingWitness(s, r) ==
  {w \in s.heads :
     /\ s.rev[w].record = r
     /\ s.rev[w].witness
     /\ marker[r] # 0 => Dominates(s.rev[w].vec, MarkerFrontier(r))
     /\ \A h \in s.heads \ {w} :
          s.rev[h].record = r => Dominates(s.rev[w].vec, s.rev[h].vec)}

\* Mutant: a live witness covers itself.
CoveredWithLive(s, S, w, v) == {c \in S : c = w \/ Dominates(v, s.rev[c].vec)}

\* Mutant: the vectors are compared the wrong way round.
CoveredSwapped(s, S, w, v) ==
  {c \in S : IF c = w THEN s.rev[c].tombstone ELSE Dominates(s.rev[c].vec, v)}

\* What a witness w with vector v covers: revisions it strictly dominates, and
\* itself when it is a tombstone.
Covered(s, S, w, v) ==
  {c \in S : IF c = w THEN s.rev[c].tombstone ELSE Dominates(v, s.rev[c].vec)}

WitnessCovered(s, r) ==
  UNION {Covered(s, CandidateRows(s, r), w, s.rev[w].vec) :
           w \in AdvancingWitness(s, r)}

MarkerCovered(s, r) ==
  IF marker[r] = 0 THEN {}
  ELSE Covered(s, CandidateRows(s, r), marks[marker[r]].witness, MarkerFrontier(r))

\* What a pass over the staged sync s does: the records it visits, those that
\* get a new marker with its cursor, and the revisions it collects.  A record
\* with a witness to advance to and something to collect under it gets the next
\* cursor in record order while the cursor space lasts; any other acknowledged
\* record is collected under the marker it has.
Pass(s) ==
  LET batch == Batch(s)
      due   == {r \in batch : Acknowledged(s, r)}
      ready == {r \in due : WitnessCovered(s, r) # {}}
      place(r)  == s.cursor + Cardinality({q \in ready : q <= r})
      advancing == {r \in ready : place(r) <= MaxCursor}
  IN [batch     |-> batch,
      advancing |-> advancing,
      place     |-> [r \in advancing |-> place(r)],
      taken     |-> (UNION {WitnessCovered(s, r) : r \in advancing})
                      \cup (UNION {MarkerCovered(s, r) : r \in due \ advancing})]

\* Mutant: the floor stays.
FloorNotRaised(p) == cursorFloor

\* Mutant: the floor follows the last pass, even down.
FloorOfPass(p) == Highest(p.taken)

\* The floor is the highest cursor ever collected.
FloorAfter(p) == Larger(cursorFloor, Highest(p.taken))

-----------------------------------------------------------------------------
(* Snapshot rows and the objects they hold. *)

\* The owners a prune may judge expired: every row whose lease this process has
\* lost, and any row whose lease has run out by the request's clock.  When that
\* is depends on the clock alone, so any leased row may be among them.
MayExpire(expired) ==
  /\ expired \subseteq Owners(snap)
  /\ Owners(snap) \ lease \subseteq expired

WithoutSnapshots(expired) ==
  [d \in Device |-> IF d \in expired THEN NoSnapshot ELSE snap[d]]

\* Mutant: the snapshots' references are not looked at.
ReleaseHeld(objs, touched, retained, sn) ==
  {c \in objs : c \notin touched \/ c \in retained}

\* Mutant: nothing is deleted.
ReleaseNothing(objs, touched, retained, sn) == objs

\* deleteUnreferencedRevisionObject for the revisions of touched: an object goes
\* unless its revision is retained or a remaining snapshot refers to it.
Release(objs, touched, retained, sn) ==
  {c \in objs : c \notin touched \/ c \in retained \/ c \in References(sn)}

-----------------------------------------------------------------------------
(* Sync *)

\* The cursors a sync by d may ask to read from and may acknowledge.
AfterCursors(d) == cursorFloor..dev[d].returned
AckCursors(d) == dev[d].ack..dev[d].returned

\* Mutant: one row more is cut off than the body needs, the first included.
PageEndsShort(rows, after) ==
  LET page == First({c \in rows : c > after}, PageSize)
  IN IF page = {} THEN {after}
     ELSE {c \in {after} \cup page : Cardinality({x \in page : x > c}) - 1 \in PageTrims}

\* loadChanges and the trimming of an oversized body: the page is the first
\* PageSize rows after the request's cursor less the ones cut off, of which the
\* first is never one; with no rows it ends where it started.
PageEnds(rows, after) ==
  LET page == First({c \in rows : c > after}, PageSize)
  IN IF page = {} THEN {after}
     ELSE {c \in page : Cardinality({x \in page : x > c}) \in PageTrims}

\* The tables after the pass p over the staged sync s.
Collect(s, p) ==
  LET top == s.cursor + Cardinality(p.advancing)
      placed == {p.place[r] : r \in p.advancing}
      at(c) == CHOOSE r \in p.advancing : p.place[r] = c
  IN /\ serverCursor' = top
     /\ cursorFloor' = FloorAfter(p)
     /\ collectionGeneration' =
          IF p.taken = {} THEN collectionGeneration ELSE collectionGeneration + 1
     /\ scanAfter' = ScanAfter(p.batch)
     /\ rev' = s.rev
     /\ collected' = [c \in DOMAIN collected \cup p.taken |->
          IF c \in DOMAIN collected THEN collected[c] ELSE collectionGeneration + 1]
     /\ heads' = s.heads \ p.taken
     /\ candidates' = s.candidates \ p.taken
     /\ barrier' = [r \in Record |->
          IF /\ \E c \in p.taken : s.rev[c].record = r
             /\ \A c \in s.candidates \ p.taken : s.rev[c].record # r
          THEN 0 ELSE s.barrier[r]]
     /\ marks' = [c \in DOMAIN marks \cup placed |->
          IF c \in DOMAIN marks THEN marks[c]
          ELSE [record  |-> at(c),
                witness |-> CHOOSE w \in AdvancingWitness(s, at(c)) : TRUE,
                barrier |-> s.barrier[at(c)]]]
     /\ marker' = [r \in Record |->
          IF r \in p.advancing THEN p.place[r] ELSE marker[r]]
     /\ origin' = [c \in 1..top |->
          IF c <= serverCursor THEN origin[c]
          ELSE IF c \in s.new THEN "record_revision" ELSE "collection_marker"]
     /\ changes' = (changes \cup (serverCursor + 1)..top) \ p.taken

\* handleSync, from the prune to the commit: the request's cursor is one of
\* afters that the collection has not passed.
SyncCommitted(s, p, d, afters, ack, expired) ==
  /\ Collect(s, p)
  /\ accumulatedUptime' = s.uptime
  /\ snap' = WithoutSnapshots(expired)
  /\ lease' = lease \ expired
  /\ objects' = Release(objects \cup s.new,
                        p.taken \cup UNION {snap[e].refs : e \in expired},
                        Retained', snap')
  /\ \E next \in UNION {PageEnds(changes', a) : a \in {x \in afters : x >= FloorAfter(p)}} :
       dev' = [dev EXCEPT ![d].ack = ack, ![d].returned = Larger(@, next),
                          ![d].counter = @ + (s.cursor - serverCursor)]
  /\ UNCHANGED envelopeGeneration

\* handleSync when the collection its own acknowledgement allows passes the
\* request's cursor: the transaction rolls back, but the leases its prune
\* dropped stay dropped.
SyncRolledBack(p, afters, expired) ==
  /\ \E a \in afters : a < FloorAfter(p)
  /\ lease' = lease \ expired
  /\ UNCHANGED <<runtimeVars, dev, historyVars, snap>>

\* handleSync for any request the caller's row admits.
Sync(d) ==
  /\ d \in Active
  /\ \E muts \in Batches(d) :
       /\ ValidMutations(d, muts)
       /\ Len(muts) <= MaxCursor - serverCursor
       /\ \E ack \in AckCursors(d), elapsed \in 0..MaxElapsed :
            LET s == Staged(d, ack, muts, elapsed)
                p == Pass(s)
            IN /\ SiblingsFit(s)
               /\ \E expired \in SUBSET Owners(snap) :
                    /\ MayExpire(expired)
                    /\ \/ SyncCommitted(s, p, d, AfterCursors(d), ack, expired)
                       \/ SyncRolledBack(p, AfterCursors(d), expired)

-----------------------------------------------------------------------------
(* Snapshots, uptime and the boot of the process *)

\* handleCreateSnapshot up to the limits, which see the rows a prune leaves.
SnapshotAdmitted(d, expired) ==
  LET left == Owners(snap) \ expired IN
  /\ d \notin left
  /\ Cardinality(left) < MaxSnapshots
  /\ envelopeGeneration # 0

\* Mutant: all retained revisions, not the heads.
CreateSnapshotOfAll(d, expired) ==
  /\ d \in Active
  /\ MayExpire(expired)
  /\ SnapshotAdmitted(d, expired)
  /\ snap' = [WithoutSnapshots(expired) EXCEPT ![d] =
                [cut        |-> serverCursor,
                 envelope   |-> envelopeGeneration,
                 generation |-> collectionGeneration,
                 refs       |-> Retained,
                 markers    |-> {marker[r] : r \in Record} \ {0},
                 sources    |-> [e \in Device |-> dev[e].counter]]]
  /\ lease' = (lease \ expired) \cup {d}
  /\ objects' = Release(objects, UNION {snap[e].refs : e \in expired},
                        Retained, WithoutSnapshots(expired))
  /\ dev' = [dev EXCEPT ![d].returned = Larger(@, serverCursor)]
  /\ UNCHANGED <<runtimeVars, origin, changes, rev, collected, heads,
                 candidates, barrier, marks, marker>>

\* handleCreateSnapshot and buildSnapshotPlan: the heads, the current markers
\* and the counters of the registry at the present cursor.
CreateSnapshot(d, expired) ==
  /\ d \in Active
  /\ MayExpire(expired)
  /\ SnapshotAdmitted(d, expired)
  /\ snap' = [WithoutSnapshots(expired) EXCEPT ![d] =
                [cut        |-> serverCursor,
                 envelope   |-> envelopeGeneration,
                 generation |-> collectionGeneration,
                 refs       |-> heads,
                 markers    |-> {marker[r] : r \in Record} \ {0},
                 sources    |-> [e \in Device |-> dev[e].counter]]]
  /\ lease' = (lease \ expired) \cup {d}
  /\ objects' = Release(objects, UNION {snap[e].refs : e \in expired},
                        Retained, WithoutSnapshots(expired))
  /\ dev' = [dev EXCEPT ![d].returned = Larger(@, serverCursor)]
  /\ UNCHANGED <<runtimeVars, origin, changes, rev, collected, heads,
                 candidates, barrier, marks, marker>>

\* handleCreateSnapshot when a limit, a missing envelope or a failed commit
\* rolls it back after its prune.
CreateSnapshotRolledBack(d, expired) ==
  /\ d \in Active
  /\ MayExpire(expired)
  /\ lease' = lease \ expired
  /\ UNCHANGED <<runtimeVars, dev, historyVars, snap>>

\* CheckpointUptime, at shutdown.  Revoking a device that is already revoked
\* leaves the same tables: its receipt checkpoints uptime and nothing else.
CheckpointUptime(elapsed) ==
  /\ accumulatedUptime' = Checkpointed(elapsed)
  /\ UNCHANGED <<serverCursor, cursorFloor, collectionGeneration,
                 envelopeGeneration, scanAfter, dev, historyVars, snap, lease>>

\* The process ends, what it held in memory is gone, and the next one opens the
\* database and runs StartBoot before it serves: the snapshots of the previous
\* process are removed.
Restart ==
  /\ snap' = [d \in Device |-> NoSnapshot]
  /\ objects' = Release(objects, References(snap), Retained, snap')
  /\ lease' = {}
  /\ UNCHANGED <<runtimeVars, dev, origin, changes, rev, collected, heads,
                 candidates, barrier, marks, marker>>

-----------------------------------------------------------------------------
\* initialize and the first StartBoot: an empty database.
Init ==
  /\ serverCursor = 0
  /\ cursorFloor = 0
  /\ collectionGeneration = 0
  /\ envelopeGeneration = 0
  /\ accumulatedUptime = 0
  /\ scanAfter = 0
  /\ dev = [d \in Device |-> NoDevice]
  /\ origin = [c \in {} |-> ""]
  /\ changes = {}
  /\ rev = [c \in {} |-> {}]
  /\ collected = [c \in {} |-> 0]
  /\ heads = {}
  /\ candidates = {}
  /\ objects = {}
  /\ barrier = [r \in Record |-> 0]
  /\ marks = [c \in {} |-> {}]
  /\ marker = [r \in Record |-> 0]
  /\ snap = [d \in Device |-> NoSnapshot]
  /\ lease = {}

Next ==
  \/ \E d \in Device : Enroll(d)
  \/ \E actor \in Managers, d \in Device, confirmed \in BOOLEAN,
        elapsed \in 0..MaxElapsed : Revoke(actor, d, confirmed, elapsed)
  \/ \E d \in Device, expected \in 0..MaxEnvelopes, generation \in 1..MaxEnvelopes,
        elapsed \in 0..MaxElapsed : PutEnvelope(d, expected, generation, elapsed)
  \/ \E d \in Device : Sync(d)
  \/ \E d \in Device, expired \in SUBSET Owners(snap) :
       CreateSnapshot(d, expired) \/ CreateSnapshotRolledBack(d, expired)
  \/ \E elapsed \in 0..MaxElapsed : CheckpointUptime(elapsed)
  \/ Restart

Spec == Init /\ [][Next]_vars

-----------------------------------------------------------------------------
Mark == [record : Record, witness : Nat, barrier : Nat]
Snapshot == [cut : Nat, envelope : Nat, generation : Nat, refs : SUBSET Nat,
             markers : SUBSET Nat, sources : Vector]

\* Every table has rows of its type, and the cursors that name rows have been
\* assigned.
TypeOK ==
  /\ serverCursor \in 0..MaxCursor
  /\ cursorFloor \in 0..serverCursor
  /\ collectionGeneration \in 0..MaxCollections
  /\ envelopeGeneration \in 0..MaxEnvelopes
  /\ accumulatedUptime \in 0..MaxUptime
  /\ scanAfter \in Record \cup {0}
  /\ dev \in [Device -> DeviceRow]
  /\ origin \in [1..serverCursor -> Kinds]
  /\ changes \subseteq 1..serverCursor
  /\ Revisions \subseteq 1..serverCursor
  /\ rev \in [Revisions -> Revision]
  /\ DOMAIN collected \subseteq Revisions
  /\ collected \in [DOMAIN collected -> 1..collectionGeneration]
  /\ heads \subseteq Revisions
  /\ candidates \subseteq Revisions
  /\ objects \subseteq Revisions
  /\ barrier \in [Record -> 0..serverCursor]
  /\ DOMAIN marks \subseteq 1..serverCursor
  /\ marks \in [DOMAIN marks -> Mark]
  /\ \A c \in DOMAIN marks : marks[c].witness \in Revisions
  /\ marker \in [Record -> DOMAIN marks \cup {0}]
  /\ snap \in [Device -> Snapshot]
  /\ References(snap) \subseteq Revisions
  /\ lease \subseteq Device

-----------------------------------------------------------------------------
(* Safety *)

\* A sync is never answered with a silently incomplete delta: every cursor above
\* the floor, from which alone a sync may read, still has its change, and a
\* revision's change still has its revision and body (sync.go, loadChanges and
\* the second cursor_expired check).
DeltaComplete ==
  \A c \in (cursorFloor + 1)..serverCursor :
    /\ c \in changes
    /\ origin[c] = "record_revision" => c \in Retained \cap objects

\* Collection strands no device it knew: an active device can still read from
\* its own acknowledgement unless it enrolled after the floor was set, in which
\* case it starts from a snapshot (collection.go, allAcknowledged).
KnownDeviceNotStranded ==
  \A d \in Active : dev[d].ack >= cursorFloor \/ dev[d].created > cursorFloor

\* No resurrection: what is accepted after a marker strictly dominates the
\* frontier of that marker, so an edit made without knowledge of a collected
\* deletion is refused (sync.go, stale_after_collection).
NoResurrection ==
  \A m \in DOMAIN marks, c \in Revisions :
    rev[c].record = marks[m].record /\ c > m =>
      Dominates(rev[c].vec, rev[marks[m].witness].vec)

\* The frontier of a record's markers strictly advances (selectAdvancingWitness).
MarkersAdvance ==
  \A m, n \in DOMAIN marks :
    m < n /\ marks[m].record = marks[n].record =>
      Dominates(rev[marks[n].witness].vec, rev[marks[m].witness].vec)

\* Whatever was collected is covered by the marker its record has now, however
\* many passes ago it went: a reader of the marker alone knows that it is gone.
CollectedIsCovered ==
  \A c \in DOMAIN collected :
    LET r == rev[c].record IN
    /\ marker[r] # 0
    /\ Dominates(MarkerFrontier(r), rev[c].vec) \/ rev[c].vec = MarkerFrontier(r)

\* Live data is never lost: a revision that no accepted revision of its record
\* supersedes, and that is not a deletion, is a head with its body.
LiveDataKept ==
  \A c \in Frontier(rev, Revisions) :
    ~rev[c].tombstone => c \in heads \cap Retained \cap objects

\* Nothing is collected before it has aged MinRetention of durable uptime
\* (collection.go, loadCollectionRecordWork).
AgedBeforeCollected ==
  \A c \in DOMAIN collected : rev[c].uptime + MinRetention <= accumulatedUptime

\* A snapshot stays readable: no page names a revision whose body is gone, whatever
\* collection or prune ran since (deleteUnreferencedRevisionObject).
SnapshotReadable == References(snap) \subseteq objects

=============================================================================
