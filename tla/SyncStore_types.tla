--------------------------- MODULE SyncStore_types ----------------------------
(***************************************************************************)
(* What every step of SyncStore does to the types of its tables, for every *)
(* value of the constants that the assumptions of SyncStore allow.  The    *)
(* work is in the sync: given what it stages (StagedFacts) and what its    *)
(* collection pass decides (PassFacts), what the commit writes.            *)
(* SyncStore_proofs shows that the two are so and concludes.               *)
(***************************************************************************)
EXTENDS SyncStore, TLAPS

\* A marker row is its three fields (writeCollectionMarker).
LEMMA FieldsOfMark ==
  ASSUME NEW r, NEW w, NEW b
  PROVE  LET m == [record |-> r, witness |-> w, barrier |-> b]
         IN m = [record |-> m.record, witness |-> m.witness, barrier |-> m.barrier]
OBVIOUS

\* What the later steps of a sync by d rely on: new revisions only follow old ones,
\* each strictly dominates its record's marker, and barriers only rise.
StagedFacts(s, d, ack) ==
  /\ s.cursor \in serverCursor..MaxCursor
  /\ s.uptime \in accumulatedUptime..MaxUptime
  /\ s.new = (serverCursor + 1)..s.cursor
  /\ s.rev \in [Revisions \cup s.new -> Revision]
  /\ \A c \in Revisions : s.rev[c] = rev[c]
  /\ \A c \in s.new : LET r == s.rev[c].record IN
       marker[r] # 0 => Dominates(s.rev[c].vec, MarkerFrontier(r))
  /\ s.heads \subseteq heads \cup s.new
  /\ s.heads = Frontier(s.rev, heads \cup s.new)
  /\ s.candidates = candidates \cup s.new
  /\ s.barrier \in [Record -> 0..s.cursor]
  /\ \A r \in Record : s.barrier[r] >= barrier[r]
  /\ \A c \in s.new : c <= s.barrier[s.rev[c].record]
  /\ DOMAIN s.acks = Active
  /\ \A e \in Active : s.acks[e] = IF e = d THEN ack ELSE dev[e].ack

\* w with vector v covers c.
Covers(s, w, v, c) ==
  IF c = w THEN s.rev[c].tombstone ELSE Dominates(v, s.rev[c].vec)

\* c was taken by its record's new witness, or by the marker its record keeps.
TakenUnder(s, p, c) ==
  LET r == s.rev[c].record IN
  \/ /\ r \in p.advancing
     /\ \E w \in AdvancingWitness(s, r) : Covers(s, w, s.rev[w].vec, c)
  \/ /\ r \in Record \ p.advancing
     /\ marker[r] # 0
     /\ Covers(s, marks[marker[r]].witness, MarkerFrontier(r), c)

\* What a pass guarantees: new markers get fresh, distinct cursors, and whatever is
\* taken is a queued revision that has aged, whose barrier every active device
\* has acknowledged, and that a witness or the marker covers.  The floor and
\* the scan position are the highest cursor taken and the highest record read.
PassFacts(s, p) ==
  /\ p.batch \subseteq Record
  /\ p.advancing \subseteq Record
  /\ Cardinality(p.advancing) \in Nat
  /\ s.cursor + Cardinality(p.advancing) <= MaxCursor
  /\ p.place \in [p.advancing -> (s.cursor + 1)..(s.cursor + Cardinality(p.advancing))]
  /\ \A q, r \in p.advancing : p.place[q] = p.place[r] => q = r
  /\ \A r \in p.advancing : AdvancingWitness(s, r) # {}
  /\ p.taken \subseteq s.candidates
  /\ \A c \in p.taken : /\ Acknowledged(s, s.rev[c].record)
                       /\ s.rev[c].uptime + MinRetention <= s.uptime
                       /\ TakenUnder(s, p, c)
  /\ p.taken # {} => collectionGeneration # MaxCollections
  /\ p.taken # {} => Highest(p.taken) \in p.taken
  /\ \A c \in p.taken : c <= Highest(p.taken)
  /\ p.batch # {} => Highest(p.batch) \in p.batch

-----------------------------------------------------------------------------
\* The limits are naturals.
LEMMA Bounds ==
  /\ MaxCursor \in Nat /\ MaxCounter \in Nat /\ MaxEnvelopes \in Nat
  /\ MaxCollections \in Nat /\ MaxUptime \in Nat /\ MaxElapsed \in Nat
  /\ MinRetention \in Nat
BY BoundAssumption

\* The counters of runtime_state are naturals below their limits.
LEMMA CursorFacts ==
  ASSUME TypeOK
  PROVE  /\ serverCursor \in Nat /\ serverCursor <= MaxCursor
         /\ cursorFloor \in Nat /\ cursorFloor <= serverCursor
         /\ accumulatedUptime \in Nat /\ accumulatedUptime <= MaxUptime
         /\ collectionGeneration \in Nat /\ collectionGeneration <= MaxCollections
         /\ envelopeGeneration \in Nat /\ envelopeGeneration <= MaxEnvelopes
<1>1. /\ serverCursor \in 0..MaxCursor
      /\ cursorFloor \in 0..serverCursor
      /\ accumulatedUptime \in 0..MaxUptime
      /\ collectionGeneration \in 0..MaxCollections
      /\ envelopeGeneration \in 0..MaxEnvelopes
  BY DEF TypeOK
<1> QED BY <1>1, Bounds

\* A response's page ends at one of its rows, or where it began.
LEMMA PageEndsFacts ==
  ASSUME NEW rows, NEW after, NEW c \in PageEnds(rows, after)
  PROVE  c = after \/ (c \in rows /\ c > after)
BY DEF PageEnds, First

\* A pass takes accepted revisions, and the floor it leaves is the old one or the
\* highest it took.
LEMMA TakenFacts ==
  ASSUME TypeOK, NEW s, NEW p, NEW d, NEW ack, StagedFacts(s, d, ack), PassFacts(s, p)
  PROVE  /\ s.cursor \in Nat
         /\ p.taken \subseteq Revisions \cup s.new
         /\ Revisions \cup s.new \subseteq 1..s.cursor
         /\ Highest(p.taken) \in 0..s.cursor
         /\ \A c \in p.taken : c <= Highest(p.taken)
         /\ p.taken # {} => Highest(p.taken) \in p.taken
         /\ FloorAfter(p) \in cursorFloor..s.cursor
         /\ FloorAfter(p) = cursorFloor \/ FloorAfter(p) \in p.taken
         /\ \A c \in p.taken : c <= FloorAfter(p)
<1>1. /\ serverCursor \in Nat /\ MaxCursor \in Nat
      /\ cursorFloor \in Nat /\ cursorFloor <= serverCursor
  BY Bounds, CursorFacts
<1>0. Revisions \subseteq 1..serverCursor /\ candidates \subseteq Revisions
  BY DEF TypeOK
<1>2. /\ s.cursor \in serverCursor..MaxCursor
      /\ s.new = (serverCursor + 1)..s.cursor
      /\ p.taken \subseteq candidates \cup s.new
  BY DEF StagedFacts, PassFacts
<1>3. s.cursor \in Nat /\ s.cursor >= serverCursor
  BY <1>1, <1>2
<1>4. p.taken \subseteq Revisions \cup s.new
  BY Zenon, <1>0, <1>2
<1>5. Revisions \cup s.new \subseteq 1..s.cursor
  <2>1. 1..serverCursor \subseteq 1..s.cursor /\ s.new \subseteq 1..s.cursor
    BY <1>1, <1>2, <1>3
  <2> QED BY Zenon, <2>1, <1>0
<1>6. p.taken \in SUBSET (1..s.cursor)
  BY <1>4, <1>5
<1>8. p.taken = {} => Highest(p.taken) = 0
  BY DEF Highest
<1>7. /\ Highest(p.taken) \in 0..s.cursor
      /\ \A c \in p.taken : c <= Highest(p.taken)
      /\ p.taken # {} => Highest(p.taken) \in p.taken
  <2>1. /\ \A c \in p.taken : c <= Highest(p.taken)
        /\ p.taken # {} => Highest(p.taken) \in p.taken
    BY DEF PassFacts
  <2> QED BY <2>1, <1>3, <1>6, <1>8
<1>9. /\ FloorAfter(p) \in cursorFloor..s.cursor
      /\ FloorAfter(p) = cursorFloor \/ FloorAfter(p) \in p.taken
  BY <1>1, <1>3, <1>7, <1>8 DEF FloorAfter, Larger
<1>10. \A c \in p.taken : c <= FloorAfter(p)
  <2> TAKE c \in p.taken
  <2>1. c \in Nat /\ c <= Highest(p.taken) /\ Highest(p.taken) \in Nat /\ cursorFloor \in Nat
    BY <1>1, <1>6, <1>7
  <2> QED BY <2>1 DEF FloorAfter, Larger
<1> QED BY <1>3, <1>4, <1>5, <1>7, <1>9, <1>10

-----------------------------------------------------------------------------
\* An initialized database has its type.
LEMMA TypeInit == Init => TypeOK
<1> SUFFICES ASSUME Init PROVE TypeOK
  OBVIOUS
<1>1. /\ serverCursor \in 0..MaxCursor
      /\ cursorFloor \in 0..serverCursor
      /\ collectionGeneration \in 0..MaxCollections
      /\ envelopeGeneration \in 0..MaxEnvelopes
      /\ accumulatedUptime \in 0..MaxUptime
      /\ scanAfter \in Record \cup {0}
  BY Bounds DEF Init
<1>2. dev \in [Device -> DeviceRow]
  BY DEF Init, DeviceRow, NoDevice
<1>3. /\ DOMAIN origin = 1..serverCursor
      /\ DOMAIN rev = {}
      /\ DOMAIN collected = {}
      /\ DOMAIN marks = {}
  BY DEF Init
<1>4. /\ origin \in [1..serverCursor -> Kinds]
      /\ rev \in [Revisions -> Revision]
      /\ collected \in [DOMAIN collected -> 1..collectionGeneration]
      /\ marks \in [DOMAIN marks -> Mark]
  BY <1>3 DEF Init, Revisions
<1>5. /\ changes \subseteq 1..serverCursor
      /\ heads \subseteq Revisions
      /\ candidates \subseteq Revisions
      /\ objects \subseteq Revisions
  BY DEF Init
<1>6. /\ barrier \in [Record -> 0..serverCursor]
      /\ marker \in [Record -> DOMAIN marks \cup {0}]
  BY DEF Init
<1>7. snap \in [Device -> Snapshot]
  BY DEF Init, NoSnapshot, Snapshot, Vector
<1>8. \A e \in Device : snap[e].refs = {} /\ snap[e].cut = 0
  BY DEF Init, NoSnapshot
<1>9. References(snap) \subseteq Revisions /\ lease \subseteq Device
  BY <1>8 DEF References, Init
<1> QED BY <1>1, <1>2, <1>3, <1>4, <1>5, <1>6, <1>7, <1>9 DEF TypeOK, Revisions

\* reserveCursors and insertChange keep the type of the log.
LEMMA TypeAppend ==
  ASSUME TypeOK, NEW kind \in Kinds, AppendChange(kind),
         dev' \in [Device -> DeviceRow],
         accumulatedUptime' \in 0..MaxUptime,
         envelopeGeneration' \in 0..MaxEnvelopes
  PROVE  TypeOK'
<1>1. /\ serverCursor \in Nat /\ MaxCursor \in Nat
      /\ serverCursor' = serverCursor + 1
      /\ serverCursor' \in 0..MaxCursor
      /\ cursorFloor' \in 0..serverCursor'
  BY CursorFacts, Bounds DEF AppendChange
<1>2. 1..serverCursor \subseteq 1..serverCursor' /\ 0..serverCursor \subseteq 0..serverCursor'
  BY <1>1
<1>3. origin' \in [1..serverCursor' -> Kinds]
  <2>1. origin \in [1..serverCursor -> Kinds]
    BY DEF TypeOK
  <2>2. origin' = [c \in 1..serverCursor' |->
                     IF c <= serverCursor THEN origin[c] ELSE kind]
    BY <1>1 DEF AppendChange
  <2>3. \A c \in 1..serverCursor' : c <= serverCursor => c \in 1..serverCursor
    BY <1>1
  <2> QED BY <2>1, <2>2, <2>3
<1>4. changes' \subseteq 1..serverCursor'
  BY <1>1, <1>2 DEF AppendChange, TypeOK
<1>5. barrier' \in [Record -> 0..serverCursor']
  BY <1>2 DEF AppendChange, TypeOK
<1>6. /\ DOMAIN rev' \subseteq 1..serverCursor'
      /\ DOMAIN marks' \subseteq 1..serverCursor'
  BY <1>2 DEF AppendChange, TypeOK, Revisions
<1> QED
  BY <1>1, <1>3, <1>4, <1>5, <1>6, Zenon DEF AppendChange, TypeOK, Revisions

\* checkpointUptimeTx neither takes back uptime nor passes the limit.
LEMMA UptimeType ==
  ASSUME TypeOK, NEW elapsed \in 0..MaxElapsed
  PROVE  Checkpointed(elapsed) \in accumulatedUptime..MaxUptime
BY CursorFacts, Bounds DEF Checkpointed, Smaller

\* handleEnrollment keeps the types.
LEMMA TypeEnroll ==
  ASSUME TypeOK, NEW d \in Device, Enroll(d)
  PROVE  TypeOK'
<1>1. dev' \in [Device -> DeviceRow]
  <2>1. [NoDevice EXCEPT !.status = "active", !.created = serverCursor + 1] \in DeviceRow
    <3>1. NoDevice \in DeviceRow
      BY DEF NoDevice, DeviceRow
    <3>2. serverCursor + 1 \in Nat
      BY CursorFacts
    <3> QED BY Zenon, <3>1, <3>2 DEF DeviceRow
  <2> QED BY <2>1 DEF TypeOK, Enroll
<1>2. envelopeGeneration' \in 0..MaxEnvelopes /\ accumulatedUptime' \in 0..MaxUptime
  BY DEF TypeOK, Enroll
<1>3. "device_changed" \in Kinds /\ AppendChange("device_changed")
  BY DEF Kinds, Enroll
<1> QED BY <1>1, <1>2, <1>3, TypeAppend

\* handleRevokeDevice keeps the types.
LEMMA TypeRevoke ==
  ASSUME TypeOK, NEW actor, NEW d \in Device, NEW confirmed,
         NEW elapsed \in 0..MaxElapsed, Revoke(actor, d, confirmed, elapsed)
  PROVE  TypeOK'
<1>1. dev' \in [Device -> DeviceRow]
  <2>1. dev[d] \in DeviceRow /\ serverCursor + 1 \in Nat
    BY CursorFacts DEF TypeOK
  <2>2. [dev[d] EXCEPT !.status = "revoked", !.revoked = serverCursor + 1] \in DeviceRow
    BY Zenon, <2>1 DEF DeviceRow
  <2>3. dev' = [dev EXCEPT ![d] =
                  [dev[d] EXCEPT !.status = "revoked", !.revoked = serverCursor + 1]]
    BY Zenon DEF Revoke, TypeOK
  <2> QED BY <2>2, <2>3 DEF TypeOK
<1>2. envelopeGeneration' \in 0..MaxEnvelopes /\ accumulatedUptime' \in 0..MaxUptime
  <2>1. envelopeGeneration' = envelopeGeneration /\ accumulatedUptime' = Checkpointed(elapsed)
    BY DEF Revoke
  <2>2. Checkpointed(elapsed) \in 0..MaxUptime
    BY UptimeType, CursorFacts, Bounds
  <2> QED BY <2>1, <2>2 DEF TypeOK
<1>3. "device_changed" \in Kinds /\ AppendChange("device_changed")
  BY DEF Kinds, Revoke
<1> QED BY <1>1, <1>2, <1>3, TypeAppend

\* handlePutEnvelope keeps the types.
LEMMA TypePutEnvelope ==
  ASSUME TypeOK, NEW d, NEW expected, NEW generation, NEW elapsed \in 0..MaxElapsed,
         PutEnvelope(d, expected, generation, elapsed)
  PROVE  TypeOK'
<1>1. dev' \in [Device -> DeviceRow]
  BY DEF TypeOK, PutEnvelope
<1>2. envelopeGeneration' \in 0..MaxEnvelopes /\ accumulatedUptime' \in 0..MaxUptime
  BY UptimeType, CursorFacts, Bounds DEF PutEnvelope
<1>3. "envelope_changed" \in Kinds /\ AppendChange("envelope_changed")
  BY DEF Kinds, PutEnvelope
<1> QED BY <1>1, <1>2, <1>3, TypeAppend

\* CheckpointUptime keeps the types.
LEMMA TypeCheckpoint ==
  ASSUME TypeOK, NEW elapsed \in 0..MaxElapsed, CheckpointUptime(elapsed)
  PROVE  TypeOK'
<1>1. accumulatedUptime' \in 0..MaxUptime
  BY UptimeType, CursorFacts, Bounds DEF CheckpointUptime
<1> QED BY <1>1 DEF CheckpointUptime, historyVars, TypeOK, Revisions

\* Deleting snapshots adds no reference and no other owner loses a row.
LEMMA WithoutSnapshotsFacts ==
  ASSUME TypeOK, NEW expired
  PROVE  /\ WithoutSnapshots(expired) \in [Device -> Snapshot]
         /\ References(WithoutSnapshots(expired)) \subseteq References(snap)
         /\ Owners(snap) \ expired \subseteq Owners(WithoutSnapshots(expired))
<1>1. NoSnapshot \in Snapshot /\ NoSnapshot.refs = {}
  BY DEF NoSnapshot, Snapshot, Vector
<1>2. WithoutSnapshots(expired) \in [Device -> Snapshot]
  BY <1>1 DEF WithoutSnapshots, TypeOK
<1>3. \A e \in Device : WithoutSnapshots(expired)[e].refs \subseteq snap[e].refs
  BY <1>1 DEF WithoutSnapshots
<1>4. References(WithoutSnapshots(expired)) \subseteq References(snap)
  BY <1>3 DEF References
<1>5. Owners(snap) \ expired \subseteq Owners(WithoutSnapshots(expired))
  BY DEF Owners, WithoutSnapshots
<1> QED BY <1>2, <1>4, <1>5

\* StartBoot keeps the types.
LEMMA TypeRestart ==
  ASSUME TypeOK, Restart
  PROVE  TypeOK'
<1>1. snap' \in [Device -> Snapshot] /\ \A e \in Device : snap'[e].refs = {}
  BY DEF Restart, NoSnapshot, Snapshot, Vector
<1>2. References(snap') \subseteq Revisions' /\ lease' \subseteq Device
  BY <1>1 DEF Restart, References
<1>3. objects' \subseteq Revisions'
  BY DEF Restart, Release, TypeOK, Revisions
<1> QED BY Zenon, <1>1, <1>2, <1>3 DEF Restart, runtimeVars, TypeOK, Revisions

\* A rolled-back request drops leases and nothing else.
LEMMA TypeLeases ==
  ASSUME TypeOK, NEW expired, lease' = lease \ expired,
         UNCHANGED <<runtimeVars, dev, historyVars, snap>>
  PROVE  TypeOK'
BY DEF TypeOK, runtimeVars, historyVars, Revisions

\* handleCreateSnapshot keeps the types.
LEMMA TypeCreateSnapshot ==
  ASSUME TypeOK, NEW d \in Device, NEW expired, CreateSnapshot(d, expired)
  PROVE  TypeOK'
<1> DEFINE sn == [cut        |-> serverCursor,
                  envelope   |-> envelopeGeneration,
                  generation |-> collectionGeneration,
                  refs       |-> heads,
                  markers    |-> {marker[r] : r \in Record} \ {0},
                  sources    |-> [e \in Device |-> dev[e].counter]]
           left == WithoutSnapshots(expired)
<1>1. /\ snap' = [left EXCEPT ![d] = sn]
      /\ lease' = (lease \ expired) \cup {d}
      /\ dev' = [dev EXCEPT ![d].returned = Larger(@, serverCursor)]
      /\ objects' \subseteq objects
      /\ d \in Active
      /\ UNCHANGED <<runtimeVars, origin, changes, rev, collected, heads,
                     candidates, barrier, marks, marker>>
  BY DEF CreateSnapshot, Release
<1>2. sn \in Snapshot
  <2>1. heads \subseteq Nat
    <3>1. heads \subseteq Revisions /\ Revisions \subseteq 1..serverCursor
      BY Zenon DEF TypeOK
    <3> QED BY <3>1
  <2>2. \A r \in Record : marker[r] \in Nat
    BY CursorFacts DEF TypeOK
  <2>3. [e \in Device |-> dev[e].counter] \in Vector
    BY DEF TypeOK, DeviceRow, Vector
  <2> QED BY <2>1, <2>2, <2>3, CursorFacts DEF Snapshot
<1>3. sn.refs = heads /\ sn.cut = serverCursor
  OBVIOUS
<1> HIDE DEF sn
<1>4. /\ left \in [Device -> Snapshot]
      /\ References(left) \subseteq References(snap)
      /\ Owners(snap) \ expired \subseteq Owners(left)
  BY WithoutSnapshotsFacts
<1> HIDE DEF left
<1>5. snap' \in [Device -> Snapshot]
  BY <1>1, <1>2, <1>4
<1>6. References(snap') \subseteq References(left) \cup heads
  BY <1>1, <1>3, <1>4 DEF References
<1>7. References(snap') \subseteq Revisions
  BY <1>4, <1>6 DEF TypeOK
<1>8. dev' \in [Device -> DeviceRow]
  <2>1. dev[d] \in DeviceRow /\ dev \in [Device -> DeviceRow]
    BY DEF TypeOK
  <2>2. Larger(dev[d].returned, serverCursor) \in Nat
    BY <2>1, CursorFacts DEF DeviceRow, Larger
  <2>3. [dev[d] EXCEPT !.returned = Larger(dev[d].returned, serverCursor)] \in DeviceRow
    BY <2>1, <2>2 DEF DeviceRow
  <2>4. dev' = [dev EXCEPT ![d] =
                  [dev[d] EXCEPT !.returned = Larger(dev[d].returned, serverCursor)]]
    BY <1>1, <2>1
  <2> QED BY <2>1, <2>3, <2>4
<1>9. objects' \subseteq Revisions /\ lease' \subseteq Device
  BY <1>1 DEF TypeOK
<1>10. Revisions' = Revisions
  BY <1>1 DEF Revisions
<1> QED BY Zenon, <1>1, <1>5, <1>7, <1>8, <1>9, <1>10 DEF TypeOK, runtimeVars

\* The cursors a committed sync assigns, and where its tables' rows lie.
LEMMA CommittedLog ==
  ASSUME TypeOK, NEW s, NEW p, NEW d, NEW ack,
         StagedFacts(s, d, ack), PassFacts(s, p), Collect(s, p)
  PROVE  /\ s.cursor \in Nat /\ s.cursor >= serverCursor
         /\ serverCursor' \in Nat /\ serverCursor' >= s.cursor /\ serverCursor' <= MaxCursor
         /\ Revisions' = Revisions \cup s.new
         /\ Revisions' \subseteq 1..s.cursor
         /\ 1..serverCursor \subseteq 1..serverCursor'
         /\ 1..s.cursor \subseteq 1..serverCursor'
         /\ changes' \subseteq 1..serverCursor'
         /\ p.taken \subseteq Revisions'
<1>1. /\ s.cursor \in Nat
      /\ p.taken \subseteq Revisions \cup s.new
      /\ Revisions \cup s.new \subseteq 1..s.cursor
  BY TakenFacts
<1>2. serverCursor \in Nat /\ MaxCursor \in Nat
  BY CursorFacts, Bounds
<1>3. /\ s.cursor \in serverCursor..MaxCursor
      /\ s.rev \in [Revisions \cup s.new -> Revision]
  BY DEF StagedFacts
<1>4. /\ Cardinality(p.advancing) \in Nat
      /\ s.cursor + Cardinality(p.advancing) <= MaxCursor
  BY DEF PassFacts
<1>5. /\ serverCursor' = s.cursor + Cardinality(p.advancing)
      /\ rev' = s.rev
      /\ changes' = (changes \cup (serverCursor + 1)..serverCursor') \ p.taken
  BY DEF Collect
<1>6. /\ serverCursor' \in Nat /\ serverCursor' >= s.cursor /\ serverCursor' <= MaxCursor
      /\ s.cursor >= serverCursor
  BY <1>1, <1>2, <1>3, <1>4, <1>5
<1>7. Revisions' = Revisions \cup s.new
  BY <1>3, <1>5 DEF Revisions
<1>8. 1..serverCursor \subseteq 1..serverCursor' /\ 1..s.cursor \subseteq 1..serverCursor'
  BY <1>1, <1>2, <1>6
<1>9. (serverCursor + 1)..serverCursor' \subseteq 1..serverCursor'
  BY <1>2, <1>6
<1>10. changes' \subseteq 1..serverCursor'
  BY <1>5, <1>8, <1>9 DEF TypeOK
<1> QED BY <1>1, <1>6, <1>7, <1>8, <1>10

\* The device row a committed sync by d leaves.
LEMMA CommittedRow ==
  ASSUME TypeOK, NEW s, NEW p, NEW d \in Device, NEW ack, NEW expired,
         StagedFacts(s, d, ack), PassFacts(s, p), ack \in AckCursors(d),
         SyncCommitted(s, p, d, AfterCursors(d), ack, expired)
  PROVE  \E next \in Nat :
           /\ next <= dev[d].returned \/ next \in changes'
           /\ ack \in Nat
           /\ ack >= dev[d].ack
           /\ ack <= dev[d].returned
           /\ dev' = [dev EXCEPT ![d] = [dev[d] EXCEPT !.ack = ack,
                        !.returned = Larger(dev[d].returned, next),
                        !.counter = dev[d].counter + (s.cursor - serverCursor)]]
           /\ dev' \in [Device -> DeviceRow]
<1>1. dev \in [Device -> DeviceRow] /\ dev[d] \in DeviceRow
  BY DEF TypeOK
<1>2. dev[d].ack \in Nat /\ dev[d].returned \in Nat /\ dev[d].counter \in Nat
  BY <1>1 DEF DeviceRow
<1>3. ack \in Nat /\ ack >= dev[d].ack /\ ack <= dev[d].returned
  BY <1>2 DEF AckCursors
<1>4. Collect(s, p)
  BY DEF SyncCommitted
<1>5. /\ s.cursor \in Nat /\ s.cursor >= serverCursor
      /\ changes' \subseteq 1..serverCursor'
      /\ serverCursor' \in Nat
  BY <1>4, CommittedLog
<1> DEFINE ends == UNION {PageEnds(changes', x) :
                             x \in {y \in AfterCursors(d) : y >= FloorAfter(p)}}
<1>6. PICK next \in ends :
        dev' = [dev EXCEPT ![d].ack = ack, ![d].returned = Larger(@, next),
                           ![d].counter = @ + (s.cursor - serverCursor)]
  <2> HIDE DEF ends
  <2> QED BY Zenon DEF SyncCommitted, ends
<1>0. PICK a \in AfterCursors(d) : next \in PageEnds(changes', a)
  OBVIOUS
<1> HIDE DEF ends
<1>7. a \in Nat /\ a <= dev[d].returned
  BY <1>2, CursorFacts DEF AfterCursors
<1>8. next = a \/ next \in changes'
  BY <1>0, PageEndsFacts
<1>9. next \in Nat /\ (next <= dev[d].returned \/ next \in changes')
  <2>1. next \in changes' => next \in Nat
    BY <1>5
  <2> QED BY <2>1, <1>7, <1>8
<1> DEFINE row == [dev[d] EXCEPT !.ack = ack,
                     !.returned = Larger(dev[d].returned, next),
                     !.counter = dev[d].counter + (s.cursor - serverCursor)]
<1>10. dev' = [dev EXCEPT ![d] = row]
  BY Zenon, <1>1, <1>6
<1>11. row \in DeviceRow
  <2>1. Larger(dev[d].returned, next) \in Nat
    BY <1>2, <1>9 DEF Larger
  <2>2. dev[d].counter + (s.cursor - serverCursor) \in Nat
    BY <1>2, <1>5, CursorFacts
  <2> QED BY Zenon, <1>1, <1>3, <2>1, <2>2 DEF DeviceRow
<1>12. dev' \in [Device -> DeviceRow]
  <2> HIDE DEF row
  <2> QED BY <1>1, <1>10, <1>11
<1> QED BY Zenon, <1>3, <1>9, <1>10, <1>12

\* The markers a committed sync adds.
LEMMA CommittedMarks ==
  ASSUME TypeOK, NEW s, NEW p, NEW d, NEW ack,
         StagedFacts(s, d, ack), PassFacts(s, p), Collect(s, p)
  PROVE  /\ DOMAIN marks \subseteq DOMAIN marks'
         /\ DOMAIN marks' \subseteq 1..serverCursor'
         /\ \A c \in DOMAIN marks : c <= serverCursor /\ marks'[c] = marks[c]
         /\ \A c \in DOMAIN marks' \ DOMAIN marks :
              /\ c > s.cursor
              /\ marks'[c].record \in p.advancing
              /\ marker'[marks'[c].record] = c
              /\ marks'[c].witness \in AdvancingWitness(s, marks'[c].record)
              /\ marks'[c].barrier = s.barrier[marks'[c].record]
              /\ marks'[c] = [record |-> marks'[c].record, witness |-> marks'[c].witness,
                              barrier |-> marks'[c].barrier]
         /\ \A r \in p.advancing :
              /\ marker'[r] \in DOMAIN marks'
              /\ marker'[r] > s.cursor
              /\ marks'[marker'[r]].record = r
         /\ \A r \in Record \ p.advancing : marker'[r] = marker[r]
<1> DEFINE placed == {p.place[r] : r \in p.advancing}
           at(c) == CHOOSE r \in p.advancing : p.place[r] = c
           new(c) == [record  |-> at(c),
                      witness |-> CHOOSE w \in AdvancingWitness(s, at(c)) : TRUE,
                      barrier |-> s.barrier[at(c)]]
<1>1. /\ marks' = [c \in DOMAIN marks \cup placed |->
                     IF c \in DOMAIN marks THEN marks[c] ELSE new(c)]
      /\ marker' = [r \in Record |->
                      IF r \in p.advancing THEN p.place[r] ELSE marker[r]]
      /\ serverCursor' = s.cursor + Cardinality(p.advancing)
  BY DEF Collect
<1>2. /\ s.cursor \in Nat /\ s.cursor >= serverCursor
      /\ serverCursor' \in Nat
      /\ 1..serverCursor \subseteq 1..serverCursor'
  BY CommittedLog, Zenon
<1>3. /\ p.advancing \subseteq Record
      /\ p.place \in [p.advancing -> (s.cursor + 1)..serverCursor']
      /\ \A q, r \in p.advancing : p.place[q] = p.place[r] => q = r
      /\ \A r \in p.advancing : AdvancingWitness(s, r) # {}
  BY <1>1 DEF PassFacts
<1>4. DOMAIN marks \subseteq 1..serverCursor
  BY DEF TypeOK
<1>5. serverCursor \in Nat
  BY CursorFacts
<1>6. \A r \in p.advancing : /\ p.place[r] \in Nat
                             /\ p.place[r] > s.cursor
                             /\ p.place[r] <= serverCursor'
                             /\ p.place[r] \in 1..serverCursor'
                             /\ at(p.place[r]) = r
  <2> TAKE r \in p.advancing
  <2>1. p.place[r] \in (s.cursor + 1)..serverCursor'
    BY <1>3
  <2>2. at(p.place[r]) = r
    BY <1>3
  <2> HIDE DEF at
  <2> QED BY <2>1, <2>2, <1>2
<1>7. \A c \in placed : /\ at(c) \in p.advancing
                        /\ p.place[at(c)] = c
                        /\ c > s.cursor
                        /\ c \notin DOMAIN marks
                        /\ c \in 1..serverCursor'
  <2> TAKE c \in placed
  <2>1. PICK r \in p.advancing : p.place[r] = c
    OBVIOUS
  <2>2. at(c) = r
    BY <1>6, <2>1
  <2> HIDE DEF at, placed
  <2>3. c \in Nat /\ c > s.cursor
    BY <1>6, <2>1
  <2>4. c \notin DOMAIN marks
    BY <1>2, <1>4, <1>5, <2>3
  <2> QED BY <1>6, <2>1, <2>2, <2>3, <2>4
<1>8. \A r \in p.advancing : p.place[r] \in placed
  BY Zenon
<1>9. \A c \in placed : /\ new(c).record = at(c)
                        /\ new(c).witness \in AdvancingWitness(s, at(c))
                        /\ new(c).barrier = s.barrier[at(c)]
                        /\ new(c) = [record |-> new(c).record, witness |-> new(c).witness,
                                     barrier |-> new(c).barrier]
  <2> TAKE c \in placed
  <2>1. AdvancingWitness(s, at(c)) # {}
    BY <1>3, <1>7
  <2> HIDE DEF at, placed
  <2>2. (CHOOSE w \in AdvancingWitness(s, at(c)) : TRUE) \in AdvancingWitness(s, at(c))
    BY <2>1, Zenon
  <2>3. new(c).witness \in AdvancingWitness(s, at(c))
    BY <2>2, Zenon
  <2>4. new(c).record = at(c) /\ new(c).barrier = s.barrier[at(c)]
    BY Zenon
  <2>5. new(c) = [record |-> new(c).record, witness |-> new(c).witness,
                  barrier |-> new(c).barrier]
    BY FieldsOfMark, Zenon
  <2> HIDE DEF new
  <2> QED BY <2>3, <2>4, <2>5, ZenonT(40)
<1> HIDE DEF at, placed, new
<1>10. DOMAIN marks' = DOMAIN marks \cup placed
  BY <1>1
<1>11. \A c \in placed : marks'[c] = new(c) /\ marker'[at(c)] = c
  BY <1>1, <1>3, <1>7
<1>12. \A c \in DOMAIN marks : c <= serverCursor /\ marks'[c] = marks[c]
  BY <1>1, <1>4, <1>5
<1>13. \A r \in p.advancing : marker'[r] = p.place[r]
  BY <1>1, <1>3
<1>14. \A r \in p.advancing : /\ marker'[r] \in DOMAIN marks'
                              /\ marker'[r] > s.cursor
                              /\ marks'[marker'[r]].record = r
  BY <1>6, <1>8, <1>9, <1>10, <1>11, <1>13
<1>15. DOMAIN marks' \subseteq 1..serverCursor'
  BY <1>2, <1>4, <1>7, <1>10
<1>16. \A r \in Record \ p.advancing : marker'[r] = marker[r]
  BY <1>1
<1>17. \A c \in DOMAIN marks' \ DOMAIN marks :
              /\ c > s.cursor
              /\ marks'[c].record \in p.advancing
              /\ marker'[marks'[c].record] = c
              /\ marks'[c].witness \in AdvancingWitness(s, marks'[c].record)
              /\ marks'[c].barrier = s.barrier[marks'[c].record]
              /\ marks'[c] = [record |-> marks'[c].record, witness |-> marks'[c].witness,
                              barrier |-> marks'[c].barrier]
  <2> TAKE c \in DOMAIN marks' \ DOMAIN marks
  <2>1. c \in placed
    BY <1>10
  <2>2. marks'[c].record = at(c)
    BY <2>1, <1>9, <1>11
  <2> QED BY <2>1, <2>2, <1>7, <1>9, <1>11
<1> QED BY <1>10, <1>12, <1>14, <1>15, <1>16, <1>17

\* The counters of runtime_state after a committed sync.
LEMMA CommittedCounters ==
  ASSUME TypeOK, NEW s, NEW p, NEW d, NEW ack,
         StagedFacts(s, d, ack), PassFacts(s, p), Collect(s, p)
  PROVE  /\ serverCursor' \in 0..MaxCursor
         /\ cursorFloor' \in 0..serverCursor'
         /\ collectionGeneration' \in 0..MaxCollections
         /\ 1..collectionGeneration \subseteq 1..collectionGeneration'
         /\ p.taken # {} => collectionGeneration + 1 \in 1..collectionGeneration'
         /\ scanAfter' \in Record \cup {0}
<1>2. /\ s.cursor \in Nat /\ s.cursor >= serverCursor
      /\ serverCursor' \in Nat /\ serverCursor' >= s.cursor /\ serverCursor' <= MaxCursor
      /\ Revisions' = Revisions \cup s.new
      /\ Revisions' \subseteq 1..s.cursor
      /\ 1..serverCursor \subseteq 1..serverCursor'
      /\ 1..s.cursor \subseteq 1..serverCursor'
      /\ changes' \subseteq 1..serverCursor'
      /\ p.taken \subseteq Revisions'
  BY CommittedLog
<1>4. serverCursor' \in 0..MaxCursor /\ cursorFloor' \in 0..serverCursor'
  <2>1. FloorAfter(p) \in cursorFloor..s.cursor /\ cursorFloor' = FloorAfter(p)
    BY TakenFacts DEF Collect
  <2> QED BY <2>1, <1>2, CursorFacts, Bounds
<1>5. /\ collectionGeneration' \in 0..MaxCollections
      /\ collectionGeneration' >= collectionGeneration
      /\ collectionGeneration' \in Nat
      /\ p.taken # {} => collectionGeneration' = collectionGeneration + 1
  <2>1. p.taken # {} => collectionGeneration # MaxCollections
    BY Zenon DEF PassFacts
  <2>2. collectionGeneration' =
          IF p.taken = {} THEN collectionGeneration ELSE collectionGeneration + 1
    BY Zenon DEF Collect
  <2> QED BY <2>1, <2>2, CursorFacts, Bounds
<1>8. scanAfter' \in Record \cup {0}
  <2>1. p.batch \subseteq Record /\ (p.batch # {} => Highest(p.batch) \in p.batch)
    BY DEF PassFacts
  <2>2. Highest(p.batch) \in Record \cup {0}
    BY <2>1 DEF Highest
  <2>3. scanAfter \in Record \cup {0}
    BY DEF TypeOK
  <2> QED BY <2>2, <2>3, Zenon DEF Collect, ScanAfter
<1>9. 1..collectionGeneration \subseteq 1..collectionGeneration'
  BY <1>5, CursorFacts
<1>10. p.taken # {} => collectionGeneration + 1 \in 1..collectionGeneration'
  BY <1>5, CursorFacts
<1> QED BY <1>4, <1>5, <1>8, <1>9, <1>10

\* The history tables after a committed sync.
LEMMA CommittedTables ==
  ASSUME TypeOK, NEW s, NEW p, NEW d, NEW ack,
         StagedFacts(s, d, ack), PassFacts(s, p), Collect(s, p)
  PROVE  /\ origin' \in [1..serverCursor' -> Kinds]
         /\ rev' \in [Revisions' -> Revision]
         /\ Revisions' \subseteq 1..serverCursor'
         /\ collected' \in [DOMAIN collected' -> 1..collectionGeneration']
         /\ \A c \in DOMAIN collected' : collected'[c] \in 1..collectionGeneration'
         /\ DOMAIN collected' \subseteq Revisions'
         /\ heads' \subseteq Revisions' /\ candidates' \subseteq Revisions'
         /\ barrier' \in [Record -> 0..serverCursor']
<1>2. /\ s.cursor \in Nat /\ s.cursor >= serverCursor
      /\ serverCursor' \in Nat /\ serverCursor' >= s.cursor /\ serverCursor' <= MaxCursor
      /\ Revisions' = Revisions \cup s.new
      /\ Revisions' \subseteq 1..s.cursor
      /\ 1..serverCursor \subseteq 1..serverCursor'
      /\ 1..s.cursor \subseteq 1..serverCursor'
      /\ changes' \subseteq 1..serverCursor'
      /\ p.taken \subseteq Revisions'
  BY CommittedLog
<1>9. origin' \in [1..serverCursor' -> Kinds]
  <2>1. origin' = [c \in 1..serverCursor' |->
          IF c <= serverCursor THEN origin[c]
          ELSE IF c \in s.new THEN "record_revision" ELSE "collection_marker"]
    BY Zenon DEF Collect
  <2>2. \A c \in 1..serverCursor' : c <= serverCursor => c \in 1..serverCursor
    BY <1>2, CursorFacts
  <2>3. origin \in [1..serverCursor -> Kinds]
    BY DEF TypeOK
  <2> QED BY <2>1, <2>2, <2>3 DEF Kinds
<1>10. rev' \in [Revisions' -> Revision] /\ Revisions' \subseteq 1..serverCursor'
  BY Zenon, <1>2 DEF Collect, StagedFacts
<1>11. /\ DOMAIN collected' = DOMAIN collected \cup p.taken
       /\ \A c \in DOMAIN collected' : collected'[c] \in 1..collectionGeneration'
       /\ collected' \in [DOMAIN collected' -> 1..collectionGeneration']
  <2>1. collected' = [c \in DOMAIN collected \cup p.taken |->
          IF c \in DOMAIN collected THEN collected[c] ELSE collectionGeneration + 1]
    BY Zenon DEF Collect
  <2>2. \A c \in DOMAIN collected : collected[c] \in 1..collectionGeneration
    BY DEF TypeOK
  <2>3. /\ 1..collectionGeneration \subseteq 1..collectionGeneration'
        /\ p.taken # {} => collectionGeneration + 1 \in 1..collectionGeneration'
    BY CommittedCounters
  <2>5. \A c \in p.taken : collectionGeneration + 1 \in 1..collectionGeneration'
    BY <2>3
  <2> QED BY <2>1, <2>2, <2>3, <2>5
<1>12. DOMAIN collected' \subseteq Revisions'
  BY <1>2, <1>11 DEF TypeOK
<1>13. heads' \subseteq Revisions' /\ candidates' \subseteq Revisions'
  BY Zenon, <1>2 DEF Collect, StagedFacts, TypeOK
<1>15. barrier' \in [Record -> 0..serverCursor']
  <2>1. s.barrier \in [Record -> 0..s.cursor]
    BY Zenon DEF StagedFacts
  <2>2. 0..s.cursor \subseteq 0..serverCursor' /\ 0 \in 0..serverCursor'
    BY <1>2
  <2> QED BY Zenon, <2>1, <2>2 DEF Collect
<1> QED BY <1>9, <1>10, <1>11, <1>12, <1>13, <1>15

\* The marker tables after a committed sync.
LEMMA CommittedMarkTypes ==
  ASSUME TypeOK, NEW s, NEW p, NEW d, NEW ack,
         StagedFacts(s, d, ack), PassFacts(s, p), Collect(s, p)
  PROVE  /\ DOMAIN marks' \subseteq 1..serverCursor'
         /\ marks' \in [DOMAIN marks' -> Mark]
         /\ \A c \in DOMAIN marks' : marks'[c].witness \in Revisions'
         /\ marker' \in [Record -> DOMAIN marks' \cup {0}]
<1>1. /\ s.cursor \in Nat
      /\ Revisions' = Revisions \cup s.new
      /\ Revisions' \subseteq 1..s.cursor
  BY Zenon, CommittedLog
<1>2. /\ DOMAIN marks' \subseteq 1..serverCursor'
      /\ \A c \in DOMAIN marks : marks'[c] = marks[c]
      /\ \A r \in p.advancing : marker'[r] \in DOMAIN marks'
      /\ \A r \in Record \ p.advancing : marker'[r] = marker[r]
      /\ DOMAIN marks \subseteq DOMAIN marks'
  BY Zenon, CommittedMarks
<1>3. \A c \in DOMAIN marks' \ DOMAIN marks :
        /\ marks'[c].record \in p.advancing
        /\ marks'[c].witness \in AdvancingWitness(s, marks'[c].record)
        /\ marks'[c].barrier = s.barrier[marks'[c].record]
  BY ZenonT(60), CommittedMarks
<1>4. \A c \in DOMAIN marks' \ DOMAIN marks :
        marks'[c] = [record |-> marks'[c].record, witness |-> marks'[c].witness,
                     barrier |-> marks'[c].barrier]
  BY Zenon, CommittedMarks
<1>5. /\ s.heads \subseteq heads \cup s.new
      /\ s.barrier \in [Record -> 0..s.cursor]
  BY Zenon DEF StagedFacts
<1>6. /\ heads \subseteq Revisions
      /\ \A c \in DOMAIN marks : marks[c] \in Mark /\ marks[c].witness \in Revisions
      /\ marker \in [Record -> DOMAIN marks \cup {0}]
  BY DEF TypeOK
<1>7. \A c \in DOMAIN marks' : marks'[c].witness \in Revisions'
  <2> TAKE c \in DOMAIN marks'
  <2>1. CASE c \in DOMAIN marks
    BY <2>1, <1>1, <1>2, <1>6
  <2>2. CASE c \notin DOMAIN marks
    <3>1. marks'[c].witness \in AdvancingWitness(s, marks'[c].record)
      BY Zenon, <2>2, <1>3
    <3>2. marks'[c].witness \in s.heads
      BY Zenon, <3>1 DEF AdvancingWitness
    <3> QED BY Zenon, <3>2, <1>1, <1>5, <1>6
  <2> QED BY <2>1, <2>2
<1>8. \A c \in DOMAIN marks' : marks'[c] \in Mark
  <2> TAKE c \in DOMAIN marks'
  <2>1. CASE c \in DOMAIN marks
    BY <2>1, <1>2, <1>6, Zenon
  <2>2. CASE c \notin DOMAIN marks
    <3>1. marks'[c].record \in Record
      <4>1. p.advancing \subseteq Record
        BY Zenon DEF PassFacts
      <4> QED BY Zenon, <4>1, <2>2, <1>3
    <3>2. marks'[c].witness \in Nat
      BY <1>1, <1>7
    <3>3. marks'[c].barrier = s.barrier[marks'[c].record]
      BY Zenon, <2>2, <1>3
    <3>4. marks'[c].barrier \in Nat
      BY <3>1, <3>3, <1>1, <1>5
    <3>5. marks'[c] = [record |-> marks'[c].record, witness |-> marks'[c].witness,
                       barrier |-> marks'[c].barrier]
      BY Zenon, <2>2, <1>4
    <3> QED BY <3>1, <3>2, <3>4, <3>5 DEF Mark
  <2> QED BY <2>1, <2>2
<1>9. /\ marks' = [c \in DOMAIN marks' |-> marks'[c]]
      /\ marker' = [r \in Record |-> marker'[r]]
  BY Zenon DEF Collect
<1>10. \A r \in Record : marker'[r] \in DOMAIN marks' \cup {0}
  BY <1>2, <1>6
<1> QED BY <1>2, <1>7, <1>8, <1>9, <1>10

\* A committed handleSync keeps the types.
LEMMA TypeCommitted ==
  ASSUME TypeOK, NEW s, NEW p, NEW d \in Device, NEW ack, NEW expired,
         StagedFacts(s, d, ack), PassFacts(s, p), ack \in AckCursors(d),
         SyncCommitted(s, p, d, AfterCursors(d), ack, expired)
  PROVE  TypeOK'
<1>1. Collect(s, p)
  BY DEF SyncCommitted
<1>2. Revisions' = Revisions \cup s.new /\ changes' \subseteq 1..serverCursor'
  BY Zenon, <1>1, CommittedLog
<1>3. dev' \in [Device -> DeviceRow]
  BY Zenon, CommittedRow
<1>6. envelopeGeneration' \in 0..MaxEnvelopes
  BY DEF SyncCommitted, TypeOK
<1>7. accumulatedUptime' \in 0..MaxUptime
  <2>1. accumulatedUptime' \in accumulatedUptime..MaxUptime
    BY DEF SyncCommitted, StagedFacts
  <2> QED BY <2>1, CursorFacts, Bounds
<1>14. objects' \subseteq Revisions'
  BY <1>2 DEF SyncCommitted, Release, TypeOK
<1>20. snap' \in [Device -> Snapshot] /\ References(snap') \subseteq Revisions'
  <2>1. snap' = WithoutSnapshots(expired)
    BY DEF SyncCommitted
  <2>2. References(snap) \subseteq Revisions
    BY DEF TypeOK
  <2> QED BY Zenon, <2>1, <2>2, <1>2, WithoutSnapshotsFacts
<1>21. lease' \subseteq Device
  BY DEF SyncCommitted, TypeOK
<1>22. /\ serverCursor' \in 0..MaxCursor
       /\ cursorFloor' \in 0..serverCursor'
       /\ collectionGeneration' \in 0..MaxCollections
       /\ scanAfter' \in Record \cup {0}
  BY <1>1, CommittedCounters
<1>23. /\ origin' \in [1..serverCursor' -> Kinds]
       /\ rev' \in [Revisions' -> Revision]
       /\ Revisions' \subseteq 1..serverCursor'
       /\ collected' \in [DOMAIN collected' -> 1..collectionGeneration']
       /\ \A c \in DOMAIN collected' : collected'[c] \in 1..collectionGeneration'
       /\ DOMAIN collected' \subseteq Revisions'
       /\ heads' \subseteq Revisions' /\ candidates' \subseteq Revisions'
       /\ barrier' \in [Record -> 0..serverCursor']
  BY <1>1, CommittedTables
<1>24. /\ DOMAIN marks' \subseteq 1..serverCursor'
       /\ marks' \in [DOMAIN marks' -> Mark]
       /\ \A c \in DOMAIN marks' : marks'[c].witness \in Revisions'
       /\ marker' \in [Record -> DOMAIN marks' \cup {0}]
  BY <1>1, CommittedMarkTypes
<1> QED
  BY ZenonT(30), <1>2, <1>3, <1>6, <1>7, <1>14, <1>20, <1>21, <1>22, <1>23, <1>24
     DEF TypeOK

=============================================================================
