--------------------------- MODULE SyncStore_safety ---------------------------
(***************************************************************************)
(* What a step of SyncStore does to the promises the store keeps.  A step is *)
(* seen as HistoryStep sees it: a committed sync, or one that leaves history *)
(* alone.  Each property is kept by such a step, on top of TypeOK and, where *)
(* it is not inductive by itself, of the invariant that carries it.        *)
(***************************************************************************)
EXTENDS SyncStore_types

\* What the proofs below use of a committed sync by d: it writes history, and the
\* acknowledgements it leaves are the ones its collection went by.
Accepts(s, p, d, ack) ==
  /\ d \in Active
  /\ ack \in AckCursors(d)
  /\ StagedFacts(s, d, ack)
  /\ PassFacts(s, p)
  /\ Collect(s, p)
  /\ accumulatedUptime' = s.uptime
  /\ \A e \in Device : /\ dev'[e].status = dev[e].status
                       /\ dev'[e].created = dev[e].created
  /\ \A e \in Active : /\ dev'[e].ack = s.acks[e]
                       /\ dev'[e].ack \in Nat
                       /\ dev'[e].ack >= dev[e].ack

\* What they use of any other step.
Quiet ==
  /\ UNCHANGED <<cursorFloor, rev, collected, heads, candidates, barrier, marks, marker>>
  /\ accumulatedUptime' \in Nat
  /\ accumulatedUptime' >= accumulatedUptime
  /\ \A e \in Device : dev'[e].status = "active" =>
       \/ /\ dev[e].status = "active"
          /\ dev'[e].ack = dev[e].ack
          /\ dev'[e].created = dev[e].created
       \/ dev'[e].created = serverCursor + 1

\* A step as the proofs below see it.
HistoryStep == Quiet \/ \E s, p, d, ack : Accepts(s, p, d, ack)

\* A committed handleSync does what Accepts says.
LEMMA CommittedAccepts ==
  ASSUME TypeOK, NEW s, NEW p, NEW d \in Device, NEW ack, NEW expired,
         d \in Active, StagedFacts(s, d, ack), PassFacts(s, p), ack \in AckCursors(d),
         SyncCommitted(s, p, d, AfterCursors(d), ack, expired)
  PROVE  Accepts(s, p, d, ack)
<1>1. dev \in [Device -> DeviceRow]
  BY DEF TypeOK
<1>2. PICK next \in Nat :
           /\ next <= dev[d].returned \/ next \in changes'
           /\ ack \in Nat
           /\ ack >= dev[d].ack
           /\ ack <= dev[d].returned
           /\ dev' = [dev EXCEPT ![d] = [dev[d] EXCEPT !.ack = ack,
                        !.returned = Larger(dev[d].returned, next),
                        !.counter = dev[d].counter + (s.cursor - serverCursor)]]
           /\ dev' \in [Device -> DeviceRow]
  BY Zenon, CommittedRow
<1>3. /\ dev'[d].status = dev[d].status
      /\ dev'[d].created = dev[d].created
      /\ dev'[d].ack = ack
  BY <1>1, <1>2 DEF DeviceRow
<1>4. \A e \in Device \ {d} : dev'[e] = dev[e]
  BY <1>1, <1>2
<1>5. \A e \in Active : s.acks[e] = IF e = d THEN ack ELSE dev[e].ack
  BY DEF StagedFacts
<1>6. \A e \in Active : dev[e].ack \in Nat /\ e \in Device
  BY <1>1 DEF Active, DeviceRow
<1>7. \A e \in Active : /\ dev'[e].ack = s.acks[e]
                        /\ dev'[e].ack \in Nat
                        /\ dev'[e].ack >= dev[e].ack
  BY <1>2, <1>3, <1>4, <1>5, <1>6
<1>8. \A e \in Device : /\ dev'[e].status = dev[e].status
                        /\ dev'[e].created = dev[e].created
  BY <1>3, <1>4
<1> QED BY Zenon, <1>7, <1>8 DEF Accepts, SyncCommitted

\* Every step but a sync leaves history alone, and no step takes back uptime.
LEMMA QuietSteps ==
  ASSUME TypeOK, [Next]_vars, ~ \E d \in Device : Sync(d)
  PROVE  Quiet
<1>0. dev \in [Device -> DeviceRow]
  BY DEF TypeOK
<1>1. accumulatedUptime \in Nat /\ MaxUptime \in Nat
  BY CursorFacts, Bounds
<1>2. \A elapsed \in 0..MaxElapsed :
        /\ Checkpointed(elapsed) \in Nat
        /\ Checkpointed(elapsed) >= accumulatedUptime
  <2> TAKE elapsed \in 0..MaxElapsed
  <2>1. Checkpointed(elapsed) \in accumulatedUptime..MaxUptime
    BY UptimeType
  <2> QED BY <2>1, <1>1
<1>3. CASE \E d \in Device : Enroll(d)
  BY <1>0, <1>1, <1>3 DEF Enroll, AppendChange, NoDevice, Quiet
<1>4. CASE \E actor \in Managers, d \in Device, confirmed \in BOOLEAN,
             elapsed \in 0..MaxElapsed : Revoke(actor, d, confirmed, elapsed)
  BY <1>0, <1>2, <1>4 DEF Revoke, AppendChange, DeviceRow, Quiet
<1>5. CASE \E d \in Device, expected \in 0..MaxEnvelopes, generation \in 1..MaxEnvelopes,
             elapsed \in 0..MaxElapsed : PutEnvelope(d, expected, generation, elapsed)
  BY <1>2, <1>5 DEF PutEnvelope, AppendChange, Quiet
<1>7. CASE \E d \in Device, expired \in SUBSET Owners(snap) :
             CreateSnapshot(d, expired) \/ CreateSnapshotRolledBack(d, expired)
  BY <1>0, <1>1, <1>7
     DEF CreateSnapshot, CreateSnapshotRolledBack, runtimeVars, historyVars, DeviceRow, Quiet
<1>8. CASE \E elapsed \in 0..MaxElapsed : CheckpointUptime(elapsed)
  BY <1>2, <1>8 DEF CheckpointUptime, historyVars, Quiet
<1>9. CASE Restart
  BY <1>1, <1>9 DEF Restart, runtimeVars, Quiet
<1>10. CASE UNCHANGED vars
  BY <1>1, <1>10 DEF vars, runtimeVars, historyVars, Quiet
<1> QED BY <1>3, <1>4, <1>5, <1>7, <1>8, <1>9, <1>10 DEF Next

\* What a committed sync does to the history: revisions are only added, the ones
\* it takes are known, and what was collected stays collected.
LEMMA CommittedHistory ==
  ASSUME TypeOK, NEW s, NEW p, NEW d, NEW ack,
         StagedFacts(s, d, ack), PassFacts(s, p), Collect(s, p)
  PROVE  /\ rev' = s.rev
         /\ Revisions' = Revisions \cup s.new
         /\ \A c \in Revisions : c \in Nat /\ c <= serverCursor /\ rev'[c] = rev[c]
         /\ \A c \in s.new : c \in Nat /\ c > serverCursor /\ c <= s.cursor
         /\ \A c \in Revisions' : rev'[c] \in Revision
         /\ DOMAIN collected' = DOMAIN collected \cup p.taken
         /\ p.taken \subseteq Revisions'
         /\ s.cursor \in Nat /\ s.cursor >= serverCursor
<1>1. /\ Revisions' = Revisions \cup s.new
      /\ p.taken \subseteq Revisions'
      /\ s.cursor \in Nat /\ s.cursor >= serverCursor
  BY CommittedLog
<1>2. rev' = s.rev /\ DOMAIN collected' = DOMAIN collected \cup p.taken
  BY DEF Collect
<1>0. serverCursor \in Nat
  BY CursorFacts
<1>3. Revisions \subseteq 1..serverCursor
  BY DEF TypeOK
<1>4. /\ s.new = (serverCursor + 1)..s.cursor
      /\ s.rev \in [Revisions \cup s.new -> Revision]
      /\ \A c \in Revisions : s.rev[c] = rev[c]
  BY DEF StagedFacts
<1>5. \A c \in Revisions : c \in Nat /\ c <= serverCursor /\ rev'[c] = rev[c]
  <2>1. \A c \in Revisions : c \in Nat /\ c <= serverCursor
    BY <1>0, <1>3
  <2>2. \A c \in Revisions : rev'[c] = rev[c]
    BY Zenon, <1>2, <1>4
  <2> QED BY Zenon, <2>1, <2>2
<1>6. \A c \in s.new : c \in Nat /\ c > serverCursor /\ c <= s.cursor
  BY <1>0, <1>1, <1>4
<1>7. \A c \in Revisions' : rev'[c] \in Revision
  BY <1>1, <1>2, <1>4
<1> QED BY <1>1, <1>2, <1>5, <1>6, <1>7

-----------------------------------------------------------------------------
(* Ageing *)

\* AgedBeforeCollected is inductive: a pass takes only what has aged by the
\* uptime its own transaction commits.
LEMMA AgedStep ==
  ASSUME TypeOK, AgedBeforeCollected, HistoryStep
  PROVE  AgedBeforeCollected'
<1>1. CASE \E s, p, d, ack : Accepts(s, p, d, ack)
  <2>1. PICK s, p, d, ack : Accepts(s, p, d, ack)
    BY <1>1
  <2>2. /\ StagedFacts(s, d, ack)
        /\ PassFacts(s, p)
        /\ Collect(s, p)
        /\ accumulatedUptime' = s.uptime
    BY <2>1 DEF Accepts
  <2>3. /\ rev' = s.rev
        /\ \A c \in Revisions : rev'[c] = rev[c]
        /\ DOMAIN collected' = DOMAIN collected \cup p.taken
    BY Zenon, <2>2, CommittedHistory
  <2>4. /\ accumulatedUptime' \in Nat
        /\ accumulatedUptime' >= accumulatedUptime
        /\ accumulatedUptime \in Nat /\ MinRetention \in Nat
    <3>1. s.uptime \in accumulatedUptime..MaxUptime
      BY <2>2 DEF StagedFacts
    <3> QED BY <3>1, <2>2, CursorFacts, Bounds
  <2> SUFFICES ASSUME NEW c \in DOMAIN collected'
               PROVE  rev'[c].uptime + MinRetention <= accumulatedUptime'
    BY DEF AgedBeforeCollected
  <2>5. CASE c \in DOMAIN collected
    <3>1. c \in Revisions /\ rev[c] \in Revision
      BY <2>5 DEF TypeOK
    <3>2. rev[c].uptime \in Nat
      BY <3>1 DEF Revision
    <3>3. rev[c].uptime + MinRetention <= accumulatedUptime
      BY <2>5 DEF AgedBeforeCollected
    <3> QED BY <2>3, <2>4, <3>1, <3>2, <3>3
  <2>6. CASE c \in p.taken
    BY <2>2, <2>3, <2>6 DEF PassFacts
  <2> QED BY <2>3, <2>5, <2>6
<1>2. CASE Quiet
  <2> SUFFICES ASSUME NEW c \in DOMAIN collected
               PROVE  rev[c].uptime + MinRetention <= accumulatedUptime'
    BY <1>2 DEF AgedBeforeCollected, Quiet
  <2>1. c \in Revisions /\ rev[c] \in Revision
    BY DEF TypeOK
  <2>2. rev[c].uptime \in Nat
    BY <2>1 DEF Revision
  <2>3. rev[c].uptime + MinRetention <= accumulatedUptime
    BY DEF AgedBeforeCollected
  <2>4. accumulatedUptime' \in Nat /\ accumulatedUptime' >= accumulatedUptime
    BY <1>2 DEF Quiet
  <2> QED BY <2>2, <2>3, <2>4, CursorFacts, Bounds
<1> QED BY <1>1, <1>2 DEF HistoryStep

-----------------------------------------------------------------------------
(* Markers *)

\* Domination is transitive.
LEMMA DominatesTransitive ==
  ASSUME NEW u \in Vector, NEW v \in Vector, NEW w \in Vector,
         Dominates(u, v), Dominates(v, w)
  PROVE  Dominates(u, w)
<1>1. \A d \in Device : u[d] \in Nat /\ v[d] \in Nat /\ w[d] \in Nat
  BY DEF Vector
<1>2. /\ \A d \in Device : u[d] >= v[d] /\ v[d] >= w[d]
      /\ \E d \in Device : u[d] > v[d]
  BY DEF Dominates
<1>3. \A d \in Device : u[d] >= w[d] /\ (u[d] > v[d] => u[d] > w[d])
  <2> TAKE d \in Device
  <2>1. u[d] \in Nat /\ v[d] \in Nat /\ w[d] \in Nat /\ u[d] >= v[d] /\ v[d] >= w[d]
    BY <1>1, <1>2
  <2> QED BY <2>1
<1> QED BY <1>2, <1>3 DEF Dominates

\* Domination is asymmetric.
LEMMA DominatesAsymmetric ==
  ASSUME NEW u \in Vector, NEW v \in Vector, Dominates(u, v)
  PROVE  ~Dominates(v, u)
<1>1. \A d \in Device : u[d] \in Nat /\ v[d] \in Nat
  BY DEF Vector
<1> QED BY <1>1 DEF Dominates

\* The vectors the model compares are vectors.
LEMMA VectorTypes ==
  ASSUME TypeOK
  PROVE  /\ \A c \in Revisions : rev[c].vec \in Vector /\ rev[c].record \in Record
         /\ \A m \in DOMAIN marks :
              /\ rev[marks[m].witness].vec \in Vector
              /\ marks[m].record \in Record
         /\ \A r \in Record : marker[r] # 0 =>
              /\ marker[r] \in DOMAIN marks
              /\ MarkerFrontier(r) \in Vector
              /\ MarkerFrontier(r) = rev[marks[marker[r]].witness].vec
<1>1. \A c \in Revisions : rev[c].vec \in Vector /\ rev[c].record \in Record
  BY DEF TypeOK, Revision
<1>2. \A m \in DOMAIN marks :
              /\ rev[marks[m].witness].vec \in Vector
              /\ marks[m].record \in Record
  BY <1>1, Zenon DEF TypeOK, Mark
<1>3. \A r \in Record : marker[r] # 0 => marker[r] \in DOMAIN marks
  BY DEF TypeOK
<1> QED BY <1>1, <1>2, <1>3 DEF MarkerFrontier

\* A record's markers are in the order of their cursors, the current one is the
\* last, and its frontier is ahead of every earlier one.
MarkerLast ==
  /\ \A r \in Record : marker[r] # 0 =>
       /\ marks[marker[r]].record = r
       /\ rev[marks[marker[r]].witness].record = r
  /\ \A m \in DOMAIN marks :
       LET r == marks[m].record IN
       /\ marker[r] # 0
       /\ m <= marker[r]
       /\ m = marker[r] \/ Dominates(MarkerFrontier(r), rev[marks[m].witness].vec)

\* What a committed sync does to the markers' frontiers.
LEMMA CommittedFrontiers ==
  ASSUME TypeOK, NEW s, NEW p, NEW d, NEW ack,
         StagedFacts(s, d, ack), PassFacts(s, p), Collect(s, p)
  PROVE  /\ \A m \in DOMAIN marks :
              /\ m \in DOMAIN marks'
              /\ marks'[m] = marks[m]
              /\ rev'[marks'[m].witness] = rev[marks[m].witness]
         /\ \A r \in p.advancing :
              /\ r \in Record
              /\ marker'[r] # 0
              /\ marks'[marker'[r]].witness \in AdvancingWitness(s, r)
              /\ rev'[marks'[marker'[r]].witness].record = r
              /\ marker[r] # 0 =>
                   /\ marker[r] < marker'[r]
                   /\ Dominates(rev'[marks'[marker'[r]].witness].vec, MarkerFrontier(r))
<1>1. /\ rev' = s.rev
      /\ \A c \in Revisions : rev'[c] = rev[c]
      /\ s.cursor \in Nat /\ s.cursor >= serverCursor
  BY Zenon, CommittedHistory
<1>2. /\ DOMAIN marks \subseteq DOMAIN marks'
      /\ DOMAIN marks' \subseteq 1..serverCursor'
      /\ \A c \in DOMAIN marks : c <= serverCursor /\ marks'[c] = marks[c]
      /\ \A c \in DOMAIN marks' \ DOMAIN marks :
              marks'[c].witness \in AdvancingWitness(s, marks'[c].record)
      /\ \A r \in p.advancing :
              /\ marker'[r] \in DOMAIN marks'
              /\ marker'[r] > s.cursor
              /\ marks'[marker'[r]].record = r
  BY CommittedMarks
<1>3. \A m \in DOMAIN marks : rev'[marks'[m].witness] = rev[marks[m].witness]
  BY <1>1, <1>2, Zenon DEF TypeOK
<1>4. p.advancing \subseteq Record
  BY DEF PassFacts
<1>5. ASSUME NEW r \in p.advancing
      PROVE  /\ marker'[r] # 0
             /\ marks'[marker'[r]].witness \in AdvancingWitness(s, r)
             /\ marker[r] # 0 => marker[r] < marker'[r]
  <2>1. serverCursor \in Nat /\ serverCursor' \in Nat
    BY CursorFacts, CommittedLog
  <2>2. marker'[r] \in 1..serverCursor' /\ marker'[r] > s.cursor
    BY <1>2, <1>5
  <2>3. marker'[r] \in Nat /\ marker'[r] > serverCursor
    BY <2>1, <2>2, <1>1
  <2>4. marker'[r] \notin DOMAIN marks
    BY <1>2, <2>1, <2>3
  <2>5. marker[r] # 0 => marker[r] \in DOMAIN marks
    BY <1>4, <1>5 DEF TypeOK
  <2>6. marker[r] # 0 => marker[r] \in 1..serverCursor
    BY <2>5 DEF TypeOK
  <2>7. marker[r] # 0 => marker[r] < marker'[r]
    BY <2>1, <2>3, <2>6
  <2> QED BY <1>2, <1>5, <2>1, <2>3, <2>4, <2>7
<1>6. ASSUME NEW r \in p.advancing
      PROVE  /\ rev'[marks'[marker'[r]].witness].record = r
             /\ marker[r] # 0 =>
                   Dominates(rev'[marks'[marker'[r]].witness].vec, MarkerFrontier(r))
  BY <1>1, <1>5, <1>6 DEF AdvancingWitness
<1> QED BY <1>2, <1>3, <1>4, <1>5, <1>6

\* A sync that writes markers keeps them in order (writeCollectionMarker).
LEMMA MarkerLastCommitted ==
  ASSUME TypeOK, TypeOK', MarkerLast, NEW s, NEW p, NEW d, NEW ack,
         StagedFacts(s, d, ack), PassFacts(s, p), Collect(s, p)
  PROVE  MarkerLast'
<1>1. \A m \in DOMAIN marks :
              /\ m \in DOMAIN marks'
              /\ marks'[m] = marks[m]
              /\ rev'[marks'[m].witness] = rev[marks[m].witness]
  BY CommittedFrontiers, Zenon
<1>2. \A r \in p.advancing :
              /\ r \in Record
              /\ marker'[r] # 0
              /\ rev'[marks'[marker'[r]].witness].record = r
              /\ marker[r] # 0 =>
                   /\ marker[r] < marker'[r]
                   /\ Dominates(rev'[marks'[marker'[r]].witness].vec, MarkerFrontier(r))
  BY CommittedFrontiers
<1>3. /\ \A c \in DOMAIN marks' \ DOMAIN marks :
              /\ marks'[c].record \in p.advancing
              /\ marker'[marks'[c].record] = c
      /\ \A r \in p.advancing :
              /\ marker'[r] \in DOMAIN marks'
              /\ marks'[marker'[r]].record = r
      /\ \A r \in Record \ p.advancing : marker'[r] = marker[r]
      /\ DOMAIN marks' \subseteq 1..serverCursor'
  BY CommittedMarks
<1>4. ASSUME NEW r \in Record, marker'[r] # 0
      PROVE  /\ marks'[marker'[r]].record = r
             /\ rev'[marks'[marker'[r]].witness].record = r
  <2>1. CASE r \in p.advancing
    BY <2>1, <1>2, <1>3
  <2>2. CASE r \notin p.advancing
    <3>1. marker'[r] = marker[r] /\ marker[r] \in DOMAIN marks
      BY <2>2, <1>3, <1>4, VectorTypes
    <3> QED BY <3>1, <1>1, <1>4 DEF MarkerLast
  <2> QED BY <2>1, <2>2
<1>5. ASSUME NEW m \in DOMAIN marks', NEW r \in Record, r = marks'[m].record
      PROVE  /\ marker'[r] # 0
             /\ m <= marker'[r]
             /\ \/ m = marker'[r]
                \/ Dominates(rev'[marks'[marker'[r]].witness].vec,
                             rev'[marks'[m].witness].vec)
  <2>0. m \in Nat
    BY <1>3
  <2>1. CASE m \notin DOMAIN marks
    BY <2>0, <2>1, <1>2, <1>3, <1>5
  <2>2. CASE m \in DOMAIN marks
    <3>1. marks[m].record = r /\ rev'[marks'[m].witness].vec = rev[marks[m].witness].vec
      BY <2>2, <1>1, <1>5
    <3>2. /\ marker[r] # 0
          /\ m <= marker[r]
          /\ m = marker[r] \/ Dominates(MarkerFrontier(r), rev[marks[m].witness].vec)
      BY <2>2, <3>1 DEF MarkerLast
    <3>3. CASE r \notin p.advancing
      <4>1. marker'[r] = marker[r] /\ marker[r] \in DOMAIN marks
        BY <3>2, <3>3, <1>3, VectorTypes, Zenon
      <4>2. rev'[marks'[marker'[r]].witness].vec = MarkerFrontier(r)
        BY <4>1, <1>1 DEF MarkerFrontier
      <4> QED BY <3>1, <3>2, <4>1, <4>2, Zenon
    <3>4. CASE r \in p.advancing
      <4>1. /\ marker[r] < marker'[r]
            /\ marker'[r] # 0
            /\ Dominates(rev'[marks'[marker'[r]].witness].vec, MarkerFrontier(r))
        BY <3>2, <3>4, <1>2
      <4>2. /\ MarkerFrontier(r) \in Vector
            /\ rev[marks[m].witness].vec \in Vector
            /\ MarkerFrontier(r) = rev[marks[marker[r]].witness].vec
            /\ marker[r] \in DOMAIN marks
        BY <2>2, <3>2, VectorTypes
      <4>3. rev'[marks'[marker'[r]].witness].vec \in Vector
        <5>1. marker'[r] \in DOMAIN marks'
          BY <3>4, <1>3
        <5>2. marks'[marker'[r]].witness \in Revisions' /\ rev' \in [Revisions' -> Revision]
          BY <5>1 DEF TypeOK
        <5> QED BY <5>2 DEF Revision
      <4>4. Dominates(rev'[marks'[marker'[r]].witness].vec, rev[marks[m].witness].vec)
        <5>1. CASE m = marker[r]
          BY <5>1, <4>1, <4>2, Zenon
        <5>2. CASE m # marker[r]
          BY <5>2, <3>2, <4>1, <4>2, <4>3, DominatesTransitive
        <5> QED BY <5>1, <5>2
      <4>5. m <= marker'[r]
        <5>1. marker[r] \in Nat /\ marker'[r] \in Nat
          <6>1. marker[r] \in 1..serverCursor
            BY <4>2, Zenon DEF TypeOK
          <6>2. marker'[r] \in 1..serverCursor'
            BY <3>4, <1>3
          <6> QED BY <6>1, <6>2
        <5> QED BY <5>1, <2>0, <3>2, <4>1
      <4> QED BY <3>1, <4>1, <4>4, <4>5
    <3> QED BY <3>3, <3>4
  <2> QED BY <2>1, <2>2
<1>6. \A m \in DOMAIN marks' : marks'[m].record \in Record
  BY DEF TypeOK, Mark
<1> QED BY <1>4, <1>5, <1>6 DEF MarkerLast, MarkerFrontier

\* Every step keeps the markers in order.
LEMMA MarkerLastStep ==
  ASSUME TypeOK, TypeOK', MarkerLast, HistoryStep
  PROVE  MarkerLast'
<1>1. CASE Quiet
  BY <1>1 DEF MarkerLast, MarkerFrontier, Quiet
<1>2. CASE \E s, p, d, ack : Accepts(s, p, d, ack)
  BY <1>2, MarkerLastCommitted DEF Accepts
<1> QED BY <1>1, <1>2, ZenonT(40) DEF HistoryStep

\* A mark that a committed sync adds is the current one of its record.
LEMMA MarkersAdvanceStep ==
  ASSUME TypeOK, TypeOK', MarkerLast', MarkersAdvance, HistoryStep
  PROVE  MarkersAdvance'
<1>1. CASE Quiet
  BY <1>1 DEF MarkersAdvance, Quiet
<1>2. CASE \E s, p, d, ack : Accepts(s, p, d, ack)
  <2>1. PICK s, p, d, ack : Accepts(s, p, d, ack)
    BY <1>2
  <2>2. StagedFacts(s, d, ack) /\ PassFacts(s, p) /\ Collect(s, p)
    BY <2>1, Zenon DEF Accepts
  <2>3. \A m \in DOMAIN marks :
              /\ marks'[m] = marks[m]
              /\ rev'[marks'[m].witness] = rev[marks[m].witness]
    BY <2>2, CommittedFrontiers
  <2>4. /\ DOMAIN marks' \subseteq 1..serverCursor'
        /\ \A c \in DOMAIN marks : c <= serverCursor
        /\ \A c \in DOMAIN marks' \ DOMAIN marks :
              /\ c > s.cursor
              /\ marker'[marks'[c].record] = c
    BY <2>2, CommittedMarks, Zenon
  <2>5. s.cursor \in Nat /\ s.cursor >= serverCursor /\ serverCursor \in Nat
    BY <2>2, CommittedLog, CursorFacts
  <2> SUFFICES ASSUME NEW m \in DOMAIN marks', NEW n \in DOMAIN marks',
                      m < n, marks'[m].record = marks'[n].record
               PROVE  Dominates(rev'[marks'[n].witness].vec, rev'[marks'[m].witness].vec)
    BY DEF MarkersAdvance
  <2>6. m \in Nat /\ n \in Nat
    BY <2>4
  <2>7. CASE n \in DOMAIN marks
    <3>1. m \in DOMAIN marks
      BY <2>4, <2>5, <2>6, <2>7
    <3> QED BY <2>3, <2>7, <3>1 DEF MarkersAdvance
  <2>8. CASE n \notin DOMAIN marks
    <3>1. n = marker'[marks'[m].record] /\ m # n
      BY <2>4, <2>6, <2>8
    <3> QED BY <3>1 DEF MarkerLast, MarkerFrontier
  <2> QED BY <2>7, <2>8
<1> QED BY <1>1, <1>2 DEF HistoryStep

\* A revision accepted now is checked against the current marker only; that is
\* enough, because the current marker dominates the record's earlier ones.
LEMMA NoResurrectionStep ==
  ASSUME TypeOK, TypeOK', MarkerLast, NoResurrection, HistoryStep
  PROVE  NoResurrection'
<1>1. CASE Quiet
  BY <1>1 DEF NoResurrection, Revisions, Quiet
<1>2. CASE \E s, p, d, ack : Accepts(s, p, d, ack)
  <2>1. PICK s, p, d, ack : Accepts(s, p, d, ack)
    BY <1>2
  <2>2. StagedFacts(s, d, ack) /\ PassFacts(s, p) /\ Collect(s, p)
    BY <2>1, Zenon DEF Accepts
  <2>3. \A m \in DOMAIN marks :
              /\ marks'[m] = marks[m]
              /\ rev'[marks'[m].witness] = rev[marks[m].witness]
    BY <2>2, CommittedFrontiers, ZenonT(40)
  <2>4. /\ DOMAIN marks' \subseteq 1..serverCursor'
        /\ \A c \in DOMAIN marks' \ DOMAIN marks : c > s.cursor
    BY <2>2, CommittedMarks
  <2>5. /\ rev' = s.rev
        /\ Revisions' = Revisions \cup s.new
        /\ \A c \in Revisions : c \in Nat /\ c <= serverCursor /\ rev'[c] = rev[c]
        /\ \A c \in s.new : c \in Nat /\ c > serverCursor /\ c <= s.cursor
        /\ s.cursor \in Nat /\ s.cursor >= serverCursor
    BY Zenon, <2>2, CommittedHistory
  <2> SUFFICES ASSUME NEW m \in DOMAIN marks', NEW c \in Revisions',
                      rev'[c].record = marks'[m].record, c > m
               PROVE  Dominates(rev'[c].vec, rev'[marks'[m].witness].vec)
    BY DEF NoResurrection
  <2>6. m \in DOMAIN marks
    <3>1. m \in Nat /\ c \in Nat /\ c <= s.cursor
      BY <2>4, <2>5, CursorFacts
    <3> QED BY <3>1, <2>4, <2>5
  <2>7. CASE c \in Revisions
    BY <2>3, <2>5, <2>6, <2>7 DEF NoResurrection
  <2>8. CASE c \in s.new
    <3> DEFINE r == marks[m].record
    <3>1. /\ marker[r] # 0
          /\ m = marker[r] \/ Dominates(MarkerFrontier(r), rev[marks[m].witness].vec)
      BY <2>6 DEF MarkerLast
    <3>2. Dominates(rev'[c].vec, MarkerFrontier(r))
      <4>1. \A x \in s.new : marker[s.rev[x].record] # 0 =>
                Dominates(s.rev[x].vec, MarkerFrontier(s.rev[x].record))
        BY Zenon, <2>2 DEF StagedFacts
      <4>2. s.rev[c].record = r /\ rev'[c] = s.rev[c]
        BY <2>3, <2>5, <2>6
      <4> QED BY Zenon, <4>1, <4>2, <2>8, <3>1
    <3>3. /\ r \in Record
          /\ rev[marks[m].witness].vec \in Vector
      BY <2>6, VectorTypes, Zenon
    <3>4. /\ MarkerFrontier(r) \in Vector
          /\ MarkerFrontier(r) = rev[marks[marker[r]].witness].vec
      BY <3>1, <3>3, VectorTypes
    <3>5. rev'[c].vec \in Vector
      BY DEF TypeOK, Revision
    <3> HIDE DEF r
    <3>6. CASE m = marker[r]
      BY <2>3, <2>6, <3>2, <3>4, <3>6
    <3>7. CASE m # marker[r]
      <4>1. Dominates(rev'[c].vec, rev[marks[m].witness].vec)
        BY <3>1, <3>2, <3>3, <3>4, <3>5, <3>7, DominatesTransitive
      <4> QED BY <2>3, <2>6, <4>1, Zenon
    <3> QED BY <3>6, <3>7
  <2> QED BY <2>5, <2>7, <2>8
<1> QED BY <1>1, <1>2 DEF HistoryStep

\* At most one head can be the witness to advance to.
LEMMA WitnessUnique ==
  ASSUME NEW s, NEW r, NEW v \in AdvancingWitness(s, r), NEW w \in AdvancingWitness(s, r),
         s.rev[v].vec \in Vector, s.rev[w].vec \in Vector
  PROVE  v = w
<1>1. SUFFICES ASSUME v # w PROVE FALSE
  OBVIOUS
<1>2. Dominates(s.rev[v].vec, s.rev[w].vec) /\ Dominates(s.rev[w].vec, s.rev[v].vec)
  BY <1>1 DEF AdvancingWitness
<1> QED BY <1>2, DominatesAsymmetric

\* A pass takes only what the marker it leaves covers, and a marker that advances
\* covers what the one before it did.
LEMMA CollectedIsCoveredStep ==
  ASSUME TypeOK, TypeOK', CollectedIsCovered, HistoryStep
  PROVE  CollectedIsCovered'
<1>1. CASE Quiet
  BY Zenon, <1>1 DEF CollectedIsCovered, MarkerFrontier, Quiet
<1>2. CASE \E s, p, d, ack : Accepts(s, p, d, ack)
  <2>1. PICK s, p, d, ack : Accepts(s, p, d, ack)
    BY <1>2
  <2>2. StagedFacts(s, d, ack) /\ PassFacts(s, p) /\ Collect(s, p)
    BY <2>1, Zenon DEF Accepts
  <2>3. \A m \in DOMAIN marks :
              /\ marks'[m] = marks[m]
              /\ rev'[marks'[m].witness] = rev[marks[m].witness]
    BY <2>2, CommittedFrontiers
  <2>4. \A r \in p.advancing :
              /\ marker'[r] # 0
              /\ marks'[marker'[r]].witness \in AdvancingWitness(s, r)
              /\ marker[r] # 0 =>
                   Dominates(rev'[marks'[marker'[r]].witness].vec, MarkerFrontier(r))
    BY Zenon, <2>2, CommittedFrontiers
  <2>5. \A r \in Record \ p.advancing : marker'[r] = marker[r]
    BY <2>2, CommittedMarks
  <2>6. /\ rev' = s.rev
        /\ Revisions' = Revisions \cup s.new
        /\ \A c \in Revisions : rev'[c] = rev[c]
        /\ \A c \in Revisions' : rev'[c] \in Revision
        /\ DOMAIN collected' = DOMAIN collected \cup p.taken
        /\ p.taken \subseteq Revisions'
    BY Zenon, <2>2, CommittedHistory
  <2>7. \A c \in Revisions' : rev'[c].vec \in Vector /\ rev'[c].record \in Record
    BY <2>6 DEF Revision
  <2>8. \A r \in p.advancing : rev'[marks'[marker'[r]].witness].vec \in Vector
    <3> TAKE r \in p.advancing
    <3>1. marker'[r] \in DOMAIN marks'
      BY Zenon, <2>2, CommittedMarks
    <3> QED BY Zenon, <3>1, <2>7 DEF TypeOK
  <2> DEFINE F(r) == rev'[marks'[marker'[r]].witness].vec
  <2> SUFFICES ASSUME NEW c \in DOMAIN collected', NEW r \in Record, r = rev'[c].record
               PROVE  /\ marker'[r] # 0
                      /\ Dominates(F(r), rev'[c].vec) \/ rev'[c].vec = F(r)
    <3>1. \A c \in DOMAIN collected' : rev'[c].record \in Record
      BY <2>6, <2>7, Zenon DEF TypeOK
    <3> QED BY Zenon, <3>1 DEF CollectedIsCovered, MarkerFrontier
  <2>9. ASSUME r \notin p.advancing, marker[r] # 0
        PROVE  marker'[r] # 0 /\ F(r) = MarkerFrontier(r)
    <3>1. marker'[r] = marker[r] /\ marker[r] \in DOMAIN marks
      BY <2>5, <2>9, VectorTypes
    <3> QED BY <3>1, <2>3, <2>9, Zenon DEF MarkerFrontier
  <2>10. CASE c \in DOMAIN collected
    <3>1. c \in Revisions /\ rev'[c] = rev[c] /\ rev[c].vec \in Vector
      BY Zenon, <2>6, <2>10, VectorTypes DEF TypeOK
    <3>2. /\ marker[r] # 0
          /\ Dominates(MarkerFrontier(r), rev[c].vec) \/ rev[c].vec = MarkerFrontier(r)
      BY Zenon, <2>10, <3>1 DEF CollectedIsCovered
    <3>3. CASE r \notin p.advancing
      BY Zenon, <2>9, <3>1, <3>2, <3>3
    <3>4. CASE r \in p.advancing
      <4>1. marker'[r] # 0 /\ Dominates(F(r), MarkerFrontier(r)) /\ F(r) \in Vector
        BY Zenon, <2>4, <2>8, <3>2, <3>4
      <4>2. MarkerFrontier(r) \in Vector
        BY <3>2, VectorTypes
      <4> HIDE DEF F
      <4>3. Dominates(F(r), rev[c].vec)
        BY <3>1, <3>2, <4>1, <4>2, DominatesTransitive
      <4> QED BY <3>1, <4>1, <4>3
    <3> QED BY Zenon, <3>3, <3>4
  <2>11. CASE c \in p.taken
    <3>1. TakenUnder(s, p, c) /\ s.rev[c].record = r
      BY Zenon, <2>2, <2>6, <2>11 DEF PassFacts
    <3>2. CASE /\ r \in p.advancing
               /\ \E w \in AdvancingWitness(s, r) : Covers(s, w, s.rev[w].vec, c)
      <4>1. PICK w \in AdvancingWitness(s, r) : Covers(s, w, s.rev[w].vec, c)
        BY <3>2
      <4>2. w \in Revisions'
        <5>1. w \in heads \cup s.new
          BY Zenon, <2>2 DEF AdvancingWitness, StagedFacts
        <5> QED BY <5>1, <2>6 DEF TypeOK
      <4>3. s.rev[w].vec \in Vector
        BY Zenon, <4>2, <2>6, <2>7
      <4>4. marks'[marker'[r]].witness = w
        BY Zenon, <2>4, <2>6, <2>8, <3>2, <4>3, WitnessUnique
      <4>5. c = w \/ Dominates(s.rev[w].vec, s.rev[c].vec)
        BY <4>1 DEF Covers
      <4> QED BY Zenon, <2>4, <2>6, <3>2, <4>4, <4>5
    <3>3. CASE /\ r \notin p.advancing
               /\ marker[r] # 0
               /\ Covers(s, marks[marker[r]].witness, MarkerFrontier(r), c)
      <4>1. marker'[r] # 0 /\ F(r) = MarkerFrontier(r)
        BY Zenon, <2>9, <3>3
      <4>2. CASE c = marks[marker[r]].witness
        <5>1. marker[r] \in DOMAIN marks
          BY <3>3, VectorTypes
        <5>2. c \in Revisions /\ rev[c].vec = MarkerFrontier(r)
          BY Zenon, <4>2, <5>1 DEF TypeOK, MarkerFrontier
        <5> QED BY Zenon, <2>6, <4>1, <5>2
      <4>3. CASE c # marks[marker[r]].witness
        BY Zenon, <2>6, <3>3, <4>1, <4>3 DEF Covers
      <4> QED BY Zenon, <4>2, <4>3
    <3> QED BY Zenon, <3>1, <3>2, <3>3 DEF TakenUnder
  <2> QED BY Zenon, <2>6, <2>10, <2>11
<1> QED BY <1>1, <1>2 DEF HistoryStep

-----------------------------------------------------------------------------
(* Stranding *)

\* A revision still queued is covered by its record's barrier, so a barrier that
\* every device has acknowledged is past whatever a pass may take.
QueueBelowBarrier == \A c \in candidates : c <= barrier[rev[c].record]

\* The barriers a sync stages cover everything it queues.
LEMMA StagedQueue ==
  ASSUME TypeOK, QueueBelowBarrier, NEW s, NEW d, NEW ack, StagedFacts(s, d, ack),
         NEW c \in s.candidates
  PROVE  /\ c \in Nat
         /\ s.rev[c].record \in Record
         /\ s.barrier[s.rev[c].record] \in Nat
         /\ c <= s.barrier[s.rev[c].record]
<1> DEFINE r == s.rev[c].record
<1>1. /\ s.cursor \in serverCursor..MaxCursor
      /\ s.new = (serverCursor + 1)..s.cursor
      /\ s.rev \in [Revisions \cup s.new -> Revision]
      /\ s.candidates = candidates \cup s.new
      /\ s.barrier \in [Record -> 0..s.cursor]
  BY DEF StagedFacts
<1>2. serverCursor \in Nat /\ MaxCursor \in Nat
  BY CursorFacts, Bounds
<1>3. candidates \subseteq Revisions /\ Revisions \subseteq 1..serverCursor
  BY DEF TypeOK
<1>4. c \in Revisions \cup s.new
  BY Zenon, <1>1, <1>3
<1>5. r \in Record
  BY <1>1, <1>4 DEF Revision
<1>6. c \in Nat
  <2>1. \A x \in s.new : x \in Nat
    BY <1>1, <1>2
  <2>2. \A x \in Revisions : x \in Nat
    BY <1>3
  <2> QED BY <1>4, <2>1, <2>2
<1> HIDE DEF r
<1>7. s.barrier[r] \in 0..s.cursor /\ s.barrier[r] \in Nat
  BY <1>1, <1>5
<1>8. c <= s.barrier[r]
  <2>1. CASE c \in s.new
    BY <2>1 DEF StagedFacts, r
  <2>2. CASE c \in candidates
    <3>1. s.rev[c] = rev[c]
      BY <2>2, <1>3 DEF StagedFacts
    <3>2. c <= barrier[r]
      BY <2>2, <3>1 DEF QueueBelowBarrier, r
    <3>3. barrier[r] \in 0..serverCursor
      BY <1>5 DEF TypeOK
    <3>4. s.barrier[r] >= barrier[r]
      BY Zenon, <1>5 DEF StagedFacts
    <3> QED BY <1>6, <1>7, <3>2, <3>3, <3>4
  <2> QED BY <1>1, <2>1, <2>2, ZenonT(40)
<1> QED BY <1>5, <1>6, <1>7, <1>8, ZenonT(40) DEF r

\* A barrier is dropped only with the last candidate of its record (collection.go,
\* collectEligible).
LEMMA QueueStep ==
  ASSUME TypeOK, QueueBelowBarrier, HistoryStep
  PROVE  QueueBelowBarrier'
<1>1. CASE Quiet
  BY <1>1, Zenon DEF QueueBelowBarrier, Quiet
<1>2. CASE \E s, p, d, ack : Accepts(s, p, d, ack)
  <2>1. PICK s, p, d, ack : Accepts(s, p, d, ack)
    BY <1>2
  <2>2. StagedFacts(s, d, ack) /\ PassFacts(s, p) /\ Collect(s, p)
    BY <2>1 DEF Accepts
  <2>3. /\ rev' = s.rev
        /\ candidates' = s.candidates \ p.taken
        /\ \A c \in candidates' : rev'[c].record \in Record =>
             barrier'[rev'[c].record] = s.barrier[rev'[c].record]
    BY Zenon, <2>2 DEF Collect
  <2> QED BY <2>2, <2>3, StagedQueue DEF QueueBelowBarrier
<1> QED BY <1>1, <1>2 DEF HistoryStep

\* When a pass raises the floor, every active device has acknowledged the barrier
\* of the record at the new floor.
LEMMA NotStrandedStep ==
  ASSUME TypeOK, QueueBelowBarrier, KnownDeviceNotStranded, HistoryStep
  PROVE  KnownDeviceNotStranded'
<1>0. cursorFloor \in Nat /\ serverCursor \in Nat /\ cursorFloor <= serverCursor
  BY CursorFacts
<1>1. CASE Quiet
  <2> SUFFICES ASSUME NEW e \in Device, dev'[e].status = "active"
               PROVE  dev'[e].ack >= cursorFloor \/ dev'[e].created > cursorFloor
    BY Zenon, <1>1 DEF KnownDeviceNotStranded, Active, Quiet
  <2>1. CASE /\ dev[e].status = "active"
             /\ dev'[e].ack = dev[e].ack
             /\ dev'[e].created = dev[e].created
    BY <2>1 DEF KnownDeviceNotStranded, Active
  <2>2. CASE dev'[e].created = serverCursor + 1
    BY <2>2, <1>0
  <2> QED BY Zenon, <1>1, <2>1, <2>2 DEF Quiet
<1>2. CASE \E s, p, d, ack : Accepts(s, p, d, ack)
  <2>1. PICK s, p, d, ack : Accepts(s, p, d, ack)
    BY <1>2
  <2>2. StagedFacts(s, d, ack) /\ PassFacts(s, p) /\ Collect(s, p)
    BY <2>1 DEF Accepts
  <2>3. /\ cursorFloor' = FloorAfter(p)
        /\ cursorFloor' = cursorFloor \/ cursorFloor' \in p.taken
    BY Zenon, <2>2, TakenFacts DEF Collect
  <2> SUFFICES ASSUME NEW e \in Device, dev'[e].status = "active"
               PROVE  dev'[e].ack >= cursorFloor' \/ dev'[e].created > cursorFloor'
    BY DEF KnownDeviceNotStranded, Active
  <2>4. /\ e \in Active
        /\ dev'[e].ack = s.acks[e]
        /\ dev'[e].ack \in Nat
        /\ dev'[e].ack >= dev[e].ack
        /\ dev'[e].created = dev[e].created
    BY <2>1 DEF Accepts, Active
  <2>5. dev[e].ack \in Nat
    BY DEF TypeOK, DeviceRow
  <2>6. CASE cursorFloor' = cursorFloor
    <3>1. CASE dev[e].created > cursorFloor
      BY <2>4, <2>6, <3>1
    <3>2. CASE dev[e].ack >= cursorFloor
      BY <1>0, <2>4, <2>5, <2>6, <3>2
    <3> QED BY <2>4, <3>1, <3>2 DEF KnownDeviceNotStranded
  <2>7. CASE cursorFloor' \in p.taken
    <3> DEFINE c == cursorFloor'
               r == s.rev[c].record
    <3>1. Acknowledged(s, r) /\ c \in s.candidates
      BY Zenon, <2>2, <2>7 DEF PassFacts
    <3>2. s.acks[e] >= s.barrier[r]
      BY Zenon, <2>2, <2>4, <3>1 DEF Acknowledged, StagedFacts
    <3>3. c \in Nat /\ s.barrier[r] \in Nat /\ c <= s.barrier[r]
      BY Zenon, <2>2, <3>1, StagedQueue
    <3> QED BY <2>4, <3>2, <3>3
  <2> QED BY <2>3, <2>6, <2>7
<1> QED BY <1>1, <1>2 DEF HistoryStep

-----------------------------------------------------------------------------
(* The change log, bodies and snapshots *)

\* A cursor has its change until its revision is collected, the floor is at or above
\* everything collected, and a body outlives its revision while a snapshot
\* refers to it.
LogWhole ==
  /\ \A c \in 1..serverCursor :
       /\ origin[c] = "record_revision" => c \in Revisions
       /\ c \in changes \/ c \in DOMAIN collected
  /\ \A c \in DOMAIN collected : c <= cursorFloor
  /\ heads \subseteq Retained
  /\ Retained \subseteq objects
  /\ References(snap) \subseteq objects

\* An enrollment, revocation or envelope change only extends the log.
LEMMA LogAppend ==
  ASSUME TypeOK, LogWhole, NEW kind, kind # "record_revision", AppendChange(kind)
  PROVE  LogWhole'
<1>1. /\ serverCursor \in Nat
      /\ serverCursor' = serverCursor + 1
  BY CursorFacts DEF AppendChange
<1>2. UNCHANGED <<cursorFloor, rev, collected, heads, objects, snap>>
  BY DEF AppendChange
<1>3. \A c \in 1..serverCursor' :
        /\ origin'[c] = "record_revision" => c \in Revisions
        /\ c \in changes' \/ c \in DOMAIN collected
  <2> TAKE c \in 1..serverCursor'
  <2>1. CASE c <= serverCursor
    <3>1. c \in 1..serverCursor
      BY <1>1, <2>1
    <3>2. origin'[c] = origin[c] /\ (c \in changes => c \in changes')
      BY <1>1, <2>1 DEF AppendChange
    <3> QED BY <3>1, <3>2 DEF LogWhole
  <2>2. CASE ~(c <= serverCursor)
    <3>1. c = serverCursor + 1
      BY <1>1, <2>2
    <3>2. origin'[c] = kind /\ c \in changes'
      BY <1>1, <2>2, <3>1 DEF AppendChange
    <3> QED BY <3>2
  <2> QED BY <2>1, <2>2
<1> QED BY <1>2, <1>3 DEF LogWhole, Revisions, Retained

\* A committed sync keeps the log whole and the bodies of what is retained.
LEMMA LogCommitted ==
  ASSUME TypeOK, LogWhole, NEW s, NEW p, NEW d, NEW ack, NEW expired, NEW afters,
         StagedFacts(s, d, ack), PassFacts(s, p),
         SyncCommitted(s, p, d, afters, ack, expired)
  PROVE  LogWhole'
<1>1. Collect(s, p) /\ snap' = WithoutSnapshots(expired)
  BY DEF SyncCommitted
<1>2. /\ Revisions' = Revisions \cup s.new
      /\ \A c \in s.new : c \in Nat /\ c > serverCursor /\ c <= s.cursor
      /\ \A c \in Revisions : c \in Nat /\ c <= serverCursor
      /\ DOMAIN collected' = DOMAIN collected \cup p.taken
      /\ s.cursor \in Nat /\ s.cursor >= serverCursor
  BY Zenon, <1>1, CommittedHistory
<1>3. serverCursor \in Nat /\ serverCursor' \in Nat /\ cursorFloor \in Nat
  BY Zenon, <1>1, CursorFacts, CommittedLog
<1>4. \A c \in 1..serverCursor' :
        /\ origin'[c] = "record_revision" => c \in Revisions'
        /\ c \in changes' \/ c \in DOMAIN collected'
  <2> TAKE c \in 1..serverCursor'
  <2>1. /\ origin'[c] = IF c <= serverCursor THEN origin[c]
                        ELSE IF c \in s.new THEN "record_revision" ELSE "collection_marker"
        /\ changes' = (changes \cup (serverCursor + 1)..serverCursor') \ p.taken
    BY Zenon, <1>1 DEF Collect
  <2>2. CASE c <= serverCursor
    <3>1. c \in 1..serverCursor
      BY <1>3, <2>2
    <3>2. /\ origin[c] = "record_revision" => c \in Revisions
          /\ c \in changes \/ c \in DOMAIN collected
      BY <3>1 DEF LogWhole
    <3> QED BY Zenon, <1>2, <2>1, <2>2, <3>2
  <2>3. CASE ~(c <= serverCursor)
    <3>1. c \in (serverCursor + 1)..serverCursor'
      BY <1>3, <2>3
    <3> QED BY <1>2, <2>1, <2>3, <3>1
  <2> QED BY <2>2, <2>3
<1>5. \A c \in DOMAIN collected' : c <= cursorFloor'
  <2>1. /\ cursorFloor' = FloorAfter(p)
        /\ FloorAfter(p) \in cursorFloor..s.cursor
        /\ \A c \in p.taken : c <= FloorAfter(p)
    BY Zenon, <1>1, TakenFacts DEF Collect
  <2>2. \A c \in DOMAIN collected : c \in Nat /\ c <= cursorFloor
    BY <1>2 DEF LogWhole, TypeOK
  <2>3. \A c \in DOMAIN collected : c <= cursorFloor'
    <3>1. cursorFloor \in Nat /\ cursorFloor' \in Nat /\ cursorFloor' >= cursorFloor
      BY <2>1, CursorFacts
    <3> QED BY <2>2, <3>1
  <2> QED BY <1>2, <2>1, <2>3
<1>6. \A c \in s.new : c \notin DOMAIN collected
  BY <1>2, <1>3 DEF TypeOK
<1>7. Retained' = (Retained \cup s.new) \ p.taken
  BY Zenon, <1>2, <1>6 DEF Retained
<1>8. heads' \subseteq Retained'
  <2>1. heads' = s.heads \ p.taken /\ s.heads \subseteq heads \cup s.new
    BY Zenon, <1>1 DEF Collect, StagedFacts
  <2> QED BY Zenon, <1>7, <2>1 DEF LogWhole
<1>9. objects' = {c \in objects \cup s.new :
                    \/ c \notin p.taken \cup UNION {snap[e].refs : e \in expired}
                    \/ c \in Retained'
                    \/ c \in References(snap')}
  BY DEF SyncCommitted, Release
<1>10. Retained' \subseteq objects'
  BY Zenon, <1>7, <1>9 DEF LogWhole
<1>11. References(snap') \subseteq objects'
  <2>1. References(snap') \subseteq References(snap)
    BY <1>1, WithoutSnapshotsFacts
  <2> QED BY <1>9, <2>1, Zenon DEF LogWhole
<1> QED BY <1>4, <1>5, <1>8, <1>10, <1>11 DEF LogWhole

\* A new snapshot refers to heads, whose bodies are there.
LEMMA LogCreateSnapshot ==
  ASSUME TypeOK, LogWhole, NEW d \in Device, NEW expired, CreateSnapshot(d, expired)
  PROVE  LogWhole'
<1> DEFINE left == WithoutSnapshots(expired)
<1>1. UNCHANGED <<serverCursor, cursorFloor, origin, changes, rev, collected, heads>>
  BY DEF CreateSnapshot, runtimeVars
<1>2. objects' = Release(objects, UNION {snap[e].refs : e \in expired}, Retained, left)
  BY DEF CreateSnapshot
<1>3. left \in [Device -> Snapshot] /\ References(left) \subseteq References(snap)
  BY WithoutSnapshotsFacts
<1>4. \A e \in Device : snap'[e].refs \subseteq left[e].refs \cup heads
  BY <1>3 DEF CreateSnapshot, Snapshot
<1> HIDE DEF left
<1>5. References(snap') \subseteq References(left) \cup heads
  BY <1>4 DEF References
<1>6. Retained \subseteq objects' /\ References(left) \subseteq objects'
  BY <1>2, <1>3 DEF Release, LogWhole
<1>7. References(snap') \subseteq objects'
  BY <1>5, <1>6 DEF LogWhole
<1>8. Retained' = Retained /\ Revisions' = Revisions
  BY <1>1 DEF Retained, Revisions
<1> QED BY <1>1, <1>6, <1>7, <1>8 DEF LogWhole

\* Every step but a sync keeps the log whole.
LEMMA LogOtherStep ==
  ASSUME TypeOK, LogWhole, [Next]_vars, ~ \E d \in Device : Sync(d)
  PROVE  LogWhole'
<1>1. CASE \E d \in Device : Enroll(d)
  BY <1>1, LogAppend DEF Enroll
<1>2. CASE \E actor \in Managers, d \in Device, confirmed \in BOOLEAN,
             elapsed \in 0..MaxElapsed : Revoke(actor, d, confirmed, elapsed)
  BY <1>2, LogAppend DEF Revoke
<1>3. CASE \E d \in Device, expected \in 0..MaxEnvelopes, generation \in 1..MaxEnvelopes,
             elapsed \in 0..MaxElapsed : PutEnvelope(d, expected, generation, elapsed)
  BY <1>3, LogAppend DEF PutEnvelope
<1>5. CASE \E d \in Device, expired \in SUBSET Owners(snap) : CreateSnapshot(d, expired)
  BY <1>5, LogCreateSnapshot
<1>6. CASE \E d \in Device, expired \in SUBSET Owners(snap) :
             CreateSnapshotRolledBack(d, expired)
  BY <1>6 DEF CreateSnapshotRolledBack, runtimeVars, historyVars, LogWhole, Retained, Revisions
<1>7. CASE \E elapsed \in 0..MaxElapsed : CheckpointUptime(elapsed)
  BY <1>7 DEF CheckpointUptime, historyVars, LogWhole, Retained, Revisions
<1>8. CASE Restart
  <2>1. References(snap') = {}
    BY <1>8 DEF Restart, References, NoSnapshot
  <2>2. /\ UNCHANGED <<serverCursor, cursorFloor, origin, changes, rev, collected, heads>>
        /\ Retained \subseteq objects'
    BY <1>8 DEF Restart, runtimeVars, Release, LogWhole
  <2> QED BY <2>1, <2>2, ZenonT(40) DEF LogWhole, Retained, Revisions
<1>9. CASE UNCHANGED vars
  BY <1>9 DEF vars, runtimeVars, historyVars, LogWhole, Retained, Revisions
<1> QED BY <1>1, <1>2, <1>3, <1>5, <1>6, <1>7, <1>8, <1>9 DEF Next

-----------------------------------------------------------------------------
(* Live data *)

\* A live revision that nothing accepted supersedes is a head.
LiveIsHead == \A c \in Frontier(rev, Revisions) : ~rev[c].tombstone => c \in heads

\* A live revision leaves the heads only when an accepted revision dominates it.
LEMMA LiveStep ==
  ASSUME TypeOK, MarkerLast, LiveIsHead, HistoryStep
  PROVE  LiveIsHead'
<1>1. CASE Quiet
  BY Zenon, <1>1 DEF LiveIsHead, Frontier, Revisions, Quiet
<1>2. CASE \E s, p, d, ack : Accepts(s, p, d, ack)
  <2>1. PICK s, p, d, ack : Accepts(s, p, d, ack)
    BY <1>2
  <2>2. StagedFacts(s, d, ack) /\ PassFacts(s, p) /\ Collect(s, p)
    BY Zenon, <2>1 DEF Accepts
  <2>3. /\ rev' = s.rev
        /\ Revisions' = Revisions \cup s.new
        /\ \A c \in Revisions : rev'[c] = rev[c]
    BY Zenon, <2>2, CommittedHistory
  <2> SUFFICES ASSUME NEW c \in Revisions', ~rev'[c].tombstone,
                      \A x \in Revisions' : rev'[x].record = rev'[c].record =>
                                             ~Dominates(rev'[x].vec, rev'[c].vec)
               PROVE  c \in heads'
    BY Zenon DEF LiveIsHead, Frontier
  <2>4. heads \subseteq Revisions
    BY DEF TypeOK
  <2>5. c \in heads \cup s.new
    <3>1. CASE c \in Revisions
      <4>1. c \in Frontier(rev, Revisions) /\ ~rev[c].tombstone
        BY Zenon, <2>3, <3>1 DEF Frontier
      <4> QED BY <4>1 DEF LiveIsHead
    <3> QED BY <2>3, <3>1
  <2>6. c \in s.heads
    <3>1. s.heads = Frontier(s.rev, heads \cup s.new)
      BY Zenon, <2>2 DEF StagedFacts
    <3>2. heads \cup s.new \subseteq Revisions'
      BY <2>3, <2>4
    <3> QED BY Zenon, <2>3, <2>5, <3>1, <3>2 DEF Frontier
  <2>7. c \notin p.taken
    <3>1. SUFFICES ASSUME c \in p.taken PROVE FALSE
      OBVIOUS
    <3>2. TakenUnder(s, p, c)
      BY Zenon, <2>2, <3>1 DEF PassFacts
    <3> DEFINE r == s.rev[c].record
    <3>3. CASE \E w \in AdvancingWitness(s, r) : Covers(s, w, s.rev[w].vec, c)
      <4>1. PICK w \in AdvancingWitness(s, r) : Covers(s, w, s.rev[w].vec, c)
        BY Zenon, <3>3
      <4>2. w \in s.heads /\ s.rev[w].record = r
        BY Zenon, <4>1 DEF AdvancingWitness
      <4>3. w \in Revisions'
        <5>1. s.heads \subseteq heads \cup s.new
          BY Zenon, <2>2 DEF StagedFacts
        <5> QED BY <2>3, <2>4, <4>2, <5>1
      <4>4. Dominates(s.rev[w].vec, s.rev[c].vec)
        BY <2>3, <4>1 DEF Covers
      <4> QED BY <2>3, <4>2, <4>3, <4>4
    <3>4. CASE /\ r \in Record
               /\ marker[r] # 0
               /\ Covers(s, marks[marker[r]].witness, MarkerFrontier(r), c)
      <4> DEFINE w == marks[marker[r]].witness
      <4>1. marker[r] \in DOMAIN marks
        BY <3>4, Zenon DEF TypeOK
      <4>2. w \in Revisions
        BY <4>1 DEF TypeOK
      <4>3. rev[w].record = r /\ rev[w].vec = MarkerFrontier(r)
        BY Zenon, <3>4 DEF MarkerLast, MarkerFrontier
      <4>4. Dominates(MarkerFrontier(r), s.rev[c].vec)
        BY Zenon, <2>3, <3>4 DEF Covers
      <4> QED BY Zenon, <2>3, <4>2, <4>3, <4>4
    <3> QED BY Zenon, <3>2, <3>3, <3>4 DEF TakenUnder
  <2>8. heads' = s.heads \ p.taken
    BY Zenon, <2>2 DEF Collect
  <2> QED BY <2>6, <2>7, <2>8
<1> QED BY <1>1, <1>2 DEF HistoryStep

=============================================================================
