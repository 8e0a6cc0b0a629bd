---------------------------- MODULE SyncProgress ----------------------------
(***************************************************************************)
(* The store under clients that keep at it: each acknowledges all it was   *)
(* handed and reads on from there, and takes a snapshot when the history   *)
(* it would read from is gone (the recovery that the error cursor_expired  *)
(* asks for).  Every step is a step of SyncStore.  The store starts no     *)
(* work of its own: collection runs inside a client's sync, so whether     *)
(* anything is ever collected depends on the clients' syncs alone.         *)
(***************************************************************************)
EXTENDS SyncStore

\* A sync by d that reads from and acknowledges the last cursor it was handed.
DiligentSync(d, muts) ==
  LET at == dev[d].returned
      s  == Staged(d, at, muts, 0)
      p  == Pass(s)
  IN /\ d \in Active
     /\ at >= cursorFloor
     /\ ValidMutations(d, muts)
     /\ Len(muts) <= MaxCursor - serverCursor
     /\ SiblingsFit(s)
     /\ \E expired \in SUBSET Owners(snap) :
          MayExpire(expired) /\ SyncCommitted(s, p, d, {at}, at, expired)

FollowUp(d) == DiligentSync(d, <<>>)

Write(d) == \E m \in Mutation(d) : DiligentSync(d, <<m>>)

\* A snapshot by a device that has no cursor left to sync from.
Recover(d) ==
  /\ dev[d].returned < cursorFloor
  /\ \E expired \in SUBSET Owners(snap) : CreateSnapshot(d, expired)

ProgressNext ==
  \/ \E d \in Device : Enroll(d)
  \/ \E d \in Device : PutEnvelope(d, envelopeGeneration, envelopeGeneration + 1, 0)
  \/ \E d \in Device : Write(d)
  \/ \E d \in Device : FollowUp(d)
  \/ \E d \in Device : Recover(d)
  \/ Restart

\* When a FollowUp by d would change something: there is more to read or to
\* acknowledge, or the pass it runs moves the scan or collects.
FollowUpDue(d) ==
  LET at == dev[d].returned
      p  == Pass(Staged(d, at, <<>>, 0))
  IN /\ d \in Active
     /\ at >= FloorAfter(p)
     /\ \/ dev[d].ack # at
        \/ \E next \in PageEnds(changes, at) : next # at
        \/ ScanAfter(p.batch) # scanAfter
        \/ p.taken # {}

RecoveryDue(d) ==
  d \in Active /\ dev[d].returned < cursorFloor /\ envelopeGeneration # 0

\* A device that is in use goes on syncing, and its requests reach the store:
\* weak fairness of FollowUp and Recover, with what enables them spelled out.
ProgressSpec ==
  /\ Init
  /\ [][ProgressNext]_vars
  /\ \A d \in Device : []<>~FollowUpDue(d) \/ []<><<FollowUp(d)>>_vars
  /\ \A d \in Device : []<>~RecoveryDue(d) \/ []<><<Recover(d)>>_vars

-----------------------------------------------------------------------------
\* Every active device gets to the end of the log and acknowledges it, however
\* late it enrolled and whatever was collected before it could read it: a page
\* always moves it on, and a snapshot puts it back above the floor (sync.go,
\* loadChanges and max_returned; snapshot.go, max_returned).
DevicesCatchUp ==
  \A d \in Device :
    d \in Active /\ envelopeGeneration # 0 ~> d \in Active /\ dev[d].ack = serverCursor

\* A retained revision that its record's only head is a witness for.
Garbage(c) ==
  /\ c \in Retained
  /\ \E w \in heads :
       /\ rev[w].record = rev[c].record
       /\ rev[w].witness
       /\ \A h \in heads : rev[h].record = rev[w].record => h = w
       /\ IF c = w THEN rev[c].tombstone ELSE Dominates(rev[w].vec, rev[c].vec)

\* Garbage is collected, unless a concurrent edit brings its record back into
\* conflict: no record starves, because the scan goes round all queued records
\* (collection.go, loadCollectionRecordBatch), and no device blocks collection for
\* good, because it acknowledges in the end.
GarbageCollected ==
  \A c \in 1..MaxCursor : Garbage(c) /\ envelopeGeneration # 0 ~> ~Garbage(c)

=============================================================================
