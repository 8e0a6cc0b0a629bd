--------------------------- MODULE SyncStore_proofs ---------------------------
(***************************************************************************)
(* Proofs that the store keeps its types and its promises for every number *)
(* of devices, records and requests and every value of the limits.  The    *)
(* first part shows what a sync stages and what its collection pass decides; *)
(* the second concludes, with the steps of SyncStore_types and             *)
(* SyncStore_safety, each theorem from an inductive invariant.             *)
(***************************************************************************)
EXTENDS SyncStore_safety, FiniteSetTheorems, SequenceTheorems, TLAPS

\* A nonempty set of naturals has a least member.
LEMMA LeastNatural ==
  ASSUME NEW T \in SUBSET Nat, T # {}
  PROVE  \E m \in T : \A k \in T : m <= k
<1>1. IsWellFoundedOn(OpToRel(<, Nat), Nat)
  BY Zenon, NatLessThanWellFounded
<1>2. PICK m \in T : \A k \in T : ~(<<k, m>> \in OpToRel(<, Nat))
  BY Zenon, <1>1, WFMin
<1>3. \A k \in T : ~(k < m)
  BY Zenon, <1>2 DEF OpToRel
<1> QED BY <1>3

\* Highest is the largest member of a bounded set of cursors or records, and 0
\* for the empty set (the floor and the scan position are computed with it).
LEMMA HighestFacts ==
  ASSUME NEW n \in Nat, NEW S \in SUBSET (1..n)
  PROVE  /\ Highest(S) \in 0..n
         /\ \A x \in S : x <= Highest(S)
         /\ S # {} => Highest(S) \in S
<1>1. CASE S = {}
  BY <1>1 DEF Highest
<1>2. CASE S # {}
  <2> DEFINE U == {m \in 0..n : \A x \in S : x <= m}
  <2>1. U \in SUBSET Nat /\ n \in U
    OBVIOUS
  <2>2. PICK top \in U : \A k \in U : top <= k
    <3> HIDE DEF U
    <3> QED BY <2>1, LeastNatural
  <2>3. top \in S
    <3>1. SUFFICES ASSUME top \notin S PROVE FALSE
      OBVIOUS
    <3>2. top \in Nat /\ top <= n
      BY <2>2
    <3>3. \A x \in S : x \in Nat /\ x < top /\ x >= 1
      <4> TAKE x \in S
      <4>1. x \in Nat /\ x >= 1
        OBVIOUS
      <4>2. x <= top /\ x # top
        BY <2>2, <3>1
      <4> QED BY <4>1, <4>2, <3>2
    <3>4. top - 1 \in U
      <4>1. PICK x \in S : TRUE
        BY Zenon, <1>2
      <4>2. top > 1
        BY <3>2, <3>3, <4>1
      <4>3. top - 1 \in 0..n /\ \A y \in S : y <= top - 1
        BY <3>2, <3>3, <4>2
      <4> QED BY <4>3
    <3> QED BY <3>4, <3>2, <2>2
  <2>4. \E c \in S : \A x \in S : x <= c
    BY <2>3
  <2> DEFINE h == CHOOSE c \in S : \A x \in S : x <= c
  <2>5. h \in S /\ \A x \in S : x <= h
    BY Zenon, <2>4
  <2>6. Highest(S) = h
    BY Zenon, <1>2 DEF Highest
  <2> HIDE DEF h
  <2> QED BY <2>5, <2>6
<1> QED BY <1>1, <1>2

\* The records of every set lie under a bound.
LEMMA RecordsBounded ==
  ASSUME NEW R \in SUBSET Record
  PROVE  \E n \in Nat : R \subseteq 1..n
<1>1. PICK last \in Record \cup {0} : Record \subseteq 1..last
  BY RecordAssumption
<1>2. last \in Nat
  BY RecordAssumption
<1> QED BY Zenon, <1>1, <1>2

\* Every set of records is finite and bounded.
LEMMA RecordsFinite ==
  ASSUME NEW R \in SUBSET Record
  PROVE  /\ IsFiniteSet(R)
         /\ R \subseteq Nat
         /\ \E n \in Nat : R \subseteq 1..n
<1>1. PICK n \in Nat : R \subseteq 1..n
  BY RecordsBounded
<1>2. IsFiniteSet(1..n)
  BY FS_Interval
<1>3. IsFiniteSet(R)
  BY Zenon, <1>1, <1>2, FS_Subset
<1>4. R \subseteq Nat
  BY <1>1
<1> QED BY <1>1, <1>3, <1>4

-----------------------------------------------------------------------------
(* Cursors of the markers *)

\* The members of R up to r.
Below(R, r) == {q \in R : q <= r}

\* The records of R whose markers, placed from c on in order, get a cursor.
Placed(R, c) == {r \in R : c + Cardinality(Below(R, r)) <= MaxCursor}

\* The cursors a pass gives to the markers of the records R, one after the other
\* from c while cursors last (collection.go, collectEligible): they are distinct,
\* and they fill the interval after c.
LEMMA Ranks ==
  ASSUME NEW R \in SUBSET Record, NEW c \in 0..MaxCursor
  PROVE  /\ Cardinality(Placed(R, c)) \in Nat
         /\ c + Cardinality(Placed(R, c)) <= MaxCursor
         /\ \A r \in Placed(R, c) :
              c + Cardinality(Below(R, r)) \in (c + 1)..(c + Cardinality(Placed(R, c)))
         /\ \A r, q \in Placed(R, c) :
              Cardinality(Below(R, r)) = Cardinality(Below(R, q)) => r = q
<1> DEFINE A == Placed(R, c)
<1> A = {r \in R : c + Cardinality(Below(R, r)) <= MaxCursor}
  BY DEF Placed
<1> HIDE DEF A
<1> MaxCursor \in Nat
  BY BoundAssumption
<1>1. IsFiniteSet(R) /\ R \subseteq Nat
  BY RecordsFinite
<1>2. \A r \in R : IsFiniteSet(Below(R, r)) /\ Cardinality(Below(R, r)) \in Nat
  <2> TAKE r \in R
  <2>1. Below(R, r) \in SUBSET R
    BY DEF Below
  <2> QED BY <2>1, <1>1, FS_Subset, FS_CardinalityType
<1>3. \A r, q \in R : r < q => Cardinality(Below(R, r)) < Cardinality(Below(R, q))
  <2> SUFFICES ASSUME NEW r \in R, NEW q \in R, r < q
               PROVE  Cardinality(Below(R, r)) < Cardinality(Below(R, q))
    OBVIOUS
  <2>1. r \in Nat /\ q \in Nat
    BY <1>1
  <2>2. Below(R, r) \in SUBSET Below(R, q)
    <3>1. \A x \in R : x <= r => x <= q
      BY <1>1, <2>1
    <3> QED BY <3>1 DEF Below
  <2>3. q \in Below(R, q) /\ q \notin Below(R, r)
    BY <2>1 DEF Below
  <2>4. Below(R, r) # Below(R, q)
    BY <2>3
  <2>5. /\ Cardinality(Below(R, r)) <= Cardinality(Below(R, q))
        /\ Cardinality(Below(R, r)) # Cardinality(Below(R, q))
    BY <1>2, <2>2, <2>4, FS_Subset, Zenon
  <2> QED BY <2>5, <1>2
<1>4. A \in SUBSET R /\ IsFiniteSet(A) /\ Cardinality(A) \in Nat
  <2>1. A \in SUBSET R
    OBVIOUS
  <2> QED BY <2>1, <1>1, FS_Subset, FS_CardinalityType
<1>5. \A r \in A : Below(R, r) \in SUBSET A
  <2> SUFFICES ASSUME NEW r \in A, NEW q \in R, q <= r
               PROVE  q \in A
    BY DEF Below
  <2>1. r \in R /\ r \in Nat /\ q \in Nat
    BY <1>1
  <2>2. Cardinality(Below(R, q)) <= Cardinality(Below(R, r))
    BY <1>2, <1>3, <2>1
  <2>3. c + Cardinality(Below(R, r)) <= MaxCursor
    OBVIOUS
  <2> QED BY <1>2, <2>1, <2>2, <2>3
<1>6. \A r \in A : /\ Cardinality(Below(R, r)) >= 1
                   /\ Cardinality(Below(R, r)) <= Cardinality(A)
  <2> TAKE r \in A
  <2>1. r \in R /\ r \in Nat
    BY <1>1
  <2>2. r \in Below(R, r)
    BY <2>1 DEF Below
  <2>3. Cardinality(Below(R, r)) # 0
    BY <1>2, <2>1, <2>2, FS_EmptySet, Zenon
  <2>4. Cardinality(Below(R, r)) <= Cardinality(A)
    BY <1>4, <1>5, FS_Subset
  <2> QED BY <1>2, <2>1, <2>3, <2>4
<1>7. \A r, q \in A : Cardinality(Below(R, r)) = Cardinality(Below(R, q)) => r = q
  BY <1>1, <1>2, <1>3, <1>4
<1>8. c + Cardinality(A) <= MaxCursor
  <2>1. CASE A = {}
    BY <2>1, FS_EmptySet
  <2>2. CASE A # {}
    <3>1. PICK n \in Nat : A \in SUBSET (1..n)
      BY <1>4, RecordsFinite, Zenon
    <3> DEFINE top == Highest(A)
    <3>2. top \in A /\ \A x \in A : x <= top
      BY <2>2, <3>1, HighestFacts, Zenon
    <3> HIDE DEF top
    <3>3. A = Below(R, top)
      BY <1>4, <1>5, <3>2 DEF Below
    <3>4. c + Cardinality(Below(R, top)) <= MaxCursor
      BY <3>2
    <3> QED BY <3>3, <3>4
  <2> QED BY <2>1, <2>2
<1>9. \A r \in A : c + Cardinality(Below(R, r)) \in (c + 1)..(c + Cardinality(A))
  <2> TAKE r \in A
  <2>1. Cardinality(Below(R, r)) \in Nat
    BY <1>2, <1>4
  <2> QED BY <2>1, <1>4, <1>6
<1> QED BY Zenon, <1>4, <1>7, <1>8, <1>9 DEF A

-----------------------------------------------------------------------------
(* Staging *)

\* A request is a sequence of mutations.
LEMMA BatchType ==
  ASSUME NEW d \in Device, NEW muts \in Batches(d)
  PROVE  /\ Len(muts) \in Nat
         /\ \A i \in 1..Len(muts) : muts[i] \in Mutation(d)
<1>1. PICK n \in 0..MaxMutations : muts \in [1..n -> Mutation(d)]
  BY DEF Batches
<1>2. n \in Nat
  BY BoundAssumption
<1>3. muts \in Seq(Mutation(d))
  BY <1>1, <1>2, SeqDef
<1> QED BY <1>3, LenProperties

\* A sync that passes validateMutations stages what StagedFacts says.
LEMMA StagedLemma ==
  ASSUME TypeOK, NEW d \in Active, NEW muts \in Batches(d), NEW ack,
         NEW elapsed \in 0..MaxElapsed, ValidMutations(d, muts),
         Len(muts) <= MaxCursor - serverCursor
  PROVE  StagedFacts(Staged(d, ack, muts, elapsed), d, ack)
<1> DEFINE s == Staged(d, ack, muts, elapsed)
           top == serverCursor + Len(muts)
           New == (serverCursor + 1)..top
           up == Checkpointed(elapsed)
           Own(r) == {c \in New : s.rev[c].record = r}
<1>1. /\ s.cursor = top
      /\ s.uptime = up
      /\ s.new = New
      /\ s.candidates = candidates \cup New
      /\ s.heads = Frontier(s.rev, heads \cup New)
      /\ s.acks = [e \in Active |-> IF e = d THEN ack ELSE dev[e].ack]
  BY Zenon DEF Staged
<1>2. s.rev = [c \in Revisions \cup New |->
                 IF c \in Revisions THEN rev[c]
                 ELSE LET m == muts[c - serverCursor]
                      IN [record |-> m.record, author |-> d,
                          counter |-> m.counter, vec |-> m.vec,
                          tombstone |-> m.tombstone, witness |-> m.witness,
                          uptime |-> up]]
  BY Zenon DEF Staged
<1>3. s.barrier = [r \in Record |->
                     IF Own(r) = {} THEN barrier[r] ELSE Highest(Own(r))]
  BY Zenon DEF Staged
<1> HIDE DEF s
<1>4. /\ serverCursor \in Nat /\ serverCursor <= MaxCursor
      /\ MaxCursor \in Nat /\ MaxCounter \in Nat /\ MaxUptime \in Nat /\ MaxElapsed \in Nat
      /\ accumulatedUptime \in Nat /\ accumulatedUptime <= MaxUptime
  BY BoundAssumption DEF TypeOK
<1>5. /\ d \in Device
      /\ Len(muts) \in Nat
      /\ \A i \in 1..Len(muts) : muts[i] \in Mutation(d)
  BY BatchType DEF Active
<1>6. top \in serverCursor..MaxCursor
  BY <1>4, <1>5
<1>7. up \in accumulatedUptime..MaxUptime /\ up \in Nat
  BY <1>4 DEF Checkpointed, Smaller
<1> HIDE DEF up
<1>8. Revisions \subseteq 1..serverCursor /\ rev \in [Revisions -> Revision]
  BY DEF TypeOK
<1>9. \A c \in New : /\ c \notin Revisions
                     /\ c - serverCursor \in 1..Len(muts)
  BY <1>4, <1>5, <1>8
<1>10. \A c \in New : /\ s.rev[c].record = muts[c - serverCursor].record
                      /\ s.rev[c].vec = muts[c - serverCursor].vec
                      /\ s.rev[c] \in Revision
  <2> TAKE c \in New
  <2>1. c \notin Revisions /\ c - serverCursor \in 1..Len(muts)
    BY <1>9
  <2> DEFINE m == muts[c - serverCursor]
  <2>2. m \in Mutation(d)
    BY <2>1, <1>5
  <2>3. /\ m.record \in Record /\ m.counter \in Nat /\ m.vec \in Vector
        /\ m.tombstone \in BOOLEAN /\ m.witness \in BOOLEAN
    <3> HIDE DEF m
    <3>1. /\ m.record \in Record /\ m.counter \in 1..MaxCounter
          /\ m.vec \in [Device -> 0..MaxCounter]
          /\ m.tombstone \in BOOLEAN /\ m.witness \in BOOLEAN
      BY <2>2 DEF Mutation
    <3>2. m.counter \in Nat /\ m.vec \in Vector
      BY <3>1, <1>4 DEF Vector
    <3> QED BY Zenon, <3>1, <3>2
  <2>4. s.rev[c] = [record |-> m.record, author |-> d, counter |-> m.counter,
                    vec |-> m.vec, tombstone |-> m.tombstone,
                    witness |-> m.witness, uptime |-> up]
    BY <2>1, <1>2, Zenon
  <2> HIDE DEF m
  <2>5. s.rev[c] \in Revision
    BY <2>3, <2>4, <1>5, <1>7 DEF Revision
  <2>6. s.rev[c].record = m.record /\ s.rev[c].vec = m.vec
    BY <2>4
  <2> QED BY <2>5, <2>6 DEF m
<1>11. s.rev \in [Revisions \cup New -> Revision] /\ \A c \in Revisions : s.rev[c] = rev[c]
  BY Zenon, <1>2, <1>8, <1>10
<1>12. \A c \in New : LET r == s.rev[c].record IN
         marker[r] # 0 => Dominates(s.rev[c].vec, MarkerFrontier(r))
  <2> TAKE c \in New
  <2>1. c - serverCursor \in 1..Len(muts)
    BY <1>9
  <2>2. marker[muts[c - serverCursor].record] # 0 =>
          Dominates(muts[c - serverCursor].vec, MarkerFrontier(muts[c - serverCursor].record))
    BY <2>1 DEF ValidMutations
  <2> QED BY <2>2, <1>10, Zenon
<1>13. s.heads \subseteq heads \cup New
  BY <1>1 DEF Frontier
<1>14. \A r \in Record : /\ Highest(Own(r)) \in 0..top
                         /\ \A c \in Own(r) : c <= Highest(Own(r))
                         /\ Own(r) # {} => Highest(Own(r)) \in Own(r)
  <2> TAKE r \in Record
  <2>1. Own(r) \in SUBSET (1..top) /\ top \in Nat
    BY <1>4, <1>5
  <2> HIDE DEF Own, top
  <2> QED BY <2>1, HighestFacts
<1>15. barrier \in [Record -> 0..serverCursor]
  BY Zenon DEF TypeOK
<1>16. s.barrier \in [Record -> 0..top]
  <2>1. ASSUME NEW r \in Record
        PROVE  (IF Own(r) = {} THEN barrier[r] ELSE Highest(Own(r))) \in 0..top
    <3>1. barrier[r] \in 0..top
      BY <1>4, <1>6, <1>15
    <3> QED BY Zenon, <3>1, <1>14
  <2> HIDE DEF Own
  <2> QED BY <2>1, <1>3, Zenon
<1>17. \A r \in Record : s.barrier[r] >= barrier[r]
  <2> TAKE r \in Record
  <2>1. barrier[r] \in 0..serverCursor
    BY <1>15
  <2>2. CASE Own(r) = {}
    BY <1>3, <2>2, <2>1
  <2>3. CASE Own(r) # {}
    <3>1. s.barrier[r] = Highest(Own(r)) /\ Highest(Own(r)) \in New
      BY Zenon, <1>3, <1>14, <2>3
    <3> QED BY <3>1, <2>1, <1>4, <1>5
  <2> QED BY <2>2, <2>3
<1>18. \A c \in New : c <= s.barrier[s.rev[c].record]
  <2> TAKE c \in New
  <2>1. s.rev[c].record \in Record
    BY <1>10 DEF Revision
  <2>2. c \in Own(s.rev[c].record)
    OBVIOUS
  <2>3. s.barrier[s.rev[c].record] = Highest(Own(s.rev[c].record))
    BY <1>3, <2>1, <2>2, Zenon
  <2> QED BY Zenon, <1>14, <2>1, <2>2, <2>3
<1> QED
  BY Zenon, <1>1, <1>6, <1>7, <1>11, <1>12, <1>13, <1>16, <1>17, <1>18 DEF StagedFacts, s

-----------------------------------------------------------------------------
(* The collection pass *)

\* What a witness covers is a candidate of its record that has aged.
LEMMA CoveredCandidates ==
  ASSUME NEW s, NEW r, NEW w, NEW v, NEW c \in Covered(s, CandidateRows(s, r), w, v)
  PROVE  /\ c \in s.candidates
         /\ s.rev[c].record = r
         /\ s.rev[c].uptime + MinRetention <= s.uptime
         /\ Covers(s, w, v, c)
BY DEF Covered, CandidateRows, Covers

\* What selectWitnessCoveredCandidates selects.
LEMMA WitnessCoveredFacts ==
  ASSUME NEW s, NEW r, NEW c \in WitnessCovered(s, r)
  PROVE  /\ c \in s.candidates
         /\ s.rev[c].record = r
         /\ s.rev[c].uptime + MinRetention <= s.uptime
         /\ \E w \in AdvancingWitness(s, r) : Covers(s, w, s.rev[w].vec, c)
<1>1. PICK w \in AdvancingWitness(s, r) :
        c \in Covered(s, CandidateRows(s, r), w, s.rev[w].vec)
  BY DEF WitnessCovered
<1> QED BY <1>1, CoveredCandidates

\* What selectMarkerCoveredCandidates selects.
LEMMA MarkerCoveredFacts ==
  ASSUME NEW s, NEW r, NEW c \in MarkerCovered(s, r)
  PROVE  /\ c \in s.candidates
         /\ s.rev[c].record = r
         /\ s.rev[c].uptime + MinRetention <= s.uptime
         /\ marker[r] # 0
         /\ Covers(s, marks[marker[r]].witness, MarkerFrontier(r), c)
<1>1. c \in Covered(s, CandidateRows(s, r), marks[marker[r]].witness, MarkerFrontier(r))
  BY DEF MarkerCovered
<1>2. marker[r] # 0
  BY DEF MarkerCovered
<1> QED BY <1>1, <1>2, CoveredCandidates

\* The pass of collectEligible does what PassFacts says.
LEMMA PassLemma ==
  ASSUME NEW s, s.cursor \in 0..MaxCursor, s.candidates \subseteq 1..MaxCursor
  PROVE  PassFacts(s, Pass(s))
<1> DEFINE p == Pass(s)
           due == {r \in Batch(s) : Acknowledged(s, r)}
           ready == {r \in due : WitnessCovered(s, r) # {}}
           A == Placed(ready, s.cursor)
<1>1. /\ p.batch = Batch(s)
      /\ p.advancing = A
      /\ p.place = [r \in A |-> s.cursor + Cardinality(Below(ready, r))]
  BY Zenon DEF Pass, Below, Placed
<1> DEFINE W == UNION {WitnessCovered(s, r) : r \in A}
           M == UNION {MarkerCovered(s, r) : r \in due \ A}
<1>0. p.taken = W \cup M
  BY Zenon DEF Pass, Below, Placed
<1> HIDE DEF p
<1>2. Batch(s) \subseteq Record /\ (Batch(s) # {} => collectionGeneration # MaxCollections)
  BY Zenon DEF Batch, First
<1>3. due \subseteq Batch(s) /\ \A r \in due : Acknowledged(s, r)
  OBVIOUS
<1>4. ready \in SUBSET due /\ \A r \in ready : \E c : c \in WitnessCovered(s, r)
  OBVIOUS
<1>5. A \in SUBSET ready
  BY DEF Placed
<1>6. ready \in SUBSET Record
  BY <1>2, <1>3, <1>4
<1>7. /\ Cardinality(A) \in Nat
      /\ s.cursor + Cardinality(A) <= MaxCursor
      /\ \A r \in A : s.cursor + Cardinality(Below(ready, r))
                        \in (s.cursor + 1)..(s.cursor + Cardinality(A))
      /\ \A r, q \in A : Cardinality(Below(ready, r)) = Cardinality(Below(ready, q)) => r = q
  <2> HIDE DEF ready
  <2> QED BY Zenon, <1>6, Ranks
<1> HIDE DEF due, ready, A
<1>8. \A c \in p.taken : /\ c \in s.candidates
                         /\ Acknowledged(s, s.rev[c].record)
                         /\ s.rev[c].uptime + MinRetention <= s.uptime
                         /\ Batch(s) # {}
                         /\ TakenUnder(s, p, c)
  <2> TAKE c \in p.taken
  <2>1. CASE \E r \in A : c \in WitnessCovered(s, r)
    <3>1. PICK r \in A : c \in WitnessCovered(s, r)
      BY <2>1
    <3>2. /\ c \in s.candidates
          /\ s.rev[c].record = r
          /\ s.rev[c].uptime + MinRetention <= s.uptime
          /\ \E w \in AdvancingWitness(s, r) : Covers(s, w, s.rev[w].vec, c)
      BY <3>1, WitnessCoveredFacts, Zenon
    <3>3. TakenUnder(s, p, c)
      BY <1>1, <3>1, <3>2, Zenon DEF TakenUnder
    <3> QED BY <1>3, <1>4, <1>5, <3>1, <3>2, <3>3, Zenon
  <2>2. CASE \E r \in due \ A : c \in MarkerCovered(s, r)
    <3>1. PICK r \in due \ A : c \in MarkerCovered(s, r)
      BY <2>2, Zenon
    <3>2. /\ c \in s.candidates
          /\ s.rev[c].record = r
          /\ s.rev[c].uptime + MinRetention <= s.uptime
          /\ marker[r] # 0
          /\ Covers(s, marks[marker[r]].witness, MarkerFrontier(r), c)
      BY <3>1, MarkerCoveredFacts, ZenonT(40)
    <3>3. TakenUnder(s, p, c)
      BY <1>1, <1>2, <1>3, <3>1, <3>2 DEF TakenUnder
    <3> QED BY <1>3, <3>1, <3>2, <3>3, Zenon
  <2>3. c \in W \/ c \in M
    <3> HIDE DEF W, M
    <3> QED BY <1>0
  <2>4. \/ \E r \in A : c \in WitnessCovered(s, r)
        \/ \E r \in due \ A : c \in MarkerCovered(s, r)
    BY <2>3, Zenon
  <2> QED BY <2>1, <2>2, <2>4, Zenon
<1>9. \A r \in A : AdvancingWitness(s, r) # {}
  <2> TAKE r \in A
  <2>1. PICK c : c \in WitnessCovered(s, r)
    BY <1>4, <1>5
  <2> QED BY <2>1, WitnessCoveredFacts
<1>10. \A r \in A : Cardinality(Below(ready, r)) \in Int
  <2> TAKE r \in A
  <2>1. IsFiniteSet(ready) /\ Below(ready, r) \in SUBSET ready
    BY <1>6, RecordsFinite DEF Below
  <2> QED BY <2>1, FS_Subset, FS_CardinalityType
<1>11. p.place \in [A -> (s.cursor + 1)..(s.cursor + Cardinality(A))]
  BY <1>1, <1>7
<1>12. \A q, r \in A : p.place[q] = p.place[r] => q = r
  BY <1>1, <1>7, <1>10
<1>13. A \subseteq Record
  BY <1>5, <1>6, Zenon
<1>14. p.taken \subseteq s.candidates /\ (p.taken # {} => collectionGeneration # MaxCollections)
  BY <1>2, <1>8
<1>15. /\ p.taken # {} => Highest(p.taken) \in p.taken
       /\ \A c \in p.taken : c <= Highest(p.taken)
  <2>1. p.taken \in SUBSET (1..MaxCursor) /\ MaxCursor \in Nat
    BY <1>14, Bounds, Zenon
  <2> QED BY <2>1, HighestFacts
<1>16. p.batch # {} => Highest(p.batch) \in p.batch
  <2>1. PICK n \in Nat : p.batch \in SUBSET (1..n)
    BY <1>1, <1>2, RecordsBounded, ZenonT(60)
  <2> QED BY <2>1, HighestFacts
<1>17. PassFacts(s, p)
  BY Zenon, <1>1, <1>2, <1>7, <1>8, <1>9, <1>11, <1>12, <1>13, <1>14, <1>15, <1>16
     DEF PassFacts
<1> QED BY <1>17 DEF p

\* A sync is staged, passes over the records, and then commits or rolls back.
LEMMA SyncStep ==
  ASSUME TypeOK, NEW d \in Device, Sync(d)
  PROVE  \E s, p, ack, expired :
           /\ d \in Active
           /\ ack \in AckCursors(d)
           /\ StagedFacts(s, d, ack)
           /\ PassFacts(s, p)
           /\ MayExpire(expired)
           /\ \/ SyncCommitted(s, p, d, AfterCursors(d), ack, expired)
              \/ SyncRolledBack(p, AfterCursors(d), expired)
<1>1. d \in Active
  BY DEF Sync
<1>2. PICK muts \in Batches(d), ack \in AckCursors(d), elapsed \in 0..MaxElapsed,
           expired \in SUBSET Owners(snap) :
        /\ ValidMutations(d, muts)
        /\ Len(muts) <= MaxCursor - serverCursor
        /\ MayExpire(expired)
        /\ LET s == Staged(d, ack, muts, elapsed)
               p == Pass(s)
           IN \/ SyncCommitted(s, p, d, AfterCursors(d), ack, expired)
              \/ SyncRolledBack(p, AfterCursors(d), expired)
  BY DEF Sync
<1> DEFINE s == Staged(d, ack, muts, elapsed)
<1>3. StagedFacts(s, d, ack)
  BY <1>1, <1>2, StagedLemma
<1>4. s.cursor \in 0..MaxCursor /\ s.candidates \subseteq 1..MaxCursor
  <2>1. /\ s.cursor \in serverCursor..MaxCursor
        /\ s.candidates = candidates \cup (serverCursor + 1)..s.cursor
    BY Zenon, <1>3 DEF StagedFacts
  <2>2. serverCursor \in Nat /\ MaxCursor \in Nat /\ candidates \subseteq 1..serverCursor
    BY BoundAssumption DEF TypeOK
  <2> HIDE DEF s
  <2>3. s.cursor \in Nat /\ s.cursor >= serverCursor /\ s.cursor <= MaxCursor
    BY <2>1, <2>2
  <2>4. 1..serverCursor \subseteq 1..MaxCursor
    BY <2>2, <2>3
  <2>5. (serverCursor + 1)..s.cursor \subseteq 1..MaxCursor
    BY <2>2, <2>3
  <2>6. s.cursor \in 0..MaxCursor
    BY <2>2, <2>3
  <2>7. s.candidates \subseteq 1..MaxCursor
    BY Zenon, <2>1, <2>2, <2>4, <2>5
  <2> QED BY Zenon, <2>6, <2>7
<1>5. PassFacts(s, Pass(s))
  <2> HIDE DEF s
  <2> QED BY <1>4, PassLemma
<1> QED BY <1>1, <1>2, <1>3, <1>5, Zenon

-----------------------------------------------------------------------------
(* Types *)

\* handleSync keeps the types, committed or not.
LEMMA TypeSync ==
  ASSUME TypeOK, NEW d \in Device, Sync(d)
  PROVE  TypeOK'
<1>1. PICK s, p, ack, expired :
           /\ ack \in AckCursors(d)
           /\ StagedFacts(s, d, ack)
           /\ PassFacts(s, p)
           /\ \/ SyncCommitted(s, p, d, AfterCursors(d), ack, expired)
              \/ SyncRolledBack(p, AfterCursors(d), expired)
  BY SyncStep
<1>2. CASE SyncCommitted(s, p, d, AfterCursors(d), ack, expired)
  BY <1>1, <1>2, TypeCommitted
<1>3. CASE SyncRolledBack(p, AfterCursors(d), expired)
  BY <1>3, TypeLeases DEF SyncRolledBack
<1> QED BY <1>1, <1>2, <1>3, Zenon

\* Every table of every reachable database has rows of its type, and every cursor
\* that names a row has been assigned.
THEOREM TypeCorrect == Spec => []TypeOK
<1>1. ASSUME TypeOK, [Next]_vars PROVE TypeOK'
  <2>1. CASE \E d \in Device : Enroll(d)
    BY <1>1, <2>1, TypeEnroll
  <2>2. CASE \E actor \in Managers, d \in Device, confirmed \in BOOLEAN,
               elapsed \in 0..MaxElapsed : Revoke(actor, d, confirmed, elapsed)
    BY <1>1, <2>2, TypeRevoke
  <2>3. CASE \E d \in Device, expected \in 0..MaxEnvelopes, generation \in 1..MaxEnvelopes,
               elapsed \in 0..MaxElapsed : PutEnvelope(d, expected, generation, elapsed)
    BY <1>1, <2>3, TypePutEnvelope, Zenon
  <2>4. CASE \E d \in Device : Sync(d)
    BY <1>1, <2>4, TypeSync
  <2>5. CASE \E d \in Device, expired \in SUBSET Owners(snap) :
               CreateSnapshot(d, expired) \/ CreateSnapshotRolledBack(d, expired)
    BY <1>1, <2>5, TypeCreateSnapshot, TypeLeases, Zenon DEF CreateSnapshotRolledBack
  <2>6. CASE \E elapsed \in 0..MaxElapsed : CheckpointUptime(elapsed)
    BY <1>1, <2>6, TypeCheckpoint, Zenon
  <2>7. CASE Restart
    BY <1>1, <2>7, TypeRestart, Zenon
  <2>8. CASE UNCHANGED vars
    BY <1>1, <2>8, Zenon DEF vars, runtimeVars, historyVars, TypeOK, Revisions
  <2> QED BY <1>1, <2>1, <2>2, <2>3, <2>4, <2>5, <2>6, <2>7, <2>8, Zenon DEF Next
<1> QED BY <1>1, TypeInit, PTL DEF Spec

-----------------------------------------------------------------------------
(* Safety *)

\* Every step is a committed sync or leaves history alone: only a committed sync
\* accepts, collects, or moves the floor and the markers, and no step takes back
\* uptime.
LEMMA StepCases ==
  ASSUME TypeOK, [Next]_vars
  PROVE  HistoryStep
<1>1. CASE \E d \in Device : Sync(d)
  <2>1. PICK d \in Device : Sync(d)
    BY <1>1
  <2>2. PICK s, p, ack, expired :
           /\ d \in Active
           /\ ack \in AckCursors(d)
           /\ StagedFacts(s, d, ack)
           /\ PassFacts(s, p)
           /\ \/ SyncCommitted(s, p, d, AfterCursors(d), ack, expired)
              \/ SyncRolledBack(p, AfterCursors(d), expired)
    BY <2>1, SyncStep, Zenon
  <2>3. CASE SyncCommitted(s, p, d, AfterCursors(d), ack, expired)
    <3>1. Accepts(s, p, d, ack)
      BY Zenon, <2>2, <2>3, CommittedAccepts
    <3> QED BY Zenon, <3>1 DEF HistoryStep
  <2>4. CASE SyncRolledBack(p, AfterCursors(d), expired)
    <3>1. Quiet
      BY <2>4, CursorFacts DEF SyncRolledBack, runtimeVars, historyVars, Quiet
    <3> QED BY Zenon, <3>1 DEF HistoryStep
  <2> QED BY <2>2, <2>3, <2>4 DEF HistoryStep
<1> QED BY <1>1, QuietSteps DEF HistoryStep

\* Whatever the requests and their timing, nothing is collected before it has aged
\* MinRetention of durable uptime (collection.go, loadCollectionRecordWork).
THEOREM AgedBeforeCollectedAlways == Spec => []AgedBeforeCollected
<1>1. Init => AgedBeforeCollected
  BY DEF Init, AgedBeforeCollected
<1> QED BY <1>1, AgedStep, StepCases, TypeCorrect, PTL DEF Spec

\* The marker row of a record is its newest marker change, and its frontier is
\* ahead of all the earlier ones' (collection.go, writeCollectionMarker).
THEOREM MarkerLastAlways == Spec => []MarkerLast
<1>1. Init => MarkerLast
  BY DEF Init, MarkerLast
<1> QED BY <1>1, MarkerLastStep, StepCases, TypeCorrect, PTL DEF Spec

\* For every number of passes, the frontier of a record's markers strictly
\* advances (collection.go, selectAdvancingWitness).
THEOREM MarkersAdvanceAlways == Spec => []MarkersAdvance
<1>1. Init => MarkersAdvance
  BY DEF Init, MarkersAdvance
<1> QED BY <1>1, MarkersAdvanceStep, StepCases, MarkerLastAlways, TypeCorrect, PTL DEF Spec

\* No deleted record comes back: whatever is accepted after a marker strictly
\* dominates that marker's frontier (sync.go, stale_after_collection).
THEOREM NoResurrectionAlways == Spec => []NoResurrection
<1>1. Init => NoResurrection
  BY DEF Init, NoResurrection
<1> QED BY <1>1, NoResurrectionStep, StepCases, MarkerLastAlways, TypeCorrect, PTL DEF Spec

\* A device that reads only the current marker of a record knows of everything
\* collected from it, by however many passes (collection.go, collectEligible).
THEOREM CollectedIsCoveredAlways == Spec => []CollectedIsCovered
<1>1. Init => CollectedIsCovered
  BY DEF Init, CollectedIsCovered
<1> QED BY <1>1, CollectedIsCoveredStep, StepCases, TypeCorrect, PTL DEF Spec

\* Every queued revision is covered by its record's barrier (collection_records,
\* collection_candidates).
THEOREM QueueBelowBarrierAlways == Spec => []QueueBelowBarrier
<1>1. Init => QueueBelowBarrier
  BY DEF Init, QueueBelowBarrier
<1> QED BY <1>1, QueueStep, StepCases, TypeCorrect, PTL DEF Spec

\* Collection strands no device it knew: an active device can always read from its
\* own acknowledgement, unless it enrolled after the floor (collection.go,
\* allAcknowledged; sync.go, cursor_expired).
THEOREM KnownDeviceNeverStranded == Spec => []KnownDeviceNotStranded
<1>1. Init => KnownDeviceNotStranded
  <2> SUFFICES ASSUME Init PROVE KnownDeviceNotStranded
    OBVIOUS
  <2>1. \A d \in Device : dev[d].status = "absent"
    BY Zenon DEF Init, NoDevice
  <2> QED BY Zenon, <2>1 DEF KnownDeviceNotStranded, Active
<1> QED BY <1>1, NotStrandedStep, StepCases, QueueBelowBarrierAlways, TypeCorrect, PTL DEF Spec

-----------------------------------------------------------------------------
(* The change log, bodies and snapshots *)

\* Every step keeps the log whole.
LEMMA LogStep ==
  ASSUME TypeOK, LogWhole, [Next]_vars
  PROVE  LogWhole'
<1>1. CASE \E d \in Device : Sync(d)
  <2>1. PICK d \in Device : Sync(d)
    BY <1>1
  <2>2. PICK s, p, ack, expired :
           /\ d \in Active
           /\ ack \in AckCursors(d)
           /\ StagedFacts(s, d, ack)
           /\ PassFacts(s, p)
           /\ MayExpire(expired)
           /\ \/ SyncCommitted(s, p, d, AfterCursors(d), ack, expired)
              \/ SyncRolledBack(p, AfterCursors(d), expired)
    BY <2>1, SyncStep
  <2>3. CASE SyncCommitted(s, p, d, AfterCursors(d), ack, expired)
    BY <2>2, <2>3, LogCommitted, ZenonT(40)
  <2>4. CASE SyncRolledBack(p, AfterCursors(d), expired)
    BY <2>4 DEF SyncRolledBack, runtimeVars, historyVars, LogWhole, Retained, Revisions
  <2> QED BY <2>2, <2>3, <2>4
<1> QED BY <1>1, LogOtherStep

\* The change log keeps what the floor promises (sync.go, loadChanges;
\* collection.go, collectEligible).
THEOREM LogWholeAlways == Spec => []LogWhole
<1>1. Init => LogWhole
  <2> SUFFICES ASSUME Init PROVE LogWhole
    OBVIOUS
  <2>1. /\ serverCursor = 0 /\ DOMAIN collected = {} /\ DOMAIN rev = {} /\ heads = {}
        /\ \A d \in Device : snap[d].refs = {}
    BY DEF Init, NoSnapshot
  <2> QED BY <2>1 DEF LogWhole, References, Retained, Revisions
<1> QED BY <1>1, LogStep, TypeCorrect, PTL DEF Spec

\* No sync is ever answered with a silently incomplete delta: above the floor,
\* from which alone a sync may read, every change is there and every revision's
\* change has its revision and body (sync.go, loadChanges).
THEOREM DeltaCompleteAlways == Spec => []DeltaComplete
<1>1. TypeOK /\ LogWhole => DeltaComplete
  <2> SUFFICES ASSUME TypeOK, LogWhole, NEW c \in (cursorFloor + 1)..serverCursor
               PROVE  /\ c \in changes
                      /\ origin[c] = "record_revision" => c \in Retained \cap objects
    BY DEF DeltaComplete
  <2>1. c \in 1..serverCursor /\ ~(c <= cursorFloor)
    BY CursorFacts
  <2>2. c \notin DOMAIN collected
    BY <2>1 DEF LogWhole
  <2> QED BY <2>1, <2>2, Zenon DEF LogWhole, Retained
<1> QED BY <1>1, LogWholeAlways, TypeCorrect, PTL

\* Every page of every snapshot stays readable while its row exists, whatever
\* collections and prunes run meanwhile (collection.go,
\* deleteUnreferencedRevisionObject).
THEOREM SnapshotReadableAlways == Spec => []SnapshotReadable
<1>1. LogWhole => SnapshotReadable
  BY DEF LogWhole, SnapshotReadable
<1> QED BY <1>1, LogWholeAlways, PTL

-----------------------------------------------------------------------------
(* Live data *)

\* A live revision that nothing supersedes is a head (sync.go,
\* classifyRevisionFrontier).
THEOREM LiveIsHeadAlways == Spec => []LiveIsHead
<1>1. Init => LiveIsHead
  BY DEF Init, LiveIsHead, Frontier, Revisions
<1> QED BY <1>1, LiveStep, StepCases, MarkerLastAlways, TypeCorrect, PTL DEF Spec

\* Live data is never lost: a revision that no accepted revision of its record
\* supersedes, and that is not a deletion, stays a head with its body (sync.go,
\* classifyRevisionFrontier; collection.go, selectWitnessCoveredCandidates and
\* selectMarkerCoveredCandidates).
THEOREM LiveDataKeptAlways == Spec => []LiveDataKept
<1>1. LiveIsHead /\ LogWhole => LiveDataKept
  BY DEF LiveIsHead, LogWhole, LiveDataKept
<1> QED BY <1>1, LiveIsHeadAlways, LogWholeAlways, PTL

=============================================================================
