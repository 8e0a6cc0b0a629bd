------------------------- MODULE Credentials_proofs -------------------------
(***************************************************************************)
(* What the steps of Credentials preserve, for any number of devices,      *)
(* tokens, grants, requests and restarts and for any limits.  The theorems *)
(* about the whole server are in Server_proofs.                            *)
(***************************************************************************)
EXTENDS Credentials, TLAPS

\* A step of the requests, the enrollment socket and the life of the process.
CredentialsStep ==
  \/ HandleAPI
  \/ \E now \in Moments : CreateEnrollmentGrant(now)
  \/ PublishCheckpoint
  \/ \E delivered \in BOOLEAN : PublishGrant(delivered)
  \/ Tick
  \/ boot = 0 /\ StartBoot
  \/ CheckpointUptime
  \/ LoseMemory

(***************************************************************************)
(* Uptime.                                                                 *)
(***************************************************************************)
\* The checkpoint accounts for everything accumulated, except between a commit and its
\* publication, when the committed checkpoint does.
UptimeInv ==
  /\ clock \in Nat /\ accumulated \in Nat /\ checkpoint \in Nat /\ started \in Nat
  /\ checkpoint <= clock
  /\ publishing = Absent => accumulated <= checkpoint
  /\ publishing # Absent => /\ publishing \in Nat
                            /\ accumulated <= publishing
                            /\ publishing <= clock

\* Nothing is accumulated before the first boot (store.Open).
LEMMA UptimeInitially == CredentialsInit => UptimeInv
BY CredentialsAssumption DEF CredentialsInit, UptimeInv

\* A commit of a request that arrived at any time not after the present accounts for no
\* time twice (checkpointUptimeTx, commitUptimeTransaction).
LEMMA CommitKeepsUptime ==
  ASSUME UptimeInv, NEW now \in Nat, now <= clock, CommitUptime(now),
         UNCHANGED <<clock, checkpoint, started>>
  PROVE  UptimeInv'
<1>1. Elapsed(now) \in Nat /\ checkpoint + Elapsed(now) <= clock
  BY DEF Elapsed, UptimeInv
<1>2. accumulated <= checkpoint
  BY DEF CommitUptime, UptimeInv
<1>3. QED
  BY <1>1, <1>2, CredentialsAssumption DEF CommitUptime, UptimeInv

\* The requests that leave a receipt account for uptime; no other request does.
LEMMA RequestsKeepUptime == UptimeInv /\ HandleAPI => UptimeInv'
<1> SUFFICES ASSUME UptimeInv, HandleAPI PROVE UptimeInv'
  OBVIOUS
<1>1. \A now \in Moments : now \in Nat /\ now <= clock
  BY DEF Moments, UptimeInv
<1>2. ASSUME NEW d, NEW operation, NEW id, NEW print, StoreReceipt(d, operation, id, print),
             UNCHANGED <<clock, checkpoint, started>>
      PROVE  UptimeInv'
  <2>1. PICK now \in Moments : CommitUptime(now)
    BY <1>2 DEF StoreReceipt
  <2>2. QED
    BY <1>1, <1>2, <2>1, CommitKeepsUptime
<1>3. CASE HandleEnrollment
  BY <1>3 DEF HandleEnrollment, CreateDevice, RecoverEnrollment, RefuseEnrollment, memory, UptimeInv
<1>4. ASSUME NEW bearer, NEW x, NEW token, HandleTokenRotation(bearer, x, token)
      PROVE  UptimeInv'
  BY <1>4 DEF HandleTokenRotation, memory, UptimeInv
<1>5. ASSUME NEW bearer, NEW target, NEW id, NEW allow, HandleRevokeDevice(bearer, target, id, allow)
      PROVE  UptimeInv'
  BY <1>2, <1>5 DEF HandleRevokeDevice
<1>6. ASSUME NEW bearer, NEW id, NEW payload, HandleSync(bearer, id, payload)
      PROVE  UptimeInv'
  BY <1>2, <1>6 DEF HandleSync
<1>7. ASSUME NEW bearer, NEW id, NEW expected, HandlePutEnvelope(bearer, id, expected)
      PROVE  UptimeInv'
  BY <1>2, <1>7 DEF HandlePutEnvelope
<1>8. QED
  BY <1>3, <1>4, <1>5, <1>6, <1>7 DEF HandleAPI

\* Every step keeps the uptime account.
LEMMA UptimeKept == UptimeInv /\ (CredentialsStep \/ UNCHANGED credentialVars) => UptimeInv'
<1> SUFFICES ASSUME UptimeInv, CredentialsStep \/ UNCHANGED credentialVars PROVE UptimeInv'
  OBVIOUS
<1>1. CASE HandleAPI
  BY <1>1, RequestsKeepUptime
<1>2. CASE \E now \in Moments : CreateEnrollmentGrant(now)
  BY <1>2 DEF CreateEnrollmentGrant, UptimeInv
<1>3. CASE PublishCheckpoint
  BY <1>3, CredentialsAssumption DEF PublishCheckpoint, UptimeInv
<1>4. CASE \E delivered \in BOOLEAN : PublishGrant(delivered)
  BY <1>4 DEF PublishGrant, UptimeInv
<1>5. CASE Tick
  BY <1>5 DEF Tick, memory, UptimeInv
<1>6. CASE StartBoot
  BY <1>6 DEF StartBoot, UptimeInv
<1>7. CASE CheckpointUptime
  <2>1. CASE CommitUptime(clock)
    BY <1>7, <2>1, CommitKeepsUptime DEF CheckpointUptime, UptimeInv
  <2>2. CASE UNCHANGED <<accumulated, publishing>>
    BY <1>7, <2>2 DEF CheckpointUptime, UptimeInv
  <2>3. QED
    BY <1>7, <2>1, <2>2 DEF CheckpointUptime
<1>8. CASE LoseMemory
  BY <1>8, CredentialsAssumption, SMTT(20) DEF LoseMemory, UptimeInv
<1>9. CASE UNCHANGED credentialVars
  BY <1>9 DEF credentialVars, memory, UptimeInv
<1>10. QED
  BY <1>1, <1>2, <1>3, <1>4, <1>5, <1>6, <1>7, <1>8, <1>9 DEF CredentialsStep

\* The account never runs ahead of the time the server was up.
LEMMA UptimeBounded == UptimeInv => UptimeNotInflated
BY DEF UptimeInv, UptimeNotInflated

(***************************************************************************)
(* Grants.                                                                 *)
(***************************************************************************)
\* The types of what a grant leaves in the tables, in memory and in history.
GrantTypes ==
  /\ clock \in Nat /\ started \in Nat /\ activeBoot \in Nat
  /\ boot \in {0, activeBoot}
  /\ grants \in [Grants -> [boot : Nat, consumed : EnrollmentIds \union {Absent}] \union {Absent}]
  /\ deadlines \in [Grants -> Nat \union {Absent}]
  /\ minted \in [Grants -> [boot : Nat, at : Nat, delivered : BOOLEAN] \union {Absent}]
  /\ minting \in [grant : Grants, deadline : Nat, expired : SUBSET Grants] \union {Absent}

\* When the lifetime promised for a grant ends.
Ends(g) == minted[g].at + GrantLifetime

\* Rows and deadlines are those of the grants that were drawn.
GrantRows ==
  \A g \in Grants :
     /\ minted[g] # Absent => minted[g].boot <= activeBoot
     /\ grants[g] # Absent => minted[g] # Absent /\ grants[g].boot = minted[g].boot
     /\ deadlines[g] # Absent => /\ minted[g] # Absent
                                 /\ minted[g].boot = boot
                                 /\ deadlines[g] = Ends(g)

\* A grant between its commit and its publication, and the grants that go with it.
GrantInFlight ==
  minting # Absent =>
     /\ boot # 0
     /\ minted[minting.grant] # Absent
     /\ minted[minting.grant].boot = boot
     /\ ~minted[minting.grant].delivered
     /\ minting.deadline = Ends(minting.grant)
     /\ minting.grant \notin minting.expired
     /\ \A g \in minting.expired : minted[g] # Absent /\ clock >= Ends(g)

\* What is missing of a grant of this boot is missing because its time is over.
GrantKeptWhileAlive ==
  \A g \in Grants :
     boot # 0 /\ minted[g] # Absent /\ minted[g].boot = boot /\ clock < Ends(g) =>
        /\ grants[g] # Absent
        /\ deadlines[g] # Absent \/ (minting # Absent /\ minting.grant = g)

\* A grant that was accepted was drawn, and its row names what it was accepted for.
SpentMarked ==
  /\ spent \subseteq Grants \X EnrollmentIds
  /\ \A g \in Grants, id \in EnrollmentIds : <<g, id>> \in spent =>
        /\ minted[g] # Absent
        /\ grants[g] # Absent => grants[g].consumed = id
        /\ \A other \in EnrollmentIds : <<g, other>> \in spent => other = id

GrantInv == GrantTypes /\ GrantRows /\ GrantInFlight /\ GrantKeptWhileAlive /\ SpentMarked

\* There is no grant before the first boot.
LEMMA GrantInitially == CredentialsInit => GrantInv
BY CredentialsAssumption DEF CredentialsInit, GrantInv, GrantTypes, GrantRows, GrantInFlight,
   GrantKeptWhileAlive, SpentMarked

\* Requests of any kind leave the boot, the deadlines and the history of grants alone, and
\* a request that takes no grant leaves the rows alone as well.
LEMMA OtherRequestsKeepGrants ==
  ASSUME GrantInv,
         UNCHANGED <<grants, activeBoot, boot, deadlines, minting, started, clock, minted, spent>>
  PROVE  GrantInv'
BY DEF GrantInv, GrantTypes, GrantRows, GrantInFlight, GrantKeptWhileAlive, SpentMarked, Ends

\* A grant that is accepted for a new enrollment, or that recovers one, was not accepted
\* before: its row is there and unmarked (handleEnrollment, lookupGrant).
LEMMA AcceptedIsUnspent ==
  ASSUME GrantInv, NEW g \in Grants, NEW request, NEW now,
         EnrollmentAnswer(g, request, now) \in {"created", "recovered"}
  PROVE  grants[g] # Absent /\ grants[g].consumed = Absent
<1>1. LookupGrant(g, now) = "ok"
  BY DEF EnrollmentAnswer, LookupGrant
<1>2. grants[g] # Absent
  BY <1>1 DEF LookupGrant
<1>3. grants[g].consumed = Absent
  BY <1>1 DEF EnrollmentAnswer, LookupEnrollment
<1>4. QED
  BY <1>2, <1>3

\* Accepting a grant marks its row and adds one pair for it (handleEnrollment).
LEMMA AcceptingKeepsGrants ==
  ASSUME GrantInv, NEW g \in Grants, NEW id \in EnrollmentIds,
         grants[g] # Absent, grants[g].consumed = Absent,
         grants' = Consume(g, id), spent' = spent \union {<<g, id>>},
         UNCHANGED <<activeBoot, boot, deadlines, minting, started, clock, minted>>
  PROVE  GrantInv'
<1>1. grants[g] \in [boot : Nat, consumed : EnrollmentIds \union {Absent}]
  BY DEF GrantInv, GrantTypes
<1>2. /\ grants'[g] \in [boot : Nat, consumed : EnrollmentIds \union {Absent}]
      /\ grants'[g].boot = grants[g].boot
      /\ grants'[g].consumed = id
      /\ \A h \in Grants \ {g} : grants'[h] = grants[h]
      /\ grants' \in [Grants -> [boot : Nat, consumed : EnrollmentIds \union {Absent}] \union {Absent}]
  BY <1>1 DEF Consume, GrantInv, GrantTypes
<1>3. grants'[g] # Absent
  BY <1>2, CredentialsAssumption
<1>4. \A other \in EnrollmentIds : <<g, other>> \notin spent
  BY CredentialsAssumption DEF GrantInv, SpentMarked
<1>5. SpentMarked'
  BY <1>2, <1>3, <1>4 DEF GrantInv, SpentMarked, GrantRows
<1>6. GrantTypes'
  BY <1>2, SMTT(30) DEF GrantInv, GrantTypes
<1>7. GrantRows' /\ GrantInFlight' /\ GrantKeptWhileAlive'
  BY <1>2, <1>3 DEF GrantInv, GrantRows, GrantInFlight, GrantKeptWhileAlive, Ends
<1>8. QED
  BY <1>5, <1>6, <1>7 DEF GrantInv

\* Requests keep the invariant of the grants (HandleAPI).
LEMMA RequestsKeepGrants == GrantInv /\ HandleAPI => GrantInv'
<1> SUFFICES ASSUME GrantInv, HandleAPI PROVE GrantInv'
  OBVIOUS
<1>1. CASE HandleEnrollment
  <2>1. PICK g \in Grants, request \in Applicants, now \in Moments :
           \/ CreateDevice(g, request, now)
           \/ RecoverEnrollment(g, request, now)
           \/ RefuseEnrollment(g, request, now)
    BY <1>1 DEF HandleEnrollment
  <2>2. request.id \in EnrollmentIds
    BY CredentialsAssumption
  <2>3. CASE CreateDevice(g, request, now)
    <3>1. EnrollmentAnswer(g, request, now) \in {"created", "recovered"}
      BY <2>3 DEF CreateDevice
    <3>2. grants[g] # Absent /\ grants[g].consumed = Absent
      BY <3>1, AcceptedIsUnspent, SMTT(30)
    <3>3. QED
      BY <2>2, <2>3, <3>2, AcceptingKeepsGrants DEF CreateDevice
  <2>4. CASE RecoverEnrollment(g, request, now)
    <3>1. EnrollmentAnswer(g, request, now) \in {"created", "recovered"}
      BY <2>4 DEF RecoverEnrollment
    <3>2. grants[g] # Absent /\ grants[g].consumed = Absent
      BY <3>1, AcceptedIsUnspent
    <3>3. QED
      BY <2>2, <2>4, <3>2, AcceptingKeepsGrants DEF RecoverEnrollment, memory
  <2>5. CASE RefuseEnrollment(g, request, now)
    BY <2>5, OtherRequestsKeepGrants DEF RefuseEnrollment, tables
  <2>6. QED
    BY <2>1, <2>3, <2>4, <2>5
<1>2. ASSUME NEW bearer, NEW x, NEW token, HandleTokenRotation(bearer, x, token)
      PROVE  GrantInv'
  BY <1>2, OtherRequestsKeepGrants DEF HandleTokenRotation, memory
<1>3. ASSUME NEW bearer, NEW target, NEW id, NEW allow, HandleRevokeDevice(bearer, target, id, allow)
      PROVE  GrantInv'
  BY <1>3, OtherRequestsKeepGrants DEF HandleRevokeDevice
<1>4. ASSUME NEW bearer, NEW id, NEW payload, HandleSync(bearer, id, payload)
      PROVE  GrantInv'
  BY <1>4, OtherRequestsKeepGrants DEF HandleSync
<1>5. ASSUME NEW bearer, NEW id, NEW expected, HandlePutEnvelope(bearer, id, expected)
      PROVE  GrantInv'
  BY <1>5, OtherRequestsKeepGrants DEF HandlePutEnvelope
<1>6. QED
  BY <1>1, <1>2, <1>3, <1>4, <1>5 DEF HandleAPI

\* A new grant is drawn from those never drawn, and takes out only rows whose time is over
\* (CreateEnrollmentGrant).
LEMMA CreatingKeepsGrants ==
  ASSUME GrantInv, NEW now \in Moments, CreateEnrollmentGrant(now)
  PROVE  GrantInv'
<1>1. PICK g \in Grants :
        /\ minted[g] = Absent
        /\ grants' = [h \in Grants |-> IF h = g THEN [boot |-> boot, consumed |-> Absent]
                                       ELSE IF h \in Pruned(now) THEN Absent
                                       ELSE grants[h]]
        /\ minting' = [grant |-> g, deadline |-> now + GrantLifetime, expired |-> Pruned(now)]
        /\ minted' = [minted EXCEPT ![g] = [boot |-> boot, at |-> now, delivered |-> FALSE]]
  BY Zenon DEF CreateEnrollmentGrant
<1>2. now \in Nat /\ now <= clock
  BY DEF Moments, GrantInv, GrantTypes
<1>3. /\ boot # 0 /\ minting = Absent
      /\ UNCHANGED <<activeBoot, boot, deadlines, started, clock, spent>>
  BY DEF CreateEnrollmentGrant
<1>4. boot \in Nat
  BY DEF GrantInv, GrantTypes
<1>5. /\ minted'[g] = [boot |-> boot, at |-> now, delivered |-> FALSE]
      /\ \A h \in Grants \ {g} : minted'[h] = minted[h]
      /\ minted' \in [Grants -> [boot : Nat, at : Nat, delivered : BOOLEAN] \union {Absent}]
  <2> DEFINE Drawn == [boot : Nat, at : Nat, delivered : BOOLEAN]
             drawn == [boot |-> boot, at |-> now, delivered |-> FALSE]
  <2>1. drawn \in Drawn
    BY <1>2, <1>4
  <2>2. minted \in [Grants -> Drawn \union {Absent}] /\ minted' = [minted EXCEPT ![g] = drawn]
    BY <1>1 DEF GrantInv, GrantTypes
  <2> HIDE DEF Drawn, drawn
  <2>3. /\ minted'[g] = drawn
        /\ \A h \in Grants \ {g} : minted'[h] = minted[h]
        /\ minted' \in [Grants -> Drawn \union {Absent}]
    BY <2>1, <2>2
  <2>4. QED
    BY <2>3 DEF Drawn, drawn
<1>6. minted'[g] # Absent
  <2>1. minted'[g] \in [boot : Nat, at : Nat, delivered : BOOLEAN]
    BY <1>2, <1>4, <1>5
  <2>2. QED
    BY <2>1, CredentialsAssumption, Zenon
<1>7. /\ grants'[g] = [boot |-> boot, consumed |-> Absent]
      /\ \A h \in Grants \ {g} : grants'[h] = IF h \in Pruned(now) THEN Absent ELSE grants[h]
      /\ grants' \in [Grants -> [boot : Nat, consumed : EnrollmentIds \union {Absent}] \union {Absent}]
  BY <1>1, <1>3, <1>4 DEF GrantInv, GrantTypes
<1>8. grants'[g] # Absent
  BY <1>4, <1>7, CredentialsAssumption
<1>9. /\ minting' \in [grant : Grants, deadline : Nat, expired : SUBSET Grants]
      /\ minting'.grant = g
      /\ minting'.deadline = now + GrantLifetime
      /\ minting'.expired = Pruned(now)
  BY <1>1, <1>2, <1>3, CredentialsAssumption DEF Pruned
<1>10. minting' # Absent
  BY <1>9, CredentialsAssumption
<1>11. \A h \in Pruned(now) : /\ h \in Grants /\ h # g
                              /\ minted[h] # Absent
                              /\ clock >= Ends(h)
  BY <1>1, <1>2 DEF Pruned, GrantInv, GrantTypes, GrantRows
<1>12. Ends(g)' = now + GrantLifetime /\ \A h \in Grants \ {g} : Ends(h)' = Ends(h)
  BY <1>5 DEF Ends
<1>13. GrantTypes'
  BY <1>3, <1>5, <1>7, <1>9, Zenon DEF GrantInv, GrantTypes
<1>14. GrantRows'
  BY <1>1, <1>3, <1>4, <1>5, <1>6, <1>7, <1>12 DEF GrantInv, GrantTypes, GrantRows
<1>15. GrantInFlight'
  BY <1>1, <1>3, <1>5, <1>6, <1>9, <1>11, <1>12 DEF GrantInFlight
<1>16. GrantKeptWhileAlive'
  <2> SUFFICES ASSUME NEW h \in Grants, h # g, minted[h] # Absent, minted[h].boot = boot,
                      clock < Ends(h)
               PROVE  grants'[h] # Absent /\ deadlines'[h] # Absent
    BY <1>3, <1>5, <1>8, <1>9, <1>10, <1>12 DEF GrantKeptWhileAlive
  <2>1. h \notin Pruned(now)
    <3>1. clock \in Nat /\ Ends(h) \in Nat
      BY CredentialsAssumption DEF Ends, GrantInv, GrantTypes
    <3>2. QED
      BY <1>11, <3>1
  <2>2. QED
    BY <1>3, <1>7, <2>1 DEF GrantInv, GrantKeptWhileAlive
<1>17. SpentMarked'
  BY <1>1, <1>3, <1>5, <1>7 DEF GrantInv, SpentMarked
<1>18. QED
  BY <1>13, <1>14, <1>15, <1>16, <1>17 DEF GrantInv

\* Publishing puts the deadline in memory and forgets the deadlines of the pruned grants
\* (CreateEnrollmentGrant after its commit).
LEMMA PublishingKeepsGrants ==
  ASSUME GrantInv, NEW delivered \in BOOLEAN, PublishGrant(delivered)
  PROVE  GrantInv'
<1>1. PICK g \in Grants : g = minting.grant
  BY DEF PublishGrant, GrantInv, GrantTypes
<1>2. /\ minting # Absent /\ minting' = Absent
      /\ minting.deadline \in Nat
      /\ deadlines' = [h \in Grants |-> IF h = g THEN minting.deadline
                                        ELSE IF h \in minting.expired THEN Absent
                                        ELSE deadlines[h]]
      /\ UNCHANGED <<grants, activeBoot, boot, started, clock, spent>>
  BY <1>1 DEF PublishGrant, tables, GrantInv, GrantTypes
<1>3. minted[g] # Absent /\ minted[g] \in [boot : Nat, at : Nat, delivered : BOOLEAN]
  BY <1>1, <1>2 DEF GrantInv, GrantTypes, GrantInFlight
<1>4. minted' = [minted EXCEPT ![g] = [minted[g] EXCEPT !.delivered = delivered]]
  BY <1>1 DEF PublishGrant
<1>5. /\ minted'[g] \in [boot : Nat, at : Nat, delivered : BOOLEAN]
      /\ minted'[g].boot = minted[g].boot
      /\ minted'[g].at = minted[g].at
      /\ \A h \in Grants \ {g} : minted'[h] = minted[h]
      /\ minted' \in [Grants -> [boot : Nat, at : Nat, delivered : BOOLEAN] \union {Absent}]
  BY <1>3, <1>4 DEF GrantInv, GrantTypes
<1>6. minted'[g] # Absent
  BY <1>5, CredentialsAssumption, Zenon
<1>7. \A h \in Grants : Ends(h)' = Ends(h)
  BY <1>5 DEF Ends
<1>8. GrantTypes'
  BY <1>2, <1>5, Zenon DEF GrantInv, GrantTypes
<1>9. GrantRows'
  BY <1>1, <1>2, <1>5, <1>6, <1>7 DEF GrantInv, GrantRows, GrantInFlight
<1>10. GrantInFlight'
  BY <1>2 DEF GrantInFlight
<1>11. GrantKeptWhileAlive'
  <2> SUFFICES ASSUME NEW h \in Grants, boot # 0, minted'[h] # Absent, minted'[h].boot = boot,
                      clock < Ends(h)
               PROVE  grants[h] # Absent /\ deadlines'[h] # Absent
    BY <1>2, <1>7 DEF GrantKeptWhileAlive
  <2>1. minted[h] # Absent /\ minted[h].boot = boot
    BY <1>3, <1>5
  <2>2. h \notin minting.expired
    <3>1. clock \in Nat /\ Ends(h) \in Nat
      BY <2>1, CredentialsAssumption DEF Ends, GrantInv, GrantTypes
    <3>2. QED
      BY <1>2, <3>1 DEF GrantInv, GrantInFlight
  <2>3. grants[h] # Absent /\ (deadlines[h] # Absent \/ g = h)
    BY <1>1, <2>1 DEF GrantInv, GrantKeptWhileAlive
  <2>4. QED
    BY <1>2, <2>2, <2>3, CredentialsAssumption
<1>12. SpentMarked'
  BY <1>2, <1>5, <1>6 DEF GrantInv, SpentMarked
<1>13. QED
  BY <1>8, <1>9, <1>10, <1>11, <1>12 DEF GrantInv

\* Time passes: lifetimes end.
LEMMA TickKeepsGrants == GrantInv /\ Tick => GrantInv'
<1> SUFFICES ASSUME GrantInv, Tick PROVE GrantInv'
  OBVIOUS
<1>1. /\ clock \in Nat /\ clock' = clock + 1
      /\ UNCHANGED <<grants, activeBoot, boot, deadlines, minting, started, minted, spent>>
  BY DEF Tick, tables, memory, GrantInv, GrantTypes
<1>2. \A g \in Grants : Ends(g)' = Ends(g) /\ (minted[g] # Absent => Ends(g) \in Nat)
  BY <1>1, CredentialsAssumption, SMTT(30) DEF Ends, GrantInv, GrantTypes
<1>3. GrantTypes' /\ GrantRows' /\ SpentMarked'
  BY <1>1, <1>2, SMTT(30) DEF GrantInv, GrantTypes, GrantRows, SpentMarked
<1>4. GrantInFlight'
  BY <1>1, <1>2, SMTT(20) DEF GrantInv, GrantTypes, GrantInFlight
<1>5. GrantKeptWhileAlive'
  BY <1>1, <1>2 DEF GrantInv, GrantKeptWhileAlive
<1>6. QED
  BY <1>3, <1>4, <1>5 DEF GrantInv

\* A new boot has an identifier no grant was drawn in, and deletes every row (StartBoot).
LEMMA StartKeepsGrants == GrantInv /\ boot = 0 /\ StartBoot => GrantInv'
<1> SUFFICES ASSUME GrantInv, boot = 0, StartBoot PROVE GrantInv'
  OBVIOUS
<1>1. /\ activeBoot \in Nat /\ activeBoot' = activeBoot + 1 /\ boot' = activeBoot'
      /\ minting = Absent /\ minting' = Absent
      /\ \A g \in Grants : grants'[g] = Absent /\ deadlines'[g] = Absent
      /\ UNCHANGED <<minted, spent, clock>>
  BY DEF StartBoot, NewBoot, GrantInv, GrantTypes, GrantInFlight
<1>2. \A g \in Grants : minted[g] # Absent => minted[g].boot \in Nat /\ minted[g].boot < boot'
  BY <1>1 DEF GrantInv, GrantTypes, GrantRows
<1>3. GrantTypes'
  <2>1. clock' \in Nat /\ started' \in Nat /\ activeBoot' \in Nat /\ boot' \in {0, activeBoot'}
    <3>1. started' = clock /\ clock' = clock /\ clock \in Nat
      BY Zenon DEF StartBoot, GrantInv, GrantTypes
    <3>2. activeBoot' \in Nat /\ boot' = activeBoot'
      BY <1>1
    <3>3. QED
      BY <3>1, <3>2, Zenon
  <2>2. /\ grants' \in [Grants -> {Absent}]
        /\ deadlines' \in [Grants -> {Absent}]
    BY DEF StartBoot
  <2>3. /\ minted' \in [Grants -> [boot : Nat, at : Nat, delivered : BOOLEAN] \union {Absent}]
        /\ minting' \in [grant : Grants, deadline : Nat, expired : SUBSET Grants] \union {Absent}
    BY <1>1, Zenon DEF GrantInv, GrantTypes
  <2>4. /\ grants' \in [Grants -> [boot : Nat, consumed : EnrollmentIds \union {Absent}]
                                   \union {Absent}]
        /\ deadlines' \in [Grants -> Nat \union {Absent}]
    BY <2>2, SMTT(30)
  <2>5. QED
    BY <2>1, <2>3, <2>4, Zenon DEF GrantTypes
<1>4. GrantRows' /\ GrantInFlight' /\ GrantKeptWhileAlive'
  BY <1>1, <1>2 DEF GrantRows, GrantInFlight, GrantKeptWhileAlive
<1>5. SpentMarked'
  BY <1>1, Zenon DEF GrantInv, SpentMarked
<1>6. QED
  BY <1>3, <1>4, <1>5 DEF GrantInv

\* The deadlines go with the process.
LEMMA LosingKeepsGrants == GrantInv /\ LoseMemory => GrantInv'
<1> SUFFICES ASSUME GrantInv, LoseMemory PROVE GrantInv'
  OBVIOUS
<1>1. /\ boot' = 0 /\ started' = clock /\ minting' = Absent
      /\ deadlines' = [g \in Grants |-> Absent]
      /\ UNCHANGED <<grants, activeBoot, minted, spent, clock>>
  BY Zenon DEF LoseMemory, tables
<1>2. deadlines' \in [Grants -> Nat \union {Absent}]
  BY <1>1
<1>3. GrantTypes'
  BY <1>1, <1>2, Zenon DEF GrantInv, GrantTypes
<1>4. GrantRows'
  <2>1. \A g \in Grants : deadlines'[g] = Absent
    BY <1>1, Zenon
  <2>2. QED
    BY <1>1, <2>1, Zenon DEF GrantInv, GrantRows, Ends
<1>5. GrantInFlight' /\ GrantKeptWhileAlive' /\ SpentMarked'
  BY <1>1, Zenon DEF GrantInv, GrantInFlight, GrantKeptWhileAlive, SpentMarked
<1>6. QED
  BY <1>3, <1>4, <1>5, Zenon DEF GrantInv

\* Every step keeps the invariant of the grants.
LEMMA GrantsKept == GrantInv /\ (CredentialsStep \/ UNCHANGED credentialVars) => GrantInv'
<1> SUFFICES ASSUME GrantInv, CredentialsStep \/ UNCHANGED credentialVars PROVE GrantInv'
  OBVIOUS
<1>1. CASE PublishCheckpoint \/ CheckpointUptime \/ UNCHANGED credentialVars
  BY <1>1, OtherRequestsKeepGrants
     DEF PublishCheckpoint, CheckpointUptime, credentialVars, tables, memory
<1>2. QED
  BY <1>1, RequestsKeepGrants, CreatingKeepsGrants, PublishingKeepsGrants, TickKeepsGrants,
     StartKeepsGrants, LosingKeepsGrants DEF CredentialsStep

\* A grant is accepted for one enrollment only.
LEMMA SpentOnce == GrantInv => GrantSpentOnce
BY DEF GrantInv, SpentMarked, GrantSpentOnce

\* A delivered grant of this boot is accepted until its lifetime ends, and no other is.
LEMMA Honoured == GrantInv => GrantHonoured
<1> SUFFICES ASSUME GrantInv, boot # 0, NEW g \in Grants, NEW now \in Moments, Presentable(g, now)
             PROVE  /\ minted[g].boot = boot /\ clock < Ends(g) => LookupGrant(g, now) = "ok"
                    /\ LookupGrant(g, now) = "ok" => minted[g].boot = boot /\ now < Ends(g)
  BY DEF GrantHonoured, Ends
<1>1. /\ now \in Nat /\ clock \in Nat /\ now <= clock
      /\ minted[g] # Absent /\ minted[g].delivered
      /\ Ends(g) \in Nat
  BY CredentialsAssumption DEF Presentable, Moments, Ends, GrantInv, GrantTypes
<1>2. ASSUME minted[g].boot = boot, clock < Ends(g)
      PROVE  LookupGrant(g, now) = "ok"
  <2>1. grants[g] # Absent /\ deadlines[g] # Absent
    BY <1>1, <1>2 DEF GrantInv, GrantKeptWhileAlive, GrantInFlight
  <2>2. grants[g].boot = boot /\ deadlines[g] = Ends(g)
    BY <1>2, <2>1 DEF GrantInv, GrantRows
  <2>3. ~(now >= deadlines[g])
    BY <1>1, <1>2, <2>2
  <2>4. QED
    BY <2>1, <2>2, <2>3 DEF LookupGrant
<1>3. ASSUME LookupGrant(g, now) = "ok"
      PROVE  minted[g].boot = boot /\ now < Ends(g)
  <2>1. grants[g] # Absent /\ grants[g].boot = boot /\ deadlines[g] # Absent /\ ~(now >= deadlines[g])
    BY <1>3 DEF LookupGrant
  <2>2. minted[g].boot = boot /\ deadlines[g] = Ends(g)
    BY <2>1 DEF GrantInv, GrantRows
  <2>3. QED
    BY <1>1, <2>1, <2>2
<1>4. QED
  BY <1>2, <1>3

(***************************************************************************)
(* Revocation.                                                             *)
(***************************************************************************)
\* A revoked device's bearers are refused (authenticate).
LEMMA RevokedUnauthenticated ==
  ASSUME NEW bearer \in Bearers, bearer.device \in Revoked
  PROVE  Authenticate(bearer) \in {"unauthorized", "token_revoked"}
BY DEF Revoked, Authenticate

\* No request of a revoked device is granted, with whatever token, except the repeat of its
\* own revocation (handleTokenRotation, handleRevokeDevice).
LEMMA Refused == RevokedRefused
<1> SUFFICES ASSUME NEW bearer \in Bearers, bearer.device \in Revoked
             PROVE  /\ Authenticate(bearer) # "ok"
                    /\ \A x \in RotationIds, d \in Devices, token \in Tokens :
                          RotationAnswer(bearer, x, d, token) \notin {"rotated", "recorded"}
                    /\ \A target \in Devices, id \in RequestIds, allow \in BOOLEAN :
                          /\ RevocationAnswer(bearer, target, id, allow)
                               \notin {"revoked", "already_revoked"}
                          /\ RevocationAnswer(bearer, target, id, allow) = "recorded"
                               => target = bearer.device /\ retired[target] # Absent
  BY DEF RevokedRefused
<1>1. Authenticate(bearer) \in {"unauthorized", "token_revoked"}
  BY RevokedUnauthenticated
<1>2. dev[bearer.device].status = "revoked"
  BY DEF Revoked
<1>3. ASSUME NEW x \in RotationIds, NEW d \in Devices, NEW token \in Tokens
      PROVE  RotationAnswer(bearer, x, d, token) \notin {"rotated", "recorded"}
  BY <1>1, <1>2 DEF RotationAnswer, ReplayRotation, IsRevoked
<1>4. ASSUME NEW target \in Devices, NEW id \in RequestIds, NEW allow \in BOOLEAN
      PROVE  /\ RevocationAnswer(bearer, target, id, allow) \notin {"revoked", "already_revoked"}
             /\ RevocationAnswer(bearer, target, id, allow) = "recorded"
                  => target = bearer.device /\ retired[target] # Absent
  BY <1>1 DEF RevocationAnswer, RetiredMatch
<1>5. QED
  BY <1>1, <1>3, <1>4

\* The devices table holds one row for each device.
DeviceTypes == dev \in [Devices -> [status : {"absent", "active", "revoked"}, token : Nat]]

\* There is no device before the first enrollment.
LEMMA DevicesInitially == CredentialsInit => DeviceTypes
BY DEF CredentialsInit, DeviceTypes

\* Every step keeps the devices typed and the revoked ones as they are: a new enrollment is
\* of an absent device, a rotation of an active one, a revocation of an active one.
LEMMA DevicesKept ==
  ASSUME DeviceTypes, CredentialsStep \/ UNCHANGED credentialVars
  PROVE  DeviceTypes' /\ \A d \in Revoked : dev'[d] = dev[d]
<1>1. ASSUME NEW g \in Grants, NEW request \in Applicants, NEW now \in Moments,
             CreateDevice(g, request, now)
      PROVE  DeviceTypes' /\ \A d \in Revoked : dev'[d] = dev[d]
  <2>1. request.device \in Devices /\ request.token \in Nat
    BY CredentialsAssumption, Zenon
  <2>2. dev[request.device].status = "absent"
    <3>1. EnrollmentAnswer(g, request, now) = "created"
      BY <1>1 DEF CreateDevice
    <3>2. AdmitEnrollment(request, now) = "created"
      BY <3>1, SMTT(20) DEF EnrollmentAnswer, LookupGrant, LookupEnrollment
    <3>3. QED
      BY <3>2 DEF AdmitEnrollment
  <2>3. QED
    BY <1>1, <2>1, <2>2, Zenon DEF CreateDevice, DeviceTypes, Revoked
<1>2. CASE HandleEnrollment
  <2>1. PICK g \in Grants, request \in Applicants, now \in Moments :
           \/ CreateDevice(g, request, now)
           \/ RecoverEnrollment(g, request, now)
           \/ RefuseEnrollment(g, request, now)
    BY <1>2 DEF HandleEnrollment
  <2>2. CASE CreateDevice(g, request, now)
    BY <1>1, <2>2
  <2>3. CASE RecoverEnrollment(g, request, now) \/ RefuseEnrollment(g, request, now)
    BY <2>3 DEF RecoverEnrollment, RefuseEnrollment, tables, DeviceTypes
  <2>4. QED
    BY <2>1, <2>2, <2>3
<1>3. ASSUME NEW bearer \in Bearers, NEW x, NEW token \in Tokens, HandleTokenRotation(bearer, x, token)
      PROVE  DeviceTypes' /\ \A d \in Revoked : dev'[d] = dev[d]
  <2>1. Authenticate(bearer) = "ok"
    <3>1. Authenticate(bearer) \in {"unauthorized", "token_revoked", "ok"}
      BY DEF Authenticate, Bearers, DeviceTypes
    <3>2. QED
      BY <1>3, <3>1 DEF HandleTokenRotation, RotationAnswer, ReplayRotation
  <2>2. bearer.device \in Devices \ Revoked
    BY <2>1, RevokedUnauthenticated DEF Bearers
  <2>3. token \in Nat
    BY CredentialsAssumption
  <2>4. QED
    BY <1>3, <2>2, <2>3 DEF HandleTokenRotation, DeviceTypes
<1>4. ASSUME NEW bearer, NEW target \in Devices, NEW id, NEW allow,
             HandleRevokeDevice(bearer, target, id, allow)
      PROVE  DeviceTypes' /\ \A d \in Revoked : dev'[d] = dev[d]
  BY <1>4 DEF HandleRevokeDevice, DeviceTypes, Revoked
<1>5. ASSUME NEW bearer, NEW id,
             \/ \E payload \in Payloads : HandleSync(bearer, id, payload)
             \/ \E expected \in 0..generation : HandlePutEnvelope(bearer, id, expected)
      PROVE  DeviceTypes' /\ \A d \in Revoked : dev'[d] = dev[d]
  BY <1>5, Zenon DEF HandleSync, HandlePutEnvelope, DeviceTypes
<1>6. CASE HandleAPI
  BY <1>2, <1>3, <1>4, <1>5, <1>6, Zenon DEF HandleAPI
<1>7. CASE \/ \E now \in Moments : CreateEnrollmentGrant(now)
           \/ PublishCheckpoint
           \/ \E delivered \in BOOLEAN : PublishGrant(delivered)
           \/ Tick \/ StartBoot \/ CheckpointUptime \/ LoseMemory
           \/ UNCHANGED credentialVars
  BY <1>7, Zenon DEF CreateEnrollmentGrant, PublishCheckpoint, PublishGrant, Tick, StartBoot,
     CheckpointUptime, LoseMemory, credentialVars, tables, DeviceTypes
<1>8. QED
  BY <1>6, <1>7, Zenon DEF CredentialsStep

=============================================================================
