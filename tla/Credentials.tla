---------------------------- MODULE Credentials ----------------------------
(***************************************************************************)
(* Who may talk to the server, and what a repeated request is answered     *)
(* (internal/store: enrollment.go, devices.go, dataplane.go, envelope.go,  *)
(* the uptime part of collection.go).  Enrollment grants and enrollments,  *)
(* bearer tokens and their rotation, revocation and the receipt of a       *)
(* device that revokes itself, the receipts of sync, envelope and          *)
(* revocation requests with their pruning, and the accumulated uptime by   *)
(* which receipts age.                                                     *)
(*                                                                         *)
(* The database has one connection, so every handler is one transaction    *)
(* and one step; the answer of a handler is an operator of the state, and  *)
(* requests whose answer changes nothing are not steps.  Two handlers      *)
(* publish to memory after their commit and are two steps.  A request      *)
(* carries the time at which it arrived, up to MaxDelay before it runs.    *)
(*                                                                         *)
(* Tokens and grants are 32 random bytes drawn by or for one device: a     *)
(* token is a number that is compared only together with its owner, as the *)
(* hash that binds it to the device is, and grants are never drawn twice.  *)
(* What sync does to records and changes is SyncStore's subject; here it   *)
(* is a request that leaves a receipt.                                     *)
(***************************************************************************)
EXTENDS Naturals, FiniteSets, Sequences

CONSTANTS Devices, Tokens, Grants, EnrollmentIds, RotationIds, RequestIds, Payloads,
          Applicants,        \* the enrollment requests clients send: id, device, token
          Callers,           \* bound: the devices that send the other requests
          GrantLifetime,     \* five minutes
          AttemptWindow,     \* one minute
          AttemptLimit,      \* 5 new enrollments in a window
          DeviceLimit,       \* 64 devices, revoked ones included
          CursorLimit,       \* MaxUint64
          RetainCount,       \* 10,000 receipts of a device and class
          MinimumAge,        \* 30 days of accumulated uptime
          PruneBatch,        \* 256
          MaxDelay,          \* bound: age of a request when it runs
          MaxTime,           \* bound: time the server is up
          MaxBoot,           \* bound: starts of the server
          Absent

ASSUME CredentialsAssumption ==
          /\ Tokens \subseteq Nat
          /\ Callers \subseteq Devices
          /\ Applicants \subseteq [id : EnrollmentIds, device : Devices, token : Tokens]
          /\ {GrantLifetime, AttemptLimit, DeviceLimit, RetainCount, PruneBatch} \subseteq Nat \ {0}
          /\ {AttemptWindow, CursorLimit, MinimumAge, MaxDelay, MaxTime, MaxBoot} \subseteq Nat
          /\ Absent \notin EnrollmentIds \union Nat
          /\ Absent \notin [boot : Nat, consumed : EnrollmentIds \union {Absent}]
          /\ Absent \notin [grant : Grants, deadline : Nat, expired : SUBSET Grants]
          /\ Absent \notin [boot : Nat, at : Nat, delivered : BOOLEAN]

VARIABLES dev,          \* devices: status and current token
          grants,       \* enrollment_grants: boot and consuming enrollment, or Absent
          enrollments,  \* enrollments: the request each identifier recorded, or Absent
          rotations,    \* token_rotations: device, old and new token, or Absent
          retired,      \* self_revocation_receipts of each device, or Absent
          receipts,     \* operation_receipts
          generation,   \* the generation of the vault envelope
          accumulated,  \* runtime_state.accumulated_uptime_ms
          activeBoot,   \* runtime_state.active_boot_id
          boot,         \* ephemeralState: the boot, 0 before StartBoot
          deadlines,    \* ephemeralState: grant deadlines
          attempts,     \* ephemeralState: admitted enrollment attempts
          checkpoint,   \* ephemeralState: time accounted for
          publishing,   \* a committed checkpoint about to be published, or Absent
          minting,      \* a committed grant about to be published, or Absent
          clock,        \* monotonic time, running while a server is up
          started,      \* when the present boot began
          minted,       \* history: boot, time and delivery of every grant drawn
          spent         \* history: which grant was accepted for which enrollment

tables == <<dev, grants, enrollments, rotations, retired, receipts, generation, activeBoot>>
memory == <<boot, deadlines, attempts, checkpoint, publishing, minting, started>>
credentialVars == <<tables, accumulated, memory, clock, minted, spent>>

CredentialsInit ==
  /\ dev = [d \in Devices |-> [status |-> "absent", token |-> 0]]
  /\ grants = [g \in Grants |-> Absent]
  /\ enrollments = [e \in EnrollmentIds |-> Absent]
  /\ rotations = [x \in RotationIds |-> Absent]
  /\ retired = [d \in Devices |-> Absent]
  /\ receipts = <<>>
  /\ generation = 0
  /\ accumulated = 0
  /\ activeBoot = 0
  /\ boot = 0
  /\ deadlines = [g \in Grants |-> Absent]
  /\ attempts = <<>>
  /\ checkpoint = 0
  /\ publishing = Absent
  /\ minting = Absent
  /\ clock = 0
  /\ started = 0
  /\ minted = [g \in Grants |-> Absent]
  /\ spent = {}

\* The arrival times a request that runs now may have: http.Handler reads the clock, then
\* the request waits for the connection.
Moments == {t \in started..clock : clock - t <= MaxDelay}

Active == {d \in Devices : dev[d].status = "active"}
Registered == {d \in Devices : dev[d].status # "absent"}
Revoked == {d \in Devices : dev[d].status = "revoked"}

\* Enrollments, revocations and envelope changes each take one cursor.
ServerCursor == Cardinality(Registered) + Cardinality(Revoked) + generation

(***************************************************************************)
(* Uptime.                                                                 *)
(***************************************************************************)
\* checkpointUptimeTx: only time since the last checkpoint counts, and a request that
\* arrived before it adds nothing.
Elapsed(now) == IF now > checkpoint THEN now - checkpoint ELSE 0

\* Mutant: the mutex is not held across the commit.
CommitUnlocked(now) ==
  /\ accumulated' = accumulated + Elapsed(now)
  /\ publishing' = checkpoint + Elapsed(now)

\* commitUptimeTransaction commits with ephemeral.mu held; until the checkpoint is
\* published no other request reads it.
CommitUptime(now) ==
  /\ publishing = Absent
  /\ accumulated' = accumulated + Elapsed(now)
  /\ publishing' = checkpoint + Elapsed(now)

PublishCheckpoint ==
  /\ publishing # Absent
  /\ checkpoint' = IF publishing > checkpoint THEN publishing ELSE checkpoint
  /\ publishing' = Absent
  /\ UNCHANGED <<tables, accumulated, boot, deadlines, attempts, minting, started, clock,
                 minted, spent>>

(***************************************************************************)
(* Receipts.                                                               *)
(***************************************************************************)
\* The keys receipts are stored under; a revocation's names its target.
SyncKey == <<"sync">>
EnvelopeKey == <<"vault-envelope">>
Revocation(target) == <<"device-revocation", target>>

Class(operation) == IF operation = SyncKey THEN "sync" ELSE "other"

\* The label of the fingerprint: all revocations share one.
Label(operation) == operation[1]

\* The receipts of r's device and class stored after the i-th one.
Newer(rs, i) == {j \in i + 1..Len(rs) : rs[j].device = rs[i].device
                                        /\ Class(rs[j].operation) = Class(rs[i].operation)}

Outnumbered(rs, i) == Cardinality(Newer(rs, i)) >= RetainCount

\* Mutant: the count alone decides.
OfAnyAge(r, uptime) == TRUE

Aged(r, uptime) == r.uptime + MinimumAge <= uptime

\* pruneOperationReceipts deletes the oldest PruneBatch receipts of the device and class
\* that are both aged and outnumbered.  Receipts are in the order of receipt_sequence.
PruneOperationReceipts(rs, d, operation, uptime) ==
  LET expired == {i \in DOMAIN rs : /\ rs[i].device = d
                                    /\ Class(rs[i].operation) = Class(operation)
                                    /\ Outnumbered(rs, i)
                                    /\ Aged(rs[i], uptime)}
      deleted == {rs[i] : i \in {j \in expired :
                                   Cardinality({k \in expired : k < j}) < PruneBatch}}
  IN  SelectSeq(rs, LAMBDA r : r \notin deleted)

\* storeReceipt, for a request of any arrival time: account for uptime, insert the receipt,
\* prune.
StoreReceipt(d, operation, id, print) ==
  \E now \in Moments :
     LET uptime == accumulated + Elapsed(now)
         receipt == [device |-> d, operation |-> operation, id |-> id, print |-> print,
                     uptime |-> uptime]
     IN  /\ CommitUptime(now)
         /\ receipts' = PruneOperationReceipts(Append(receipts, receipt), d, operation, uptime)

Stored == {receipts[i] : i \in DOMAIN receipts}
SameRequest(d, id) == {r \in Stored : r.device = d /\ r.id = id}
SamePrint(d, operation, print) ==
  {r \in Stored : r.device = d /\ Label(r.operation) = Label(operation) /\ r.print = print}

\* receiptRequestCandidateLimit and receiptFingerprintCandidateLimit.
RequestCandidateLimit == 4
FingerprintCandidateLimit == 2

\* lookupReceipt, with the preflight that fails closed on too many candidates.
LookupReceipt(d, operation, id, print) ==
  LET held == {r \in SameRequest(d, id) : r.operation = operation}
  IN  CASE held # {} /\ \E r \in held : r.print = print -> "recorded"
        [] held # {} /\ \A r \in held : r.print # print -> "request_id_reused"
        [] held = {} /\ \/ Cardinality(SameRequest(d, id)) >= RequestCandidateLimit
                        \/ Cardinality(SamePrint(d, operation, print)) >= FingerprintCandidateLimit
             -> "internal_error"
        [] OTHER -> "new"

(***************************************************************************)
(* Enrollment.                                                             *)
(***************************************************************************)
\* Mutant: grants are dropped one tick early.
PrunedEarly(now) == {g \in Grants : deadlines[g] # Absent /\ now + 1 >= deadlines[g]}

\* The grants CreateEnrollmentGrant drops from the table and from memory.
Pruned(now) == {g \in Grants : deadlines[g] # Absent /\ now >= deadlines[g]}

\* CreateEnrollmentGrant up to its commit, with a grant nobody has.  The enrollment socket
\* serves one command at a time.
CreateEnrollmentGrant(now) ==
  LET g == CHOOSE h \in Grants : minted[h] = Absent IN
  /\ \E h \in Grants : minted[h] = Absent
  /\ boot # 0
  /\ publishing = Absent
  /\ minting = Absent
  /\ grants' = [h \in Grants |-> IF h = g THEN [boot |-> boot, consumed |-> Absent]
                                 ELSE IF h \in Pruned(now) THEN Absent
                                 ELSE grants[h]]
  /\ minting' = [grant |-> g, deadline |-> now + GrantLifetime, expired |-> Pruned(now)]
  /\ minted' = [minted EXCEPT ![g] = [boot |-> boot, at |-> now, delivered |-> FALSE]]
  /\ UNCHANGED <<dev, enrollments, rotations, retired, receipts, generation, activeBoot,
                 accumulated, boot, deadlines, attempts, checkpoint, publishing, started,
                 clock, spent>>

\* The rest of it: the deadline is put in memory, and the grant is handed out unless the
\* response cannot be built.
PublishGrant(delivered) ==
  /\ minting # Absent
  /\ publishing = Absent
  /\ deadlines' = [g \in Grants |-> IF g = minting.grant THEN minting.deadline
                                    ELSE IF g \in minting.expired THEN Absent
                                    ELSE deadlines[g]]
  /\ minting' = Absent
  /\ minted' = [minted EXCEPT ![minting.grant].delivered = delivered]
  /\ UNCHANGED <<tables, accumulated, boot, attempts, checkpoint, publishing, started, clock,
                 spent>>

\* lookupGrant.
LookupGrant(g, now) ==
  CASE boot = 0 -> "grant_expired"
    [] boot # 0 /\ (grants[g] = Absent \/ grants[g].boot # boot) -> "unauthorized"
    [] boot # 0 /\ grants[g] # Absent /\ grants[g].boot = boot ->
         IF deadlines[g] = Absent \/ now >= deadlines[g] THEN "grant_expired" ELSE "ok"

\* lookupEnrollment: the identifier, device, token and body must all agree.
LookupEnrollment(id, request) ==
  CASE enrollments[id] = Absent -> "absent"
    [] enrollments[id] # Absent /\ enrollments[id] = request -> "exact"
    [] OTHER -> "enrollment_replay_mismatch"

\* admitEnrollmentAttempt.
RecentAttempts(now) == SelectSeq(attempts, LAMBDA t : t + AttemptWindow > now)

\* A new device: refused when the device is known, the window is full or a limit is met.
AdmitEnrollment(request, now) ==
  CASE dev[request.device].status # "absent" -> "enrollment_replay_mismatch"
    [] Len(RecentAttempts(now)) >= AttemptLimit -> "rate_limited"
    [] Cardinality(Registered) >= DeviceLimit -> "limit_exceeded"
    [] ServerCursor >= CursorLimit -> "server_cursor_exhausted"
    [] OTHER -> "created"

\* handleEnrollment: "recorded" repeats the answer for the grant's own enrollment,
\* "recovered" gives it to a replacement grant.
EnrollmentAnswer(g, request, now) ==
  LET looked == LookupGrant(g, now)
      consumed == grants[g].consumed
      found == LookupEnrollment(IF consumed = Absent THEN request.id ELSE consumed, request)
  IN  IF looked # "ok" THEN looked
      ELSE CASE found = "exact" -> IF consumed = Absent THEN "recovered" ELSE "recorded"
             [] found = "absent" -> IF consumed = Absent THEN AdmitEnrollment(request, now)
                                    ELSE "grant_consumed"
             [] OTHER -> found

\* A client has been handed the grant before it sends a request with it.
Presentable(g, now) == minted[g] # Absent /\ minted[g].delivered /\ minted[g].at <= now

\* Mutant: the grant is not marked.
ConsumeNothing(g, id) == grants

Consume(g, id) == [grants EXCEPT ![g].consumed = id]

CreateDevice(g, request, now) ==
  /\ publishing = Absent
  /\ EnrollmentAnswer(g, request, now) = "created"
  /\ attempts' = Append(RecentAttempts(now), now)
  /\ dev' = [dev EXCEPT ![request.device] = [status |-> "active", token |-> request.token]]
  /\ enrollments' = [enrollments EXCEPT ![request.id] = request]
  /\ grants' = Consume(g, request.id)
  /\ spent' = spent \union {<<g, request.id>>}
  /\ UNCHANGED <<rotations, retired, receipts, generation, activeBoot, accumulated, boot,
                 deadlines, checkpoint, publishing, minting, started, clock, minted>>

\* An exact repeat under another grant consumes that grant as well.
RecoverEnrollment(g, request, now) ==
  /\ publishing = Absent
  /\ EnrollmentAnswer(g, request, now) = "recovered"
  /\ grants' = Consume(g, request.id)
  /\ spent' = spent \union {<<g, request.id>>}
  /\ UNCHANGED <<dev, enrollments, rotations, retired, receipts, generation, activeBoot,
                 accumulated, memory, clock, minted>>

\* A refusal after the attempt was looked at leaves its trace in memory: the expired
\* attempts are forgotten, and an attempt that was admitted counts although it then met a
\* limit.
RefuseEnrollment(g, request, now) ==
  LET answer == EnrollmentAnswer(g, request, now)
  IN  /\ publishing = Absent
      /\ answer \in {"rate_limited", "limit_exceeded", "server_cursor_exhausted"}
      /\ attempts' = IF answer = "rate_limited" THEN RecentAttempts(now)
                     ELSE Append(RecentAttempts(now), now)
      /\ UNCHANGED <<tables, accumulated, boot, deadlines, checkpoint, publishing, minting,
                     started, clock, minted, spent>>

HandleEnrollment ==
  \E g \in Grants, request \in Applicants, now \in Moments :
     /\ Presentable(g, now)
     /\ \/ CreateDevice(g, request, now)
        \/ RecoverEnrollment(g, request, now)
        \/ RefuseEnrollment(g, request, now)

(***************************************************************************)
(* Bearer tokens, rotation and revocation.                                 *)
(***************************************************************************)
\* A bearer is a token together with the device it was drawn for.
Bearers == [device : Devices, token : Tokens]

\* Mutant: the status of the device is not looked at.
TokenSuffices(bearer) == IF dev[bearer.device].token = bearer.token THEN "ok" ELSE "unauthorized"

\* authenticate.
Authenticate(bearer) ==
  CASE dev[bearer.device].status = "absent" \/ dev[bearer.device].token # bearer.token
         -> "unauthorized"
    [] dev[bearer.device].status = "revoked" /\ dev[bearer.device].token = bearer.token
         -> "token_revoked"
    [] dev[bearer.device].status = "active" /\ dev[bearer.device].token = bearer.token
         -> "ok"

\* Mutant: the replay does not look at the device.
NeverRevoked(d) == FALSE

IsRevoked(d) == dev[d].status = "revoked"

\* The answer to a rotation identifier that is on record: either of its two tokens may ask
\* for it again, until the device is revoked.
ReplayRotation(bearer, x, d, token) ==
  LET rotation == rotations[x]
  IN  CASE rotation.device # bearer.device \/ bearer.token \notin {rotation.old, rotation.new}
             -> "unauthorized"
        [] OTHER -> IF IsRevoked(rotation.device) THEN "token_revoked"
                    ELSE IF rotation.device # d THEN "authenticated_device_mismatch"
                    ELSE IF rotation.new # token THEN "request_id_reused"
                    ELSE "recorded"

\* handleTokenRotation.
RotationAnswer(bearer, x, d, token) ==
  LET authenticated == Authenticate(bearer)
  IN  CASE authenticated = "ok" /\ bearer.device # d -> "authenticated_device_mismatch"
        [] authenticated = "token_revoked" -> "token_revoked"
        [] OTHER -> IF rotations[x] # Absent THEN ReplayRotation(bearer, x, d, token)
                    ELSE IF authenticated = "ok" THEN "rotated"
                    ELSE authenticated

\* A client draws a token it does not use yet.
HandleTokenRotation(bearer, x, token) ==
  /\ token # bearer.token
  /\ RotationAnswer(bearer, x, bearer.device, token) = "rotated"
  /\ rotations' = [rotations EXCEPT ![x] = [device |-> bearer.device, old |-> bearer.token,
                                            new |-> token]]
  /\ dev' = [dev EXCEPT ![bearer.device].token = token]
  /\ UNCHANGED <<grants, enrollments, retired, receipts, generation, activeBoot, accumulated,
                 memory, clock, minted, spent>>

\* The fingerprint of a revocation: the body holds the request identifier and the
\* confirmation, not the target.
RevocationPrint(id, allow) == <<id, allow>>

\* Mutant: the identifier is checked for its own target only.
ReuseOverlooked(d, id, target) == FALSE

\* A revocation identifier already used against another target.
CrossTargetReuse(d, id, target) ==
  \E r \in SameRequest(d, id) : Label(r.operation) = "device-revocation" /\ r.operation # Revocation(target)

\* The retired receipt a bearer is bound to.
RetiredMatch(bearer) ==
  retired[bearer.device] # Absent /\ retired[bearer.device].token = bearer.token

\* The decision once the caller is authenticated and the request is new.
RevokeTarget(target, allow) ==
  CASE dev[target].status = "absent" -> "device_not_found"
    [] dev[target].status = "revoked" -> "already_revoked"
    [] dev[target].status = "active" ->
         IF Cardinality(Active) = 1 /\ ~allow THEN "zero_active_confirmation_required"
         ELSE IF ServerCursor >= CursorLimit THEN "server_cursor_exhausted"
         ELSE "revoked"

\* handleRevokeDevice up to its first write.  A bearer retired by its own revocation gets
\* the recorded response for the exact request and nothing else.
RevocationAnswer(bearer, target, id, allow) ==
  LET d == bearer.device
      looked == LookupReceipt(d, Revocation(target), id, RevocationPrint(id, allow))
  IN  CASE RetiredMatch(bearer) ->
             IF target = d /\ retired[d].id = id /\ retired[d].allow = allow
             THEN "recorded" ELSE "token_revoked"
        [] OTHER -> IF Authenticate(bearer) # "ok" THEN Authenticate(bearer)
                    ELSE IF looked # "new" THEN looked
                    ELSE IF CrossTargetReuse(d, id, target) THEN "request_id_reused"
                    ELSE RevokeTarget(target, allow)

\* Mutant: no receipt of the self-revocation.
RetiredForgotten(bearer, target, id, allow) == retired

\* A device that revokes itself leaves a receipt bound to the token it used.
RetiredAfter(bearer, target, id, allow) ==
  IF target = bearer.device
  THEN [retired EXCEPT ![target] = [id |-> id, allow |-> allow, token |-> bearer.token]]
  ELSE retired

HandleRevokeDevice(bearer, target, id, allow) ==
  LET answer == RevocationAnswer(bearer, target, id, allow)
  IN  /\ answer \in {"revoked", "already_revoked"}
      /\ StoreReceipt(bearer.device, Revocation(target), id, RevocationPrint(id, allow))
      /\ IF answer = "revoked"
         THEN /\ dev' = [dev EXCEPT ![target].status = "revoked"]
              /\ retired' = RetiredAfter(bearer, target, id, allow)
         ELSE UNCHANGED <<dev, retired>>
      /\ UNCHANGED <<grants, enrollments, rotations, generation, activeBoot, boot, deadlines,
                     attempts, checkpoint, minting, started, clock, minted, spent>>

(***************************************************************************)
(* The other operations that leave a receipt.                              *)
(***************************************************************************)
\* handleSync, as far as this module goes.
HandleSync(bearer, id, payload) ==
  /\ Authenticate(bearer) = "ok"
  /\ LookupReceipt(bearer.device, SyncKey, id, <<id, payload>>) = "new"
  /\ StoreReceipt(bearer.device, SyncKey, id, <<id, payload>>)
  /\ UNCHANGED <<dev, grants, enrollments, rotations, retired, generation, activeBoot, boot,
                 deadlines, attempts, checkpoint, minting, started, clock, minted, spent>>

\* handlePutEnvelope: the body holds the expected generation, not the request identifier.
HandlePutEnvelope(bearer, id, expected) ==
  /\ Authenticate(bearer) = "ok"
  /\ LookupReceipt(bearer.device, EnvelopeKey, id, <<expected>>) = "new"
  /\ expected = generation
  /\ ServerCursor < CursorLimit
  /\ generation' = generation + 1
  /\ StoreReceipt(bearer.device, EnvelopeKey, id, <<expected>>)
  /\ UNCHANGED <<dev, grants, enrollments, rotations, retired, activeBoot, boot, deadlines,
                 attempts, checkpoint, minting, started, clock, minted, spent>>

\* HandleAPI.
HandleAPI ==
  \/ HandleEnrollment
  \/ \E bearer \in Bearers, x \in RotationIds, token \in Tokens :
        HandleTokenRotation(bearer, x, token)
  \/ \E bearer \in [device : Callers, token : Tokens], id \in RequestIds :
        \/ \E target \in Devices, allow \in BOOLEAN :
              HandleRevokeDevice(bearer, target, id, allow)
        \/ \E payload \in Payloads : HandleSync(bearer, id, payload)
        \/ \E expected \in 0..generation : HandlePutEnvelope(bearer, id, expected)

(***************************************************************************)
(* The life of the process.                                                *)
(***************************************************************************)
\* Mutant: the boot identifier is not recorded.
RecordedBoot == activeBoot

NewBoot == activeBoot + 1

\* StartBoot: a new boot identifier, no grants, empty memory.
StartBoot ==
  /\ activeBoot < MaxBoot
  /\ activeBoot' = NewBoot
  /\ boot' = activeBoot + 1
  /\ grants' = [g \in Grants |-> Absent]
  /\ deadlines' = [g \in Grants |-> Absent]
  /\ attempts' = <<>>
  /\ checkpoint' = clock
  /\ started' = clock
  /\ UNCHANGED <<dev, enrollments, rotations, retired, receipts, generation, accumulated,
                 publishing, minting, clock, minted, spent>>

\* CheckpointUptime at shutdown, or its failure.
CheckpointUptime ==
  /\ \/ CommitUptime(clock)
     \/ UNCHANGED <<accumulated, publishing>>
  /\ UNCHANGED <<tables, boot, deadlines, attempts, checkpoint, minting, started, clock,
                 minted, spent>>

\* The process ends; its memory is gone.
LoseMemory ==
  /\ boot' = 0
  /\ deadlines' = [g \in Grants |-> Absent]
  /\ attempts' = <<>>
  /\ checkpoint' = clock
  /\ publishing' = Absent
  /\ minting' = Absent
  /\ started' = clock
  /\ UNCHANGED <<tables, accumulated, clock, minted, spent>>

Tick ==
  /\ clock < MaxTime
  /\ clock' = clock + 1
  /\ UNCHANGED <<tables, accumulated, memory, minted, spent>>

(***************************************************************************)
(* Properties.                                                             *)
(***************************************************************************)
\* The types of the tables and of the process's memory (store.go's schema, dataplane.go's
\* ephemeralState).
CredentialsTypeOK ==
  /\ dev \in [Devices -> [status : {"absent", "active", "revoked"}, token : Tokens \union {0}]]
  /\ grants \in [Grants -> [boot : Nat, consumed : EnrollmentIds \union {Absent}] \union {Absent}]
  /\ enrollments \in [EnrollmentIds -> Applicants \union {Absent}]
  /\ rotations \in [RotationIds -> [device : Devices, old : Tokens, new : Tokens]
                                      \union {Absent}]
  /\ retired \in [Devices -> [id : RequestIds, allow : BOOLEAN, token : Tokens]
                               \union {Absent}]
  /\ \A r \in Stored : r.device \in Registered /\ r.id \in RequestIds /\ r.uptime <= accumulated
  /\ generation \in Nat
  /\ accumulated \in Nat
  /\ boot \in {0, activeBoot}
  /\ deadlines \in [Grants -> Nat \union {Absent}]
  /\ checkpoint \in 0..clock
  /\ publishing \in Nat \union {Absent}

\* A grant lets in one enrollment: the pairs of a grant and an enrollment it was accepted
\* for form a function, over lost responses, replacement grants and restarts, and an
\* enrollment creates its device once (handleEnrollment).
GrantSpentOnce ==
  \A s, t \in spent : s[1] = t[1] => s = t

\* A grant works as long as it was promised: from its delivery until its lifetime ends it
\* is accepted, whatever other grants were created or expired meanwhile, and a request that
\* came after the end or after a restart is refused, however late it runs
\* (CreateEnrollmentGrant, lookupGrant, StartBoot).
GrantHonoured ==
  boot # 0 => \A g \in Grants, now \in Moments : Presentable(g, now) =>
     LET ends == minted[g].at + GrantLifetime
     IN  /\ minted[g].boot = boot /\ clock < ends => LookupGrant(g, now) = "ok"
         /\ LookupGrant(g, now) = "ok" => minted[g].boot = boot /\ now < ends

\* Revocation is final: no token the device ever held, on record or not, authenticates,
\* rotates, recovers a rotation or revokes; what is left is the exact repeat of the
\* device's own revocation (authenticate, handleTokenRotation, handleRevokeDevice).
RevokedRefused ==
  \A bearer \in Bearers : bearer.device \in Revoked =>
     /\ Authenticate(bearer) # "ok"
     /\ \A x \in RotationIds, d \in Devices, token \in Tokens :
           RotationAnswer(bearer, x, d, token) \notin {"rotated", "recorded"}
     /\ \A target \in Devices, id \in RequestIds, allow \in BOOLEAN :
           LET answer == RevocationAnswer(bearer, target, id, allow)
           IN  /\ answer \notin {"revoked", "already_revoked"}
               /\ answer = "recorded" => target = bearer.device /\ retired[target] # Absent

\* A revoked device stays revoked under its last token, whatever rotations, enrollments,
\* repeats and restarts follow (handleTokenRotation, handleEnrollment, handleRevokeDevice).
RevocationKept == [][\A d \in Revoked : dev'[d] = dev[d]]_credentialVars

\* A client that lost a response can repeat its request: an enrollment under any usable
\* grant that is unspent or was spent on it, a rotation with its old or its new token until
\* the device is revoked, and a self-revocation for ever are answered from the record
\* (lookupEnrollment, handleTokenRotation, lookupRetiredSelfRevocationReceipt).
RetriesAnswered ==
  /\ \A g \in Grants, id \in EnrollmentIds, now \in Moments :
        /\ LookupGrant(g, now) = "ok"
        /\ enrollments[id] # Absent
        /\ grants[g].consumed \in {Absent, id}
        => EnrollmentAnswer(g, enrollments[id], now) \in {"recorded", "recovered"}
  /\ \A x \in RotationIds :
        rotations[x] # Absent /\ rotations[x].device \in Active =>
           \A token \in {rotations[x].old, rotations[x].new} :
              RotationAnswer([device |-> rotations[x].device, token |-> token], x,
                             rotations[x].device, rotations[x].new) = "recorded"
  /\ \A r \in Stored : r.operation = Revocation(r.device) =>
        /\ retired[r.device] # Absent
        /\ RevocationAnswer([device |-> r.device, token |-> retired[r.device].token], r.device,
                            retired[r.device].id, retired[r.device].allow) = "recorded"

\* No sequence of accepted requests makes the receipt table look corrupt: a device keeps at
\* most three receipts under one request identifier and one under one fingerprint, so the
\* candidate limits of the preflight never refuse an honest client
\* (preflightOperationReceiptKeys, handleRevokeDevice's cross-target check).
ReceiptKeysFit ==
  \A r \in Stored :
     /\ Cardinality(SameRequest(r.device, r.id)) < RequestCandidateLimit
     /\ Cardinality(SamePrint(r.device, r.operation, r.print)) < FingerprintCandidateLimit

\* A receipt disappears only when it is old by the uptime of the database and RetainCount
\* younger ones of its device and class are there (storeReceiptAtUptime,
\* pruneOperationReceipts).
ReceiptsKept ==
  [][\A i \in DOMAIN receipts :
        \/ \E j \in DOMAIN receipts' : receipts'[j] = receipts[i]
        \/ /\ receipts[i].uptime + MinimumAge <= accumulated'
           /\ Cardinality({j \in DOMAIN receipts' :
                             /\ receipts'[j].device = receipts[i].device
                             /\ Class(receipts'[j].operation) = Class(receipts[i].operation)})
                >= RetainCount]_credentialVars

\* Accumulated uptime never runs ahead of the time the server was up, through requests that
\* run late or out of order, overlapping commits, crashes and restarts
\* (checkpointUptimeTx, commitUptimeTransaction, StartBoot).
UptimeNotInflated == accumulated <= clock
=============================================================================
