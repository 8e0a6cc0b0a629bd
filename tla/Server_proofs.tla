--------------------------- MODULE Server_proofs ---------------------------
(***************************************************************************)
(* The theorems about the server on its state directory.  Instance_proofs  *)
(* and Credentials_proofs prove what the steps of either part preserve;    *)
(* what the composition adds is that the memory of the requests belongs to *)
(* the one process that serves.                                            *)
(***************************************************************************)
EXTENDS Server, Instance_proofs, Credentials_proofs

\* Only a process that handles requests has a boot, so a process that starts to serve finds
\* the memory of its predecessor gone.
BootHandled == boot # 0 => Handling # {}

ServerInv == InstanceInv /\ UptimeInv /\ GrantInv /\ DeviceTypes /\ BootHandled

\* What a step of the server is for each of its two parts.
LEMMA StepParts ==
  ASSUME ServerInv, [Next]_vars
  PROVE  /\ (\E p \in Processes : InstanceStep(p)) \/ UNCHANGED instanceVars
         /\ CredentialsStep \/ UNCHANGED credentialVars
<1>1. CASE UNCHANGED vars
  BY <1>1 DEF vars
<1>2. ASSUME NEW p \in Processes, Initializing(p) \/ Starting(p)
      PROVE  /\ InstanceStep(p)
             /\ CredentialsStep \/ UNCHANGED credentialVars
  <2>1. CASE Serve(p) /\ StartBoot
    <3>1. Handling = {}
      <4>1. \A q \in Processes \ {p} : server[q] = "down"
        BY <2>1, OwnedIsOneServer DEF ServerInv, OneServer, Serve
      <4>2. QED
        BY <2>1, <4>1 DEF Handling, Serve
    <3>2. boot = 0
      BY <3>1 DEF ServerInv, BootHandled
    <3>3. QED
      BY <2>1, <3>2 DEF InstanceStep, CredentialsStep
  <2>2. QED
    BY <1>2, <2>1 DEF Initializing, Starting, InstanceStep
<1>3. ASSUME NEW p \in Processes, AdminCommand(p) \/ Working(p)
      PROVE  UNCHANGED instanceVars /\ CredentialsStep
  BY <1>3 DEF AdminCommand, Working, CredentialsStep
<1>4. ASSUME NEW p \in Processes, Stopping(p)
      PROVE  InstanceStep(p) /\ (CredentialsStep \/ UNCHANGED credentialVars)
  BY <1>4 DEF Stopping, InstanceStep, CredentialsStep
<1>5. QED
  BY <1>1, <1>2, <1>3, <1>4 DEF Next

\* The memory is filled when a process starts to serve and lost when it ends; no other step
\* gives or takes a boot, or ends the handling of requests.
LEMMA BootKept ==
  ASSUME ServerInv, [Next]_vars
  PROVE  BootHandled'
<1>1. server \in [Processes -> ServerStages]
  BY DEF ServerInv, InstanceInv, InstanceTypeOK
<1>2. CASE UNCHANGED vars
  BY <1>2 DEF vars, instanceVars, serverVars, credentialVars, memory, ServerInv, BootHandled, Handling
<1>3. ASSUME NEW p \in Processes, Initializing(p)
      PROVE  BootHandled'
  <2>1. UNCHANGED <<server, boot>>
    BY <1>3 DEF Initializing, Initialize, AcquireInitializationLease, MarkInitializing, LoadSettings,
       StartFresh, SaveSettings, LoadSecret, WriteSecret, PrepareDatabase, CreateSchema,
       CompleteInit, AbandonInit, Proceed, serverVars, credentialVars, memory
  <2>2. QED
    BY <2>1, ZenonT(40) DEF ServerInv, BootHandled, Handling
<1>4. ASSUME NEW p \in Processes, Starting(p)
      PROVE  BootHandled'
  <2>1. CASE OpenForServe(p) /\ UNCHANGED credentialVars
    BY <1>1, <2>1 DEF OpenForServe, credentialVars, memory, ServerInv, BootHandled, Handling
  <2>2. CASE ListenAdminSocket(p) /\ UNCHANGED credentialVars
    BY <1>1, <2>2 DEF ListenAdminSocket, credentialVars, memory, ServerInv, BootHandled, Handling
  <2>3. CASE Serve(p) /\ StartBoot
    BY <1>1, <2>3 DEF Serve, BootHandled, Handling
  <2>4. QED
    BY <1>4, <2>1, <2>2, <2>3 DEF Starting
<1>5. ASSUME NEW p \in Processes, AdminCommand(p)
      PROVE  BootHandled'
  BY <1>5 DEF AdminCommand, CreateEnrollmentGrant, instanceVars, serverVars, ServerInv,
     BootHandled, Handling
<1>6. ASSUME NEW p \in Processes, Working(p)
      PROVE  BootHandled'
  BY <1>6 DEF Working, instanceVars, serverVars, BootHandled, Handling
<1>7. ASSUME NEW p \in Processes, Stopping(p)
      PROVE  BootHandled'
  <2>1. CASE Drain(p) /\ UNCHANGED credentialVars
    BY <1>1, <2>1 DEF Drain, BootHandled, Handling
  <2>2. CASE FinishServing(p) /\ CheckpointUptime
    BY <1>1, <2>2 DEF FinishServing, BootHandled, Handling
  <2>3. CASE LoseMemory
    BY <2>3 DEF LoseMemory, BootHandled
  <2>4. QED
    BY <1>7, <2>1, <2>2, <2>3 DEF Stopping
<1>8. QED
  BY <1>2, <1>3, <1>4, <1>5, <1>6, <1>7 DEF Next

\* The invariant of the server holds initially and is kept by every step.
THEOREM ServerInvariant == Spec => []ServerInv
<1>1. Init => ServerInv
  BY InstanceInitially, UptimeInitially, GrantInitially, DevicesInitially
     DEF Init, ServerInv, BootHandled, CredentialsInit
<1>2. ServerInv /\ [Next]_vars => ServerInv'
  <2> SUFFICES ASSUME ServerInv, [Next]_vars PROVE ServerInv'
    OBVIOUS
  <2>1. InstanceInv'
    BY StepParts, InstanceKept, InstanceStutters DEF ServerInv
  <2>2. UptimeInv' /\ GrantInv' /\ DeviceTypes'
    BY StepParts, UptimeKept, GrantsKept, DevicesKept DEF ServerInv
  <2>3. QED
    BY <2>1, <2>2, BootKept DEF ServerInv
<1>3. QED
  BY <1>1, <1>2, PTL DEF Spec

\* Whatever initializations were interrupted, repeated or run against each other, "ready"
\* stands for a whole instance (initializeWithLease).
THEOREM InstanceComplete == Spec => []ReadyIsComplete
<1>1. ServerInv => ReadyIsComplete
  BY DEF ServerInv, InstanceInv
<1>2. QED
  BY <1>1, ServerInvariant, PTL

\* An unfinished initialization can be finished: the refusals meant for foreign files are
\* never met (initializeWithLease).
THEOREM InitializationResumable == Spec => []InitResumable
<1>1. ServerInv => InitResumable
  BY DEF ServerInv, InstanceInv
<1>2. QED
  BY <1>1, ServerInvariant, PTL

\* One process at a time works on the database, and it owns the socket while it serves
\* (OpenForServe, listenAdminSocket).
THEOREM SingleServer == Spec => []OneServer
<1>1. ServerInv => OneServer
  BY OwnedIsOneServer DEF ServerInv
<1>2. QED
  BY <1>1, ServerInvariant, PTL

\* Settings, secret and database identity never change once written (initializeWithLease,
\* store.Open).
THEOREM IdentityIsKept == Spec => IdentityKept
<1>1. ServerInv /\ [Next]_vars => [Kept]_instanceVars
  BY StepParts, FilesKept DEF ServerInv
<1>2. QED
  BY <1>1, ServerInvariant, PTL DEF Spec, IdentityKept, Kept

\* Accumulated uptime never runs ahead of the time the server was up (checkpointUptimeTx,
\* commitUptimeTransaction).
THEOREM UptimeSound == Spec => []UptimeNotInflated
<1>1. ServerInv => UptimeNotInflated
  BY UptimeBounded DEF ServerInv
<1>2. QED
  BY <1>1, ServerInvariant, PTL

\* A grant lets in one enrollment, over lost responses, replacement grants and restarts
\* (handleEnrollment).
THEOREM GrantsSpentOnce == Spec => []GrantSpentOnce
<1>1. ServerInv => GrantSpentOnce
  BY SpentOnce DEF ServerInv
<1>2. QED
  BY <1>1, ServerInvariant, PTL

\* A delivered grant is accepted until its lifetime ends and not after it, whatever other
\* grants are created and pruned and whenever the server restarts (CreateEnrollmentGrant,
\* lookupGrant, StartBoot).
THEOREM GrantsHonoured == Spec => []GrantHonoured
<1>1. ServerInv => GrantHonoured
  BY Honoured DEF ServerInv
<1>2. QED
  BY <1>1, ServerInvariant, PTL

\* Revocation is final: a revoked device stays as it is, and none of its requests is
\* granted (authenticate, handleTokenRotation, handleRevokeDevice).
THEOREM RevocationFinal == Spec => []RevokedRefused /\ RevocationKept
<1>1. ServerInv => RevokedRefused
  BY Refused
<1>2. ServerInv /\ [Next]_vars => [\A d \in Revoked : dev'[d] = dev[d]]_credentialVars
  BY StepParts, DevicesKept DEF ServerInv
<1>3. QED
  BY <1>1, <1>2, ServerInvariant, PTL DEF Spec, RevocationKept
=============================================================================
