------------------------------- MODULE Server -------------------------------
(***************************************************************************)
(* The server process on its state directory: Instance and Credentials     *)
(* composed.  The memory of Credentials belongs to the process that        *)
(* serves; it is filled by the start-up of that process (RunWithAdmin) and *)
(* lost when the process ends.  Requests run while a process handles them, *)
(* grants are asked for through the enrollment socket while it serves.     *)
(***************************************************************************)
EXTENDS Instance, Credentials

vars == <<instanceVars, credentialVars>>

Init == InstanceInit /\ CredentialsInit

Initializing(p) == Initialize(p) /\ UNCHANGED credentialVars

\* A process is started while there are boots left (bound MaxBoot).
Starting(p) ==
  /\ activeBoot < MaxBoot
  /\ \/ (OpenForServe(p) \/ ListenAdminSocket(p)) /\ UNCHANGED credentialVars
     \/ Serve(p) /\ StartBoot

\* A command of `sshserver enrollment create` arriving on the socket.
AdminCommand(p) ==
  /\ server[p] = "serving"
  /\ socket = p
  /\ \E now \in Moments : CreateEnrollmentGrant(now)
  /\ UNCHANGED instanceVars

\* Requests, and the steps handlers take after their commit.
Working(p) ==
  /\ p \in Handling
  /\ \/ HandleAPI
     \/ PublishCheckpoint
     \/ \E delivered \in BOOLEAN : PublishGrant(delivered)
     \/ Tick
  /\ UNCHANGED instanceVars

Stopping(p) ==
  \/ Drain(p) /\ UNCHANGED credentialVars
  \/ FinishServing(p) /\ CheckpointUptime
  \/ (CloseInstance(p) \/ Crash(p)) /\ LoseMemory

Next ==
  \E p \in Processes : \/ Initializing(p)
                       \/ Starting(p)
                       \/ AdminCommand(p)
                       \/ Working(p)
                       \/ Stopping(p)

Spec == Init /\ [][Next]_vars

\* The types of both parts.
TypeOK == InstanceTypeOK /\ CredentialsTypeOK
=============================================================================
