------------------------- MODULE Deployment_proofs -------------------------
(***************************************************************************)
(* The journaled transactions implement ReleaseSwitch, keep the files of   *)
(* the releases in use and leave a journal that can be finished, for any   *)
(* set of releases, any schemas and unhealthy releases, either platform,   *)
(* and with faults and deaths at every phase.                              *)
(***************************************************************************)
EXTENDS Deployment, TLAPS

\* The phases each operation walks through.
OpPhases(op) ==
    {"planned", "prior_service_stopped", "committing", "state_saved"}
    \union (IF op = "uninstall" THEN {"definition_removed", "removing_artifacts", "artifacts_removed"}
            ELSE {"definition_installed", "activated", "health_verified"})
    \union (IF op = "apply" THEN {"artifact_staged", "instance_ready"} ELSE {})

\* A journal as the operations start it.
WellFormed(j) ==
    /\ j \in Journals
    /\ j.phase \in OpPhases(j.op)
    /\ GenerationAfter(j.prior) <= MaxGeneration
    /\ j.op = "apply" => j.desired \in Releases
    /\ j.op = "rollback" => /\ IsInstalled(j.prior)
                            /\ j.prior.previous # None
                            /\ j.desired = j.prior.previous
    /\ j.op = "uninstall" => IsInstalled(j.prior)

\* The journal on disk and the record: the record is the prior one until the journal is at
\* committing, and the committed one once it is at state_saved.
DiskInv ==
    /\ state \in Records \union {None}
    /\ staged \subseteq Releases
    /\ journal # None =>
          /\ WellFormed(journal)
          /\ journal.phase = "state_saved" => state = CommittedState(journal)
          /\ journal.phase = "committing" => state \in {journal.prior, CommittedState(journal)}
          /\ journal.phase \notin {"committing", "state_saved"} => state = journal.prior
          /\ journal.op = "apply" /\ journal.phase # "planned" => journal.desired \in staged

\* A process that puts the prior release back: its journal is the one on disk up to the
\* phase, neither is one to keep, and the journal goes only under the prior record.
Undoing ==
    /\ journal # None
    /\ WellFormed(run.journal)
    /\ run.journal.op = journal.op /\ run.journal.manager = journal.manager
    /\ run.journal.desired = journal.desired /\ run.journal.prior = journal.prior
    /\ ~KeepsJournal(journal) /\ ~KeepsJournal(run.journal)
    /\ BeforeStop(run.journal) => state = journal.prior
    /\ run.at = "drop_journal" => state = journal.prior
    /\ run.at = "inspect" => BeforeStop(run.journal)
    /\ run.at \in {"inspect", "restore_definition", "reactivate", "attest"} => IsActive(journal.prior)

Walking == {"verify", "work", "checkpoint"}

\* What the process holds in memory, at each of its steps.
RunInv == run # None =>
    /\ run.at \in {"reuse", "mark", "create", "rebind", "finish", "returned", "failed"}
                     \union Walking \union Restoring
    /\ run.journal \in Journals \union {None}
    /\ run.at = "reuse" => journal = None /\ IsInstalled(state)
    /\ run.at = "mark" => journal = None /\ state = None
    /\ run.at = "create" => /\ journal = None
                            /\ WellFormed(run.journal)
                            /\ run.journal.phase = "planned"
                            /\ run.journal.prior = state
    /\ run.at = "rebind" => journal # None /\ run.journal = journal /\ journal.phase = "planned"
    /\ run.at \in Walking => journal # None /\ run.journal = journal /\ journal.phase # "state_saved"
    /\ run.at = "finish" => journal # None /\ run.journal = journal /\ journal.phase = "state_saved"
    /\ run.at = "checkpoint" /\ journal.phase = "committing" => state = CommittedState(journal)
    /\ run.at = "checkpoint" /\ journal.op = "apply" => journal.desired \in staged
    /\ run.at \in Restoring => Undoing

\* A lease and a transaction exclude each other.
LeaseInv == lease # None =>
    /\ run = None /\ journal = None
    /\ IsInstalled(state)
    /\ lease = [generation |-> state.generation, release |-> state.active]

\* A preview that rebinds the inputs of a journal saw that journal before any step of it.
PlanInv == plan # None =>
    /\ plan.state \in Records \union {None}
    /\ plan.journal \in Journals \union {None}
    /\ plan.rebind => plan.journal # None /\ plan.journal.phase = "planned"

\* The rest of the host.
ServiceInv ==
    /\ definition \in Releases \union {None}
    /\ service \in Releases \union {None}
    /\ foreground \in Releases \union {None}
    /\ available \in BOOLEAN
    /\ lockFile \in BOOLEAN

DeploymentInv == DiskInv /\ RunInv /\ LeaseInv /\ PlanInv /\ ServiceInv /\ InstalledFilesKept

(***************************************************************************)
(* Phases and records.                                                     *)
(***************************************************************************)
\* What deploymentPhaseReached says of each phase.
LEMMA Reached ==
  ASSUME NEW phase \in Phases
  PROVE  /\ PhaseReached(phase, "artifact_staged") <=> phase # "planned"
         /\ PhaseReached(phase, "instance_ready") <=> phase \notin {"planned", "artifact_staged"}
         /\ PhaseReached(phase, "prior_service_stopped")
               <=> phase \notin {"planned", "artifact_staged", "instance_ready"}
         /\ PhaseReached(phase, "removing_artifacts")
               <=> phase \in {"activated", "removing_artifacts", "health_verified",
                              "artifacts_removed", "committing", "state_saved"}
<1>1. /\ Rank("planned") = 0
      /\ Rank("artifact_staged") = 1
      /\ Rank("instance_ready") = 2
      /\ Rank("prior_service_stopped") = 3
      /\ Rank("definition_installed") = 4 /\ Rank("definition_removed") = 4
      /\ Rank("activated") = 5 /\ Rank("removing_artifacts") = 5
      /\ Rank("health_verified") = 6 /\ Rank("artifacts_removed") = 6
      /\ Rank("committing") = 7
      /\ Rank("state_saved") = 8
  BY DEF Rank
<1>2. QED
  BY <1>1 DEF Phases, PhaseReached

\* The next phase is one of the same operation, and the journal stays well formed.
LEMMA NextPhaseIsOwn ==
  ASSUME NEW j, WellFormed(j), j.phase # "state_saved"
  PROVE  /\ NextPhase(j) \in OpPhases(j.op) \ {"planned"}
         /\ NextPhase(j) = "state_saved" <=> j.phase = "committing"
         /\ NextPhase(j) = "artifact_staged" => j.op = "apply"
         /\ NextPhase(j) = "artifacts_removed" => j.phase = "removing_artifacts" /\ j.op = "uninstall"
         /\ NextPhase(j) \in {"artifact_staged", "instance_ready"} =>
               j.phase \in {"planned", "artifact_staged"}
         /\ j.op = "uninstall" /\ NextPhase(j) \in {"prior_service_stopped", "definition_removed"} =>
               j.phase \in {"planned", "prior_service_stopped"}
BY DEF WellFormed, Journals, Operations, Phases, OpPhases, NextPhase

\* A checkpoint changes the phase and nothing else.
LEMMA CheckpointedJournal ==
  ASSUME NEW j, WellFormed(j), NEW phase \in OpPhases(j.op)
  PROVE  LET k == [j EXCEPT !.phase = phase]
         IN  /\ WellFormed(k)
             /\ k.phase = phase /\ k.op = j.op /\ k.manager = j.manager
             /\ k.desired = j.desired /\ k.prior = j.prior
             /\ CommittedState(k) = CommittedState(j)
<1> DEFINE k == [j EXCEPT !.phase = phase]
<1>1. phase \in Phases
  BY DEF OpPhases, Phases
<1>2. /\ k \in Journals
      /\ k.phase = phase /\ k.op = j.op /\ k.manager = j.manager
      /\ k.desired = j.desired /\ k.prior = j.prior
  BY <1>1 DEF WellFormed, Journals
<1> HIDE DEF k
<1>3. WellFormed(k)
  BY <1>2 DEF WellFormed
<1>4. CommittedState(k) = CommittedState(j)
  BY <1>2 DEF CommittedState, CommittedApplyState, CommittedRollbackState, CommittedUninstallState
<1>5. QED
  BY <1>2, <1>3, <1>4 DEF k

\* The committed record is a record, installed unless an uninstall committed it.
LEMMA CommittedIsRecord ==
  ASSUME NEW j, WellFormed(j)
  PROVE  CommittedState(j) \in Records /\ CommittedState(j) # None
<1>1. GenerationAfter(j.prior) \in 1..MaxGeneration
  BY DeploymentAssumption DEF WellFormed, Journals, Records, GenerationAfter
<1>2. StatusFor(j.manager) \in {"active", "foreground"}
  BY DEF StatusFor
<1>3. j.desired \in Releases \union {None} /\ j.prior \in Records \union {None}
  BY DEF WellFormed, Journals
<1>4. IsInstalled(j.prior) => j.prior \in Records
  BY <1>3 DEF IsInstalled
<1>5. CASE j.op = "apply"
  BY <1>1, <1>2, <1>3, <1>4, <1>5, DeploymentAssumption DEF CommittedState, CommittedApplyState, Records
<1>6. CASE j.op = "rollback"
  BY <1>1, <1>2, <1>3, <1>4, <1>6, DeploymentAssumption
     DEF CommittedState, CommittedRollbackState, WellFormed, Records
<1>7. CASE j.op = "uninstall"
  BY <1>1, <1>3, <1>4, <1>7, DeploymentAssumption
     DEF CommittedState, CommittedUninstallState, WellFormed, Records
<1>8. QED
  BY <1>5, <1>6, <1>7 DEF WellFormed, Journals, Operations

(***************************************************************************)
(* What a step of the process leaves on the host.                          *)
(***************************************************************************)
\* The record, the journal and the files after a step, complete or not.
HostChange ==
  \/ UNCHANGED <<state, journal, staged>>
  \/ run.at = "reuse" /\ staged' = staged \union {state.active} /\ UNCHANGED <<state, journal>>
  \/ run.at = "mark" /\ state' = NothingInstalled /\ UNCHANGED <<journal, staged>>
  \/ run.at \in {"create", "rebind", "checkpoint"} /\ journal' = InMemory /\ UNCHANGED <<state, staged>>
  \/ /\ run.at = "work" /\ NextPhase(run.journal) = "artifact_staged"
     /\ staged' = staged \union {run.journal.desired} /\ UNCHANGED <<state, journal>>
  \/ /\ run.at = "work" /\ NextPhase(run.journal) = "artifacts_removed"
     /\ staged' \subseteq staged /\ UNCHANGED <<state, journal>>
  \/ /\ run.at = "work" /\ NextPhase(run.journal) = "state_saved"
     /\ state' = CommittedState(run.journal) /\ UNCHANGED <<journal, staged>>
  \/ run.at \in {"finish", "drop_journal"} /\ journal' = None /\ UNCHANGED <<state, staged>>
  \/ run.at = "restore_state" /\ state' = run.journal.prior /\ UNCHANGED <<journal, staged>>

\* The effect of the work for a phase.
LEMMA WorkEffect ==
  ASSUME run.at = "work", Become(WorkOutcome(run.journal, NextPhase(run.journal)))
  PROVE  /\ HostChange
         /\ NextPhase(run.journal) = "state_saved" => state' = CommittedState(run.journal)
         /\ NextPhase(run.journal) = "artifact_staged" => staged' = staged \union {run.journal.desired}
         /\ UNCHANGED journal
<1> DEFINE phase == NextPhase(run.journal)
<1> HIDE DEF phase
<1>1. CASE phase = "artifact_staged"
  BY <1>1 DEF phase, WorkOutcome, Become, Host, HostChange
<1>2. CASE phase = "artifacts_removed"
  BY <1>2 DEF phase, WorkOutcome, Become, Host, HostChange
<1>3. CASE phase = "state_saved"
  BY <1>3 DEF phase, WorkOutcome, Become, Host, HostChange
<1>4. CASE phase \notin {"artifact_staged", "artifacts_removed", "state_saved"}
  <2>1. UNCHANGED <<state, journal, staged>>
    BY <1>4 DEF phase, WorkOutcome, Become, Host, Stopped, Removed, WithDefinition, Restarted
  <2>2. QED
    BY <1>4, <2>1 DEF phase, HostChange
<1>5. QED
  BY <1>1, <1>2, <1>3, <1>4

\* The effect of a step that succeeds.
LEMMA OutcomeEffect ==
  ASSUME run # None, RunInv, Become(Outcome)
  PROVE  /\ HostChange
         /\ run.at \in {"create", "rebind", "checkpoint"} =>
              journal' = InMemory /\ UNCHANGED <<state, staged>>
         /\ run.at = "restore_state" => state' = run.journal.prior
         /\ run.at \in Restoring \ {"drop_journal"} => UNCHANGED journal
         /\ run.at \in Restoring \ {"restore_state"} => UNCHANGED state
         /\ run.at \in {"verify", "work"} => UNCHANGED journal
<1>1. CASE run.at = "work"
  BY <1>1, WorkEffect DEF Outcome, Restoring
<1>2. CASE run.at \in {"create", "rebind", "checkpoint"}
  <2>1. Outcome = [Host EXCEPT !.journal = InMemory]
    BY <1>2 DEF Outcome
  <2>2. journal' = InMemory /\ UNCHANGED <<state, staged>>
    BY <2>1 DEF Become, Host
  <2>3. QED
    BY <1>2, <2>2 DEF HostChange, Restoring
<1>3. CASE run.at \in {"finish", "drop_journal"}
  <2>1. Outcome = [Host EXCEPT !.journal = None]
    BY <1>3 DEF Outcome
  <2>2. journal' = None /\ UNCHANGED <<state, staged>>
    BY <2>1 DEF Become, Host
  <2>3. QED
    BY <1>3, <2>2 DEF HostChange, Restoring
<1>4. CASE run.at \in {"mark", "restore_state"}
  <2>1. Outcome = [Host EXCEPT !.state = IF run.at = "mark" THEN NothingInstalled ELSE run.journal.prior]
    BY <1>4 DEF Outcome
  <2>2. /\ state' = IF run.at = "mark" THEN NothingInstalled ELSE run.journal.prior
        /\ UNCHANGED <<journal, staged>>
    BY <2>1 DEF Become, Host
  <2>3. QED
    BY <1>4, <2>2 DEF HostChange, Restoring
<1>5. CASE run.at = "reuse"
  <2>1. Outcome = [Host EXCEPT !.staged = staged \union {state.active}]
    BY <1>5 DEF Outcome
  <2>2. staged' = staged \union {state.active} /\ UNCHANGED <<state, journal>>
    BY <2>1 DEF Become, Host
  <2>3. QED
    BY <1>5, <2>2 DEF HostChange, Restoring
<1>6. CASE run.at \in {"remove_service", "restore_definition", "reactivate", "verify", "inspect",
                       "attest", "returned", "failed"}
  <2>1. Outcome \in {Removed, WithDefinition(run.journal.prior.active), Started, Host}
    BY <1>6 DEF Outcome
  <2>2. UNCHANGED <<state, journal, staged>>
    <3>1. CASE Outcome = Removed
      BY <3>1 DEF Become, Host, Removed
    <3>2. CASE Outcome = WithDefinition(run.journal.prior.active)
      BY <3>2 DEF Become, Host, WithDefinition
    <3>3. CASE Outcome = Started
      BY <3>3 DEF Become, Host, Started
    <3>4. CASE Outcome = Host
      BY <3>4 DEF Become, Host
    <3>5. QED
      BY <2>1, <3>1, <3>2, <3>3, <3>4
  <2>3. QED
    BY <1>6, <2>2 DEF HostChange, Restoring
<1>7. QED
  BY <1>1, <1>2, <1>3, <1>4, <1>5, <1>6, Zenon DEF RunInv, Walking, Restoring

\* The effect of a step that fails or is cut short, at any point.
LEMMA RemnantEffect ==
  ASSUME run # None, RunInv, NEW h \in Remnants, Become(h)
  PROVE  HostChange
<1>1. CASE h = Host
  BY <1>1 DEF Become, Host, HostChange
<1>2. CASE h = Outcome
  BY <1>2, OutcomeEffect
<1>3. CASE run.at = "work" /\ h \in WorkMidway(run.journal, NextPhase(run.journal))
  <2>1. CASE NextPhase(run.journal) = "artifacts_removed"
    BY <1>3, <2>1 DEF WorkMidway, Become, Host, HostChange
  <2>2. CASE NextPhase(run.journal) # "artifacts_removed"
    <3>1. h = Stopped
      BY <1>3, <2>2 DEF WorkMidway
    <3>2. QED
      BY <3>1 DEF Become, Host, Stopped, HostChange
  <2>3. QED
    BY <2>1, <2>2
<1>4. CASE h = Stopped
  BY <1>4 DEF Become, Host, Stopped, HostChange
<1>5. QED
  BY <1>1, <1>2, <1>3, <1>4 DEF Remnants

(***************************************************************************)
(* The disk.                                                               *)
(***************************************************************************)
\* The disk stays consistent, the files stay, and the committed record changes as
\* ReleaseSwitch allows.
DiskKept ==
    /\ DiskInv'
    /\ InstalledFilesKept'
    /\ Atomic!Next \/ Committed' = Committed

\* The files an uninstall has begun to remove.
Removing ==
  journal # None /\ journal.op = "uninstall" /\ PhaseReached(journal.phase, "removing_artifacts")

\* Unless files are being removed, what the committed record names is installed.
LEMMA FilesOfCommitted ==
  ASSUME InstalledFilesKept, IsInstalled(Committed), ~Removing
  PROVE  /\ Committed.active \in staged
         /\ Committed.previous # None => Committed.previous \in staged
BY DEF InstalledFilesKept, Removing, IsInstalled

\* A process that records for the first time that nothing is installed (Uninstall).
LEMMA MarkKeepsDisk ==
  ASSUME DeploymentInv, run # None, run.at = "mark", state' = NothingInstalled,
         UNCHANGED <<journal, staged>>
  PROVE  DiskKept
<1>1. journal = None /\ state = None
  BY DEF DeploymentInv, RunInv
<1>2. Committed = None /\ Committed' = NothingInstalled
  BY <1>1 DEF Committed
<1>3. NothingInstalled \in Records
  BY DeploymentAssumption DEF NothingInstalled, Records
<1>4. Atomic!Next
  BY <1>2 DEF Atomic!Next, Atomic!Uninstall, Atomic!Generation, Atomic!Installed, NothingInstalled
<1>5. InstalledFilesKept'
  BY <1>2 DEF InstalledFilesKept, IsInstalled, NothingInstalled
<1>6. QED
  BY <1>1, <1>3, <1>4, <1>5 DEF DiskKept, DiskInv, DeploymentInv

\* A new journal names the record on disk as the prior one; a rebound one keeps it
\* (Apply, Rollback, Uninstall).
LEMMA NewJournalKeepsDisk ==
  ASSUME DeploymentInv, run # None, run.at \in {"create", "rebind"}, journal' = InMemory,
         UNCHANGED <<state, staged>>
  PROVE  DiskKept
<1>1. journal' = run.journal
  BY DEF InMemory
<1>2. CASE run.at = "create"
  <2>1. /\ journal = None /\ WellFormed(journal') /\ journal'.phase = "planned" /\ journal'.prior = state
    BY <1>1, <1>2 DEF DeploymentInv, RunInv
  <2>2. Committed' = Committed
    BY <2>1 DEF Committed
  <2>3. InstalledFilesKept'
    BY <2>1, <2>2 DEF DeploymentInv, InstalledFilesKept
  <2>4. DiskInv'
    BY <2>1 DEF DeploymentInv, DiskInv
  <2>5. QED
    BY <2>2, <2>3, <2>4 DEF DiskKept
<1>3. CASE run.at = "rebind"
  BY <1>1, <1>3 DEF DeploymentInv, RunInv, DiskKept, DiskInv, InstalledFilesKept, Committed
<1>4. QED
  BY <1>2, <1>3

\* The checkpoint of state_saved is the one step of a transaction that switches releases.
LEMMA SavedKeepsDisk ==
  ASSUME DeploymentInv, run # None, run.at = "checkpoint", journal.phase = "committing",
         journal' = InMemory, UNCHANGED <<state, staged>>
  PROVE  DiskKept
<1> DEFINE j == journal
<1>1. /\ j # None /\ WellFormed(j) /\ run.journal = j
      /\ state = CommittedState(j)
      /\ j.op = "apply" => j.desired \in staged
  BY DEF DeploymentInv, DiskInv, RunInv, Walking
<1>2. NextPhase(j) = "state_saved" /\ journal' = [j EXCEPT !.phase = "state_saved"]
  BY <1>1, NextPhaseIsOwn DEF InMemory
<1>3. "state_saved" \in OpPhases(j.op)
  BY DEF OpPhases
<1>4. /\ WellFormed(journal')
      /\ journal'.phase = "state_saved" /\ journal'.op = j.op /\ journal'.desired = j.desired
      /\ CommittedState(journal') = CommittedState(j)
  BY <1>1, <1>2, <1>3, CheckpointedJournal
<1>5. DiskInv'
  BY <1>1, <1>4 DEF DeploymentInv, DiskInv
<1>6. Committed = j.prior /\ Committed' = CommittedState(j)
  BY <1>1, <1>4 DEF Committed
<1>7. j.op # "uninstall" => ~Removing
  BY DEF Removing
<1>8. j.op \in {"apply", "rollback", "uninstall"}
  BY <1>1 DEF WellFormed, Journals, Operations
<1> HIDE DEF j
<1>9. StatusFor(j.manager) \in {"active", "foreground"}
  BY DEF StatusFor
<1>10. GenerationAfter(j.prior) = Atomic!Generation + 1
  BY <1>6 DEF GenerationAfter, Atomic!Generation
<1>11. CASE j.op = "apply"
  <2>1. Committed' = CommittedApplyState(j) /\ j.desired \in Releases
    BY <1>1, <1>6, <1>11 DEF CommittedState, WellFormed
  <2>2. Atomic!Apply(j.desired)
    BY <1>6, <1>9, <1>10, <2>1 DEF CommittedApplyState, IsInstalled, Atomic!Apply,
       Atomic!Installed, Atomic!Running
  <2>3. InstalledFilesKept'
    BY <1>1, <1>6, <1>7, <1>11, <2>1, FilesOfCommitted
       DEF CommittedApplyState, InstalledFilesKept, DeploymentInv
  <2>4. QED
    BY <1>5, <2>1, <2>2, <2>3 DEF DiskKept, Atomic!Next
<1>12. CASE j.op = "rollback"
  <2>1. /\ Committed' = CommittedRollbackState(j)
        /\ IsInstalled(j.prior) /\ j.prior.previous # None /\ j.desired = j.prior.previous
    BY <1>1, <1>6, <1>12 DEF CommittedState, WellFormed
  <2>2. Atomic!Rollback
    BY <1>6, <1>9, <1>10, <2>1 DEF CommittedRollbackState, IsInstalled, Atomic!Rollback,
       Atomic!Installed, Atomic!Running
  <2>3. InstalledFilesKept'
    BY <1>6, <1>7, <1>12, <2>1, FilesOfCommitted
       DEF CommittedRollbackState, InstalledFilesKept, DeploymentInv
  <2>4. QED
    BY <1>5, <2>2, <2>3 DEF DiskKept, Atomic!Next
<1>13. CASE j.op = "uninstall"
  <2>1. Committed' = CommittedUninstallState(j) /\ IsInstalled(j.prior)
    BY <1>1, <1>6, <1>13 DEF CommittedState, WellFormed
  <2>2. Atomic!Uninstall
    BY <1>6, <1>10, <2>1 DEF CommittedUninstallState, IsInstalled, Atomic!Uninstall, Atomic!Installed
  <2>3. InstalledFilesKept'
    BY <2>1 DEF CommittedUninstallState, InstalledFilesKept, IsInstalled
  <2>4. QED
    BY <1>5, <2>2, <2>3 DEF DiskKept, Atomic!Next
<1>14. QED
  BY <1>8, <1>11, <1>12, <1>13

\* The other checkpoints leave the committed record alone.
LEMMA CheckpointKeepsDisk ==
  ASSUME DeploymentInv, run # None, run.at = "checkpoint", journal.phase # "committing",
         journal' = InMemory, UNCHANGED <<state, staged>>
  PROVE  DiskKept
<1>1. /\ journal # None /\ WellFormed(journal) /\ run.journal = journal
      /\ journal.phase \notin {"committing", "state_saved"}
      /\ state = journal.prior
      /\ journal.op = "apply" => journal.desired \in staged
  BY DEF DeploymentInv, DiskInv, RunInv, Walking
<1>2. /\ NextPhase(journal) \in OpPhases(journal.op)
      /\ NextPhase(journal) # "state_saved"
      /\ journal.op = "uninstall" /\ NextPhase(journal) \in {"prior_service_stopped", "definition_removed"} =>
            journal.phase \in {"planned", "prior_service_stopped"}
  BY <1>1, NextPhaseIsOwn
<1>3. journal' = [journal EXCEPT !.phase = NextPhase(journal)]
  BY <1>1 DEF InMemory
<1>4. /\ WellFormed(journal')
      /\ journal'.phase = NextPhase(journal) /\ journal'.op = journal.op
      /\ journal'.desired = journal.desired /\ journal'.prior = journal.prior
  BY <1>1, <1>2, <1>3, CheckpointedJournal
<1>5. journal' # None
  BY <1>4, DeploymentAssumption DEF WellFormed
<1>6. DiskInv'
  BY <1>1, <1>2, <1>4 DEF DeploymentInv, DiskInv
<1>7. Committed = journal.prior /\ Committed' = Committed
  BY <1>1, <1>2, <1>4, <1>5 DEF Committed
<1>8. Removing => Removing'
  <2>1. journal.phase \in Phases /\ journal'.phase \in Phases
    BY <1>1, <1>4 DEF WellFormed, Journals
  <2>2. SUFFICES ASSUME Removing PROVE PhaseReached(journal'.phase, "removing_artifacts")
    BY <1>4, <1>5 DEF Removing
  <2>3. journal.op = "uninstall" /\ journal.phase \notin {"planned", "prior_service_stopped"}
    BY <2>1, <2>2, Reached DEF Removing
  <2>4. journal'.phase \in {"removing_artifacts", "artifacts_removed", "committing", "state_saved"}
    <3>1. NextPhase(journal) # "planned"
      BY <1>1, NextPhaseIsOwn
    <3>2. QED
      BY <1>2, <1>4, <2>3, <3>1 DEF OpPhases
  <2>5. QED
    BY <2>1, <2>4, Reached
<1>9. InstalledFilesKept'
  BY <1>7, <1>8 DEF DeploymentInv, InstalledFilesKept, Removing
<1>10. QED
  BY <1>6, <1>7, <1>9 DEF DiskKept

\* Work changes files or the record under an open journal, whose prior record stays the
\* committed one.
LEMMA WorkKeepsDisk ==
  ASSUME DeploymentInv, run # None, run.at = "work", HostChange
  PROVE  DiskKept
<1>1. /\ journal # None /\ WellFormed(journal) /\ run.journal = journal
      /\ journal.phase # "state_saved"
  BY DEF DeploymentInv, DiskInv, RunInv, Walking
<1>2. UNCHANGED journal /\ Committed = journal.prior /\ Committed' = Committed
  BY <1>1 DEF HostChange, Committed
<1>3. CASE staged \subseteq staged' /\ staged' \subseteq Releases /\ UNCHANGED state
  <2>1. DiskInv'
    BY <1>2, <1>3 DEF DeploymentInv, DiskInv
  <2>2. InstalledFilesKept'
    BY <1>2, <1>3 DEF DeploymentInv, InstalledFilesKept
  <2>3. QED
    BY <1>2, <2>1, <2>2 DEF DiskKept
<1>4. CASE NextPhase(journal) = "artifacts_removed" /\ staged' \subseteq staged /\ UNCHANGED state
  <2>1. journal.op = "uninstall" /\ journal.phase = "removing_artifacts"
    BY <1>1, <1>4, NextPhaseIsOwn
  <2>2. Removing'
    <3>1. PhaseReached("removing_artifacts", "removing_artifacts")
      BY Reached DEF Phases
    <3>2. QED
      BY <1>1, <1>2, <2>1, <3>1 DEF Removing
  <2>3. DiskInv'
    BY <1>2, <1>4, <2>1 DEF DeploymentInv, DiskInv
  <2>4. QED
    BY <1>2, <2>2, <2>3 DEF DiskKept, InstalledFilesKept, Removing
<1>5. CASE NextPhase(journal) = "state_saved" /\ state' = CommittedState(journal) /\ UNCHANGED staged
  <2>1. journal.phase = "committing"
    BY <1>1, <1>5, NextPhaseIsOwn
  <2>2. DiskInv'
    BY <1>1, <1>2, <1>5, <2>1, CommittedIsRecord DEF DeploymentInv, DiskInv
  <2>3. QED
    BY <1>2, <1>5, <2>2 DEF DeploymentInv, DiskKept, InstalledFilesKept
<1>6. QED
  <2>1. staged \subseteq Releases
    BY DEF DeploymentInv, DiskInv
  <2>2. CASE NextPhase(journal) = "artifact_staged" /\ staged' = staged \union {journal.desired}
             /\ UNCHANGED state
    <3>1. journal.desired \in Releases
      BY <1>1, <2>2, NextPhaseIsOwn DEF WellFormed
    <3>2. QED
      BY <1>3, <2>1, <2>2, <3>1
  <2>3. CASE UNCHANGED <<state, staged>>
    BY <1>3, <2>1, <2>3
  <2>4. QED
    BY <1>1, <1>4, <1>5, <2>2, <2>3 DEF HostChange

\* A restoration writes the prior record under an open journal, and drops the journal once
\* the record is the prior one (restorePriorAfterFailedApply).
LEMMA RestoringKeepsDisk ==
  ASSUME DeploymentInv, run # None, run.at \in Restoring, HostChange
  PROVE  DiskKept
<1>1. Undoing
  BY DEF DeploymentInv, RunInv
<1>2. /\ journal # None /\ WellFormed(journal) /\ journal.phase # "state_saved"
      /\ run.journal.prior = journal.prior
      /\ Committed = journal.prior
      /\ ~Removing
  BY <1>1 DEF Undoing, KeepsJournal, DeploymentInv, DiskInv, Committed, Removing
<1>3. CASE run.at = "drop_journal" /\ journal' = None /\ UNCHANGED <<state, staged>>
  <2>1. Committed' = Committed
    BY <1>1, <1>2, <1>3 DEF Undoing, Committed
  <2>2. InstalledFilesKept'
    BY <1>2, <1>3, <2>1 DEF DeploymentInv, InstalledFilesKept, Removing
  <2>3. QED
    BY <1>3, <2>1, <2>2 DEF DeploymentInv, DiskInv, DiskKept
<1>4. CASE run.at = "restore_state" /\ state' = run.journal.prior /\ UNCHANGED <<journal, staged>>
  <2>1. Committed' = Committed
    BY <1>2, <1>4 DEF Committed
  <2>2. InstalledFilesKept'
    BY <1>4, <2>1 DEF DeploymentInv, InstalledFilesKept
  <2>3. journal.prior \in Records \union {None}
    BY <1>2 DEF WellFormed, Journals
  <2>4. DiskInv'
    BY <1>2, <1>4, <2>3 DEF DeploymentInv, DiskInv
  <2>5. QED
    BY <2>1, <2>2, <2>4 DEF DiskKept
<1>5. CASE UNCHANGED <<state, journal, staged>>
  BY <1>5 DEF DeploymentInv, DiskInv, DiskKept, InstalledFilesKept, Committed
<1>6. QED
  BY <1>3, <1>4, <1>5 DEF HostChange, Restoring

\* Every step of a process keeps the disk.
LEMMA ProcessKeepsDisk ==
  ASSUME DeploymentInv, run # None, HostChange
  PROVE  DiskKept
<1>1. CASE UNCHANGED <<state, journal, staged>>
  BY <1>1 DEF DeploymentInv, DiskInv, DiskKept, InstalledFilesKept, Committed
<1>2. CASE run.at = "reuse" /\ staged' = staged \union {state.active} /\ UNCHANGED <<state, journal>>
  <2>1. journal = None /\ state.active \in Releases
    BY <1>2 DEF DeploymentInv, DiskInv, RunInv, IsInstalled, Records
  <2>2. Committed' = Committed
    BY <1>2 DEF Committed
  <2>3. QED
    BY <1>2, <2>1, <2>2 DEF DeploymentInv, DiskInv, DiskKept, InstalledFilesKept
<1>3. CASE run.at = "finish" /\ journal' = None /\ UNCHANGED <<state, staged>>
  <2>1. journal # None /\ journal.phase = "state_saved" /\ WellFormed(journal)
        /\ state = CommittedState(journal)
    BY <1>3 DEF DeploymentInv, DiskInv, RunInv
  <2>2. Committed = state /\ Committed' = state
    BY <1>3, <2>1 DEF Committed
  <2>3. CASE journal.op = "uninstall"
    <3>1. ~IsInstalled(state)
      BY <2>1, <2>3 DEF CommittedState, CommittedUninstallState, IsInstalled
    <3>2. InstalledFilesKept'
      BY <1>3, <2>2, <3>1 DEF InstalledFilesKept, IsInstalled
    <3>3. QED
      BY <1>3, <2>2, <3>2 DEF DeploymentInv, DiskInv, DiskKept
  <2>4. CASE journal.op # "uninstall"
    BY <1>3, <2>2, <2>4 DEF DeploymentInv, DiskInv, DiskKept, InstalledFilesKept
  <2>5. QED
    BY <2>3, <2>4
<1>4. QED
  BY <1>1, <1>2, <1>3, MarkKeepsDisk, NewJournalKeepsDisk, SavedKeepsDisk, CheckpointKeepsDisk,
     WorkKeepsDisk, RestoringKeepsDisk DEF HostChange, Restoring

(***************************************************************************)
(* The process.                                                            *)
(***************************************************************************)
\* Where a walk goes on: a checkpoint without work is never that of state_saved or of
\* artifact_staged.
LEMMA AdvanceIsOwn ==
  ASSUME NEW j, WellFormed(j), j.phase # "state_saved"
  PROVE  /\ Advance(j) \in {"work", "checkpoint"}
         /\ Advance(j) = "checkpoint" => j.phase # "committing" /\ (j.op = "apply" => j.phase # "planned")
<1>1. j.phase = "committing" => NextPhase(j) = "state_saved"
  BY NextPhaseIsOwn
<1>2. j.phase = "planned" /\ j.op = "apply" => NextPhase(j) = "artifact_staged"
  BY DEF NextPhase
<1>3. QED
  BY <1>1, <1>2 DEF Advance

\* A process that walks, or finishes, along the journal on disk.
LEMMA WalkingKeepsRun ==
  ASSUME DiskInv', journal' # None, run'.journal = journal',
         \/ journal'.phase = "state_saved" /\ run'.at = "finish"
         \/ journal'.phase # "state_saved" /\ run'.at \in {"verify", "work", Advance(journal')}
  PROVE  RunInv'
<1>1. WellFormed(journal') /\ journal' \in Journals
  BY DEF DiskInv, WellFormed
<1>2. CASE run'.at = "finish"
  <2>1. journal'.phase = "state_saved"
    BY <1>1, <1>2, AdvanceIsOwn
  <2>2. QED
    BY <1>1, <1>2, <2>1 DEF RunInv, Walking, Restoring
<1>3. CASE run'.at # "finish"
  <2>1. /\ journal'.phase # "state_saved" /\ run'.at \in Walking
        /\ run'.at = "checkpoint" =>
              journal'.phase # "committing" /\ (journal'.op = "apply" => journal'.phase # "planned")
    BY <1>1, <1>3, AdvanceIsOwn DEF Walking
  <2>2. run'.at = "checkpoint" /\ journal'.op = "apply" => (journal.desired \in staged)'
    BY <2>1 DEF DiskInv
  <2>3. QED
    BY <1>1, <2>1, <2>2 DEF RunInv, Walking, Restoring
<1>4. QED
  BY <1>2, <1>3

\* The journal a process holds, and the one on disk, while it walks.
LEMMA WalkingJournal ==
  ASSUME DeploymentInv, run # None, run.at \in Walking
  PROVE  /\ journal # None /\ run.journal = journal
         /\ WellFormed(journal) /\ journal.phase # "state_saved"
         /\ WellFormed(InMemory)
         /\ InMemory.phase = IF run.at = "checkpoint" THEN NextPhase(journal) ELSE journal.phase
         /\ InMemory.op = journal.op /\ InMemory.manager = journal.manager
         /\ InMemory.desired = journal.desired /\ InMemory.prior = journal.prior
<1>1. /\ journal # None /\ run.journal = journal
      /\ WellFormed(journal) /\ journal.phase # "state_saved"
  BY DEF DeploymentInv, RunInv, DiskInv
<1>2. CASE run.at = "checkpoint"
  BY <1>1, <1>2, NextPhaseIsOwn, CheckpointedJournal DEF InMemory
<1>3. CASE run.at # "checkpoint"
  BY <1>1, <1>3 DEF InMemory
<1>4. QED
  BY <1>1, <1>2, <1>3

\* Once an uninstall removes files it goes on to phases that keep the journal.
LEMMA RemovalGoesOn ==
  ASSUME NEW j, WellFormed(j), j.phase # "state_saved", KeepsJournal(j)
  PROVE  j.op = "uninstall" /\ PhaseReached(NextPhase(j), "removing_artifacts")
<1>1. j.op = "uninstall" /\ PhaseReached(j.phase, "removing_artifacts")
  BY DEF KeepsJournal
<1>2. j.phase \in Phases /\ NextPhase(j) \in Phases
  BY NextPhaseIsOwn DEF WellFormed, Journals, OpPhases, Phases
<1>3. j.phase \notin {"planned", "prior_service_stopped"}
  BY <1>1, <1>2, Reached
<1>4. NextPhase(j) \in {"removing_artifacts", "artifacts_removed", "committing", "state_saved"}
  BY <1>1, <1>3, NextPhaseIsOwn DEF OpPhases
<1>5. QED
  BY <1>1, <1>2, <1>4, Reached

\* An error on the way starts a restoration whose journal is not one to keep
\* (restorePriorAfterFailedApply, rollback and uninstall alike).
LEMMA RestoreKeepsRun ==
  ASSUME DeploymentInv, run # None, run.at \in Walking, HostChange, ~KeepsJournal(InMemory),
         run'.journal = InMemory, run'.at = StartRestore(InMemory)
  PROVE  RunInv'
<1> DEFINE k == InMemory
<1>1. /\ journal # None /\ run.journal = journal
      /\ WellFormed(journal) /\ journal.phase # "state_saved"
      /\ WellFormed(k)
      /\ k.phase = IF run.at = "checkpoint" THEN NextPhase(journal) ELSE journal.phase
      /\ k.op = journal.op /\ k.manager = journal.manager
      /\ k.desired = journal.desired /\ k.prior = journal.prior
  BY WalkingJournal
<1>2. journal' \in {journal, k}
  BY DEF HostChange, Walking
<1>3. journal' # None /\ k # None /\ k \in Journals
  BY <1>1, <1>2, DeploymentAssumption DEF WellFormed
<1>4. ~KeepsJournal(journal)
  <2>1. CASE run.at = "checkpoint"
    BY <1>1, <2>1, RemovalGoesOn DEF KeepsJournal
  <2>2. CASE run.at # "checkpoint"
    BY <1>1, <2>2 DEF KeepsJournal
  <2>3. QED
    BY <2>1, <2>2
<1>5. ~KeepsJournal(journal')
  BY <1>2, <1>4
<1>6. ASSUME BeforeStop(k) PROVE state' = journal.prior
  <2>1. k.phase \in {"planned", "artifact_staged", "instance_ready"}
    BY <1>1, <1>6, Reached DEF BeforeStop, WellFormed, Journals
  <2>2. journal.phase \in {"planned", "artifact_staged", "instance_ready"}
    BY <1>1, <2>1, NextPhaseIsOwn
  <2>3. NextPhase(journal) # "state_saved"
    BY <1>1, <2>2, NextPhaseIsOwn
  <2>4. UNCHANGED state
    BY <1>1, <2>3 DEF HostChange, Walking
  <2>5. QED
    BY <1>1, <2>2, <2>4 DEF DeploymentInv, DiskInv
<1>7. /\ run'.at \in {"inspect", "drop_journal", "remove_service", "restore_definition", "restore_state"}
      /\ run'.at \in {"inspect", "drop_journal"} => BeforeStop(k)
      /\ run'.at \in {"inspect", "restore_definition"} => IsActive(k.prior)
  BY DEF StartRestore, RestoreService
<1>8. journal'.op = k.op /\ journal'.manager = k.manager
      /\ journal'.desired = k.desired /\ journal'.prior = k.prior
  BY <1>1, <1>2
<1>9. run'.journal = k
  OBVIOUS
<1> HIDE DEF k
<1>10. Undoing'
  BY <1>1, <1>3, <1>5, <1>6, <1>7, <1>8, <1>9 DEF Undoing, k
<1>11. QED
  BY <1>3, <1>7, <1>9, <1>10 DEF RunInv, Walking, Restoring

\* What a step that succeeds leaves in memory.
LEMMA StepMemory ==
  ASSUME DeploymentInv, Step
  PROVE  /\ run # None /\ run.at \notin {"returned", "failed"} /\ Succeeds
         /\ Become(Outcome) /\ HostChange /\ DiskKept
         /\ run'.journal = InMemory /\ run'.at \in Following
<1>1. /\ run # None /\ run.at \notin {"returned", "failed"} /\ Succeeds /\ Become(Outcome)
      /\ run'.journal = InMemory /\ run'.at \in Following
  BY DEF Step, InProgress, Enter
<1>2. HostChange
  BY <1>1, OutcomeEffect DEF DeploymentInv
<1>3. QED
  BY <1>1, <1>2, ProcessKeepsDisk

\* A restoration that goes on keeps its journal, and drops it after the prior record is back.
LEMMA RestoringStepKeepsRun ==
  ASSUME DeploymentInv, Step, run.at \in Restoring
  PROVE  RunInv'
<1>1. run # None /\ Undoing /\ run'.journal = run.journal /\ run'.at \in Following /\ Become(Outcome)
  BY StepMemory DEF DeploymentInv, RunInv, InMemory, Restoring
<1>2. InMemory = run.journal
  BY DEF InMemory, Restoring
<1>3. /\ run.at = "restore_state" => state' = run.journal.prior
      /\ run.at # "drop_journal" => UNCHANGED journal
      /\ run.at # "restore_state" => UNCHANGED state
  BY <1>1, OutcomeEffect DEF DeploymentInv
<1>4. run.journal \in Journals
  BY <1>1 DEF Undoing, WellFormed
<1>5. CASE run.at = "drop_journal"
  <2>1. run'.at = "failed"
    BY <1>1, <1>2, <1>5 DEF Following
  <2>2. QED
    BY <1>1, <1>4, <2>1 DEF RunInv, Walking, Restoring
<1>6. CASE run.at # "drop_journal"
  <2>1. /\ run'.at \in Restoring
        /\ run'.at = "drop_journal" => \/ run.at = "restore_state"
                                       \/ BeforeStop(run.journal)
        /\ run'.at # "inspect"
        /\ run'.at \in {"restore_definition", "reactivate", "attest"} => IsActive(run.journal.prior)
    <3>1. CASE run.at = "inspect"
      BY <1>1, <1>2, <3>1 DEF Following, Restoring, Undoing
    <3>2. CASE run.at = "remove_service"
      BY <1>1, <1>2, <3>2 DEF Following, Restoring, RestoreService
    <3>3. CASE run.at \in {"restore_definition", "reactivate"}
      BY <1>1, <1>2, <3>3 DEF Following, Restoring, Undoing
    <3>4. CASE run.at = "attest"
      BY <1>1, <1>2, <3>4 DEF Following, Restoring
    <3>5. CASE run.at = "restore_state"
      BY <1>1, <1>2, <3>5 DEF Following, Restoring
    <3>6. QED
      BY <1>6, <3>1, <3>2, <3>3, <3>4, <3>5 DEF Restoring
  <2>2. UNCHANGED journal /\ (state' = state \/ state' = journal.prior)
        /\ (run.at = "restore_state" => state' = journal.prior)
    BY <1>1, <1>3, <1>6 DEF Undoing
  <2>3. Undoing'
    BY <1>1, <2>1, <2>2 DEF Undoing
  <2>4. QED
    BY <1>1, <1>4, <2>1, <2>3 DEF RunInv, Walking, Restoring
<1>7. QED
  BY <1>5, <1>6

\* The work of a phase leaves what its checkpoint relies on.
LEMMA WorkStepKeepsRun ==
  ASSUME DeploymentInv, Step, run.at = "work"
  PROVE  RunInv'
<1>1. /\ run # None /\ journal # None /\ run.journal = journal
      /\ WellFormed(journal) /\ journal.phase # "state_saved"
  BY StepMemory, WalkingJournal DEF Walking
<1>2. run'.journal = journal /\ run'.at = "checkpoint"
  BY <1>1, StepMemory DEF InMemory, Following
<1>3. /\ NextPhase(journal) = "state_saved" => state' = CommittedState(journal)
      /\ NextPhase(journal) = "artifact_staged" => staged' = staged \union {journal.desired}
      /\ UNCHANGED journal
  BY <1>1, StepMemory, WorkEffect DEF Outcome
<1>4. journal.phase = "committing" => state' = CommittedState(journal)
  BY <1>1, <1>3, NextPhaseIsOwn
<1>5. journal.op = "apply" => journal.desired \in staged'
  <2>1. CASE journal.op = "apply" /\ journal.phase = "planned"
    BY <1>3, <2>1 DEF NextPhase
  <2>2. CASE journal.op = "apply" /\ journal.phase # "planned"
    BY <1>1, <1>3, <2>2, StepMemory DEF DiskKept, DiskInv
  <2>3. QED
    BY <2>1, <2>2
<1>6. journal \in Journals
  BY <1>1, Zenon DEF WellFormed
<1>7. QED
  BY <1>1, <1>2, <1>3, <1>4, <1>5, <1>6 DEF RunInv, Walking, Restoring

\* Every step that succeeds leaves the process where its memory and the disk agree.
LEMMA StepKeepsRun ==
  ASSUME DeploymentInv, Step
  PROVE  RunInv'
<1>1. /\ run # None /\ run.at \notin {"returned", "failed"}
      /\ HostChange /\ DiskInv' /\ Become(Outcome)
      /\ run'.journal = InMemory /\ run'.at \in Following
  BY StepMemory DEF DiskKept
<1>2. CASE run.at \in {"reuse", "mark", "finish"}
  <2>1. run'.at = "returned" /\ run'.journal = run.journal
    BY <1>1, <1>2 DEF Following, InMemory
  <2>2. QED
    BY <1>1, <2>1 DEF DeploymentInv, RunInv, Walking, Restoring
<1>3. CASE run.at \in {"create", "rebind"}
  <2>1. /\ InMemory = run.journal /\ journal' = run.journal
        /\ WellFormed(run.journal) /\ run.journal.phase = "planned"
        /\ run'.at = StartAt(journal')
    BY <1>1, <1>3, OutcomeEffect DEF DeploymentInv, RunInv, DiskInv, InMemory, Following
  <2>2. run'.at \in {"verify", Advance(journal')}
    BY <2>1 DEF StartAt
  <2>3. journal' # None
    BY <2>1, DeploymentAssumption DEF WellFormed
  <2>4. QED
    BY <1>1, <2>1, <2>2, <2>3, WalkingKeepsRun, Zenon
<1>4. CASE run.at = "verify"
  <2>1. /\ run.journal = journal /\ InMemory = journal /\ journal # None
        /\ journal.phase # "state_saved"
        /\ UNCHANGED journal
    BY <1>1, <1>4, OutcomeEffect DEF DeploymentInv, RunInv, Walking, InMemory
  <2>2. run'.at = Advance(journal')
    BY <1>1, <1>4, <2>1 DEF Following
  <2>3. QED
    BY <1>1, <2>1, <2>2, WalkingKeepsRun
<1>5. CASE run.at = "checkpoint"
  <2>1. journal' = InMemory /\ WellFormed(InMemory)
    BY <1>1, <1>5, OutcomeEffect, WalkingJournal DEF DeploymentInv, Walking
  <2>2. run'.at = IF journal'.phase = "state_saved" THEN "finish" ELSE Advance(journal')
    BY <1>1, <1>5, <2>1 DEF Following
  <2>3. journal' # None
    BY <2>1, DeploymentAssumption DEF WellFormed
  <2>4. QED
    BY <1>1, <2>1, <2>2, <2>3, WalkingKeepsRun
<1>6. QED
  BY <1>1, <1>2, <1>3, <1>4, <1>5, RestoringStepKeepsRun, WorkStepKeepsRun, Zenon
     DEF DeploymentInv, RunInv, Walking

\* So does every step that fails or is cut short.
LEMMA BrokenKeepsRun ==
  ASSUME DeploymentInv, run # None, HostChange, GiveUp \/ run' = None,
         run.at \notin {"returned", "failed"}
  PROVE  RunInv'
<1>1. CASE run' = None
  BY <1>1 DEF RunInv
<1>2. CASE run' # None
  <2>1. /\ run.at \notin {"reuse", "mark", "create", "rebind", "finish"} \union Restoring
        /\ ~KeepsJournal(InMemory)
        /\ run'.journal = InMemory /\ run'.at = StartRestore(InMemory)
    BY <1>2 DEF GiveUp, Enter
  <2>2. run.at \in Walking
    BY <2>1 DEF DeploymentInv, RunInv
  <2>3. QED
    BY <2>1, <2>2, RestoreKeepsRun
<1>3. QED
  BY <1>1, <1>2

(***************************************************************************)
(* The service.                                                            *)
(***************************************************************************)
\* A step defines or starts no other release than those of its journal.
LEMMA ProcessKeepsService ==
  ASSUME DeploymentInv, run # None, NEW h \in Remnants, Become(h), UNCHANGED Others
  PROVE  ServiceInv'
<1> DEFINE M == Releases \union {None}
<1>1. definition \in M /\ service \in M
  BY DEF DeploymentInv, ServiceInv
<1>2. run.at = "work" => run.journal.desired \in M
  BY Zenon DEF DeploymentInv, RunInv, DiskInv, Walking, WellFormed, Journals
<1>3. run.at = "restore_definition" => run.journal.prior.active \in M
  BY DEF DeploymentInv, RunInv, Restoring, Undoing, WellFormed, Journals, IsActive, IsInstalled, Records
<1> HIDE DEF M
<1>4. CASE h \in {Host, Stopped} \/ \E t \in SUBSET staged : h = [Host EXCEPT !.staged = t]
  <2>1. definition' = definition /\ (service' = service \/ service' = None)
    BY <1>4 DEF Become, Host, Stopped
  <2>2. QED
    BY <1>1, <2>1 DEF DeploymentInv, ServiceInv, Others, M
<1>5. CASE h = Outcome
  <2>1. definition' \in M /\ service' \in M
    <3>1. None \in M
      BY DEF M
    <3>2. CASE run.at = "work"
      BY <1>1, <1>2, <1>5, <3>1, <3>2, Zenon DEF Outcome, WorkOutcome, Become, Host, Stopped, WithDefinition,
         Restarted, Removed
    <3>3. CASE run.at \in {"remove_service", "restore_definition", "reactivate"}
      BY <1>1, <1>3, <1>5, <3>1, <3>3, ZenonT(40) DEF Outcome, Become, Host, Removed, WithDefinition, Started
    <3>4. CASE run.at \notin {"work", "remove_service", "restore_definition", "reactivate"}
      BY <1>1, <1>5, <3>4 DEF Outcome, Become, Host
    <3>5. QED
      BY <3>2, <3>3, <3>4
  <2>2. QED
    BY <2>1 DEF DeploymentInv, ServiceInv, Others, M
<1>6. QED
  BY <1>4, <1>5 DEF Remnants, WorkMidway

(***************************************************************************)
(* The operations.                                                         *)
(***************************************************************************)
\* A new transaction starts from the record on disk.
LEMMA NewJournalIsWellFormed ==
  ASSUME state \in Records \union {None}, GenerationAfter(state) <= MaxGeneration,
         NEW op \in Operations, NEW manager \in {"native", "foreground"},
         NEW desired \in Releases \union {None},
         op = "apply" => desired \in Releases,
         op = "rollback" => IsInstalled(state) /\ state.previous # None /\ desired = state.previous,
         op = "uninstall" => IsInstalled(state)
  PROVE  LET j == NewJournal(op, manager, desired)
         IN  WellFormed(j) /\ j \in Journals /\ j.phase = "planned" /\ j.prior = state
BY DEF NewJournal, WellFormed, Journals, Phases, OpPhases

\* A resumed or a new transaction of any command, or a command without one.
LEMMA EnteringKeepsRun ==
  ASSUME DeploymentInv, UNCHANGED host,
         \/ journal # None /\ run'.journal = journal /\ run'.at = StartAt(journal)
         \/ journal # None /\ journal.phase = "planned" /\ run'.journal = journal /\ run'.at = "rebind"
         \/ journal = None /\ IsInstalled(state) /\ run'.journal = None /\ run'.at = "reuse"
         \/ journal = None /\ state = None /\ run'.journal = None /\ run'.at = "mark"
         \/ /\ journal = None /\ run'.at = "create"
            /\ WellFormed(run'.journal) /\ run'.journal \in Journals
            /\ run'.journal.phase = "planned" /\ run'.journal.prior = state
  PROVE  RunInv'
<1>1. UNCHANGED <<state, journal, staged>> /\ DiskInv'
  BY DEF host, DeploymentInv, DiskInv
<1>2. journal # None => journal \in Journals
  BY DEF DeploymentInv, DiskInv, WellFormed
<1>3. CASE journal # None /\ run'.journal = journal /\ run'.at = StartAt(journal)
  BY <1>1, <1>3, WalkingKeepsRun DEF StartAt
<1>4. CASE journal # None /\ journal.phase = "planned" /\ run'.journal = journal /\ run'.at = "rebind"
  BY <1>1, <1>2, <1>4 DEF RunInv, Walking, Restoring
<1>5. CASE journal = None
  BY <1>1, <1>5 DEF RunInv, Walking, Restoring, IsInstalled
<1>6. QED
  BY <1>3, <1>4, <1>5

\* Commands start only between transactions and leases, and change nothing on the host.
LEMMA CommandKeeps ==
  ASSUME DeploymentInv, (\E r \in Releases : Apply(r)) \/ Rollback \/ Uninstall
  PROVE  DeploymentInv' /\ Committed' = Committed
<1>1. UNCHANGED <<host, foreground, available, lease>> /\ lease = None /\ lockFile' = TRUE
      /\ (plan' = None \/ plan' = plan)
  BY DEF Apply, Rollback, Uninstall, TakeLocks
<1>2. state \in Records \union {None}
  BY DEF DeploymentInv, DiskInv
<1>3. RunInv'
  <2>1. ASSUME NEW r \in Releases, Apply(r) PROVE RunInv'
    <3>1. CASE journal # None
      <4>1. plan.rebind => journal.phase = "planned"
        BY <2>1 DEF Apply, Snapshot, DeploymentInv, PlanInv
      <4>2. run'.journal = journal /\ run'.at = IF plan.rebind THEN "rebind" ELSE StartAt(journal)
        BY <2>1, <3>1 DEF Apply, Enter
      <4>3. QED
        BY <1>1, <3>1, <4>1, <4>2, EnteringKeepsRun, Zenon
    <3>2. CASE journal = None /\ Idempotent(r)
      BY <1>1, <2>1, <3>2, EnteringKeepsRun DEF Apply, Enter, Idempotent
    <3>3. CASE journal = None /\ ~Idempotent(r)
      <4>1. /\ run'.journal = NewJournal("apply", Kind, r) /\ run'.at = "create"
            /\ GenerationAfter(state) <= MaxGeneration
        BY <2>1, <3>3 DEF Apply, Enter
      <4>2. Kind \in {"native", "foreground"} /\ "apply" \in Operations
        BY DEF Kind, Operations
      <4>3. /\ WellFormed(run'.journal) /\ run'.journal \in Journals
            /\ run'.journal.phase = "planned" /\ run'.journal.prior = state
        BY <1>2, <4>1, <4>2, NewJournalIsWellFormed
      <4>4. QED
        BY <1>1, <3>3, <4>1, <4>3, EnteringKeepsRun, Zenon
    <3>4. QED
      BY <3>1, <3>2, <3>3
  <2>2. CASE Rollback
    <3>1. CASE journal # None
      BY <1>1, <2>2, <3>1, EnteringKeepsRun DEF Rollback, Enter
    <3>2. CASE journal = None
      <4>1. /\ run'.journal = NewJournal("rollback", Kind, state.previous) /\ run'.at = "create"
            /\ GenerationAfter(state) <= MaxGeneration
            /\ IsInstalled(state) /\ state.previous # None
        BY <2>2, <3>2 DEF Rollback, Enter
      <4>2. Kind \in {"native", "foreground"} /\ "rollback" \in Operations
            /\ state.previous \in Releases \union {None}
        BY <1>2, <4>1 DEF Kind, Operations, IsInstalled, Records
      <4>3. /\ WellFormed(run'.journal) /\ run'.journal \in Journals
            /\ run'.journal.phase = "planned" /\ run'.journal.prior = state
        BY <1>2, <4>1, <4>2, NewJournalIsWellFormed
      <4>4. QED
        BY <1>1, <3>2, <4>1, <4>3, EnteringKeepsRun
    <3>3. QED
      BY <3>1, <3>2
  <2>3. CASE Uninstall
    <3>1. CASE journal # None
      BY <1>1, <2>3, <3>1, EnteringKeepsRun DEF Uninstall, Enter
    <3>2. CASE journal = None /\ state = None /\ run'.journal = None /\ run'.at = "mark"
      BY <1>1, <3>2, EnteringKeepsRun, Zenon
    <3>3. CASE /\ journal = None /\ IsInstalled(state) /\ GenerationAfter(state) <= MaxGeneration
               /\ \E manager \in {"native", "foreground"} :
                     run'.journal = NewJournal("uninstall", manager, None)
               /\ run'.at = "create"
      <4>1. PICK manager \in {"native", "foreground"} :
               run'.journal = NewJournal("uninstall", manager, None)
        BY <3>3
      <4>2. "uninstall" \in Operations
        BY DEF Operations
      <4>3. /\ WellFormed(run'.journal) /\ run'.journal \in Journals
            /\ run'.journal.phase = "planned" /\ run'.journal.prior = state
        BY <1>2, <3>3, <4>1, <4>2, NewJournalIsWellFormed
      <4>4. QED
        BY <1>1, <3>3, <4>3, EnteringKeepsRun
    <3>4. QED
      BY <2>3, <3>1, <3>2, <3>3 DEF Uninstall, Enter
  <2>4. QED
    BY <2>1, <2>2, <2>3
<1>4. DiskInv' /\ InstalledFilesKept' /\ Committed' = Committed
  BY <1>1 DEF host, DeploymentInv, DiskInv, InstalledFilesKept, Committed
<1>5. LeaseInv' /\ PlanInv' /\ ServiceInv'
  BY <1>1 DEF host, DeploymentInv, LeaseInv, PlanInv, ServiceInv
<1>6. QED
  BY <1>3, <1>4, <1>5, Zenon DEF DeploymentInv

\* A step that leaves the disk alone keeps what is said of it, and what is said of a process
\* that it leaves alone.
LEMMA UnchangedKeeps ==
  ASSUME DeploymentInv, UNCHANGED host
  PROVE  /\ DiskInv' /\ InstalledFilesKept' /\ Committed' = Committed
         /\ UNCHANGED run => RunInv'
<1>1. UNCHANGED <<state, journal, staged>>
  BY DEF host
<1>2. DiskInv'
  BY <1>1 DEF DeploymentInv, DiskInv
<1>3. Committed' = Committed
  BY <1>1 DEF Committed
<1>4. InstalledFilesKept'
  BY <1>1, <1>3 DEF DeploymentInv, InstalledFilesKept
<1>5. ASSUME UNCHANGED run PROVE RunInv'
  <2>1. Undoing => Undoing'
    BY <1>1, <1>5 DEF Undoing
  <2>2. QED
    BY <1>1, <1>5, <2>1 DEF DeploymentInv, RunInv
<1>6. QED
  BY <1>2, <1>3, <1>4, <1>5

\* Every step keeps the invariant, and is a step of ReleaseSwitch or leaves the committed
\* record alone.
LEMMA EveryStepKeeps ==
  ASSUME DeploymentInv, [Next]_vars
  PROVE  DeploymentInv' /\ (Atomic!Next \/ Committed' = Committed)
<1>1. CASE Step
  <2>1. run # None /\ Outcome \in Remnants /\ Become(Outcome) /\ UNCHANGED Others
    BY <1>1, StepMemory DEF Step, Remnants
  <2>2. DiskKept /\ RunInv' /\ ServiceInv'
    BY <1>1, <2>1, StepMemory, StepKeepsRun, ProcessKeepsService
  <2>3. LeaseInv' /\ PlanInv'
    BY <2>1 DEF Others, DeploymentInv, LeaseInv, PlanInv
  <2>4. QED
    BY <2>2, <2>3 DEF DeploymentInv, DiskKept
<1>2. CASE Refused \/ Fault \/ Crash
  <2>1. PICK h \in Remnants : Become(h)
    BY <1>2 DEF Refused, Fault, Crash
  <2>2. /\ run # None /\ run.at \notin {"returned", "failed"} /\ UNCHANGED Others
        /\ GiveUp \/ run' = None
    BY <1>2 DEF Refused, Fault, Crash, MayBreak, InProgress
  <2>3. HostChange
    BY <2>1, <2>2, RemnantEffect DEF DeploymentInv
  <2>4. DiskKept /\ RunInv' /\ ServiceInv'
    BY <2>1, <2>2, <2>3, ProcessKeepsDisk, BrokenKeepsRun, ProcessKeepsService
  <2>5. LeaseInv' /\ PlanInv'
    BY <2>2 DEF Others, DeploymentInv, LeaseInv, PlanInv
  <2>6. QED
    BY <2>4, <2>5 DEF DeploymentInv, DiskKept
<1>3. CASE \E r \in Releases : Preview(r)
  <2>1. PICK r \in Releases, rebind \in BOOLEAN :
           /\ rebind => journal # None /\ journal.phase = "planned"
           /\ plan' = Snapshot(r, rebind)
           /\ UNCHANGED <<host, foreground, available, lockFile, run, lease>>
    BY <1>3 DEF Preview
  <2>2. plan'.state = state /\ plan'.journal = journal /\ plan'.rebind = rebind
    BY <2>1, Zenon DEF Snapshot
  <2>3. PlanInv'
    BY <2>1, <2>2, Zenon DEF PlanInv, DeploymentInv, DiskInv, WellFormed
  <2>4. LeaseInv' /\ ServiceInv'
    BY <2>1 DEF host, DeploymentInv, LeaseInv, ServiceInv
  <2>5. QED
    BY <2>1, <2>3, <2>4, UnchangedKeeps DEF DeploymentInv
<1>4. CASE (\E r \in Releases : Apply(r)) \/ Rollback \/ Uninstall
  BY <1>4, CommandKeeps
<1>5. CASE Return
  <2>1. UNCHANGED <<host, Others>> /\ run' = None
    BY <1>5, ZenonT(40) DEF Return
  <2>2. RunInv' /\ LeaseInv' /\ PlanInv' /\ ServiceInv'
    BY <2>1 DEF host, Others, DeploymentInv, RunInv, LeaseInv, PlanInv, ServiceInv
  <2>3. QED
    BY <2>1, <2>2, UnchangedKeeps DEF DeploymentInv
<1>6. CASE ManagerChanges \/ StartForeground \/ StopForeground \/ AcquireManagedActiveLease
           \/ CloseLease \/ UNCHANGED vars
  <2>1. UNCHANGED <<host, plan, run>>
    BY <1>6, ZenonT(40) DEF ManagerChanges, StartForeground, StopForeground, AcquireManagedActiveLease,
       CloseLease, vars, host
  <2>2. LeaseInv'
    BY <1>6, <2>1 DEF ManagerChanges, StartForeground, StopForeground, AcquireManagedActiveLease,
       CloseLease, vars, host, DeploymentInv, LeaseInv
  <2>3. state # None => state \in Records
    BY DEF DeploymentInv, DiskInv
  <2>4. ServiceInv'
    BY <1>6, <2>1, <2>3, Zenon DEF ManagerChanges, StartForeground, StopForeground,
       AcquireManagedActiveLease, CloseLease, vars, host, IsForeground, IsInstalled, Records,
       DeploymentInv, ServiceInv
  <2>5. PlanInv'
    BY <2>1 DEF DeploymentInv, PlanInv
  <2>6. QED
    BY <2>1, <2>2, <2>4, <2>5, UnchangedKeeps DEF DeploymentInv
<1>7. QED
  BY <1>1, <1>2, <1>3, <1>4, <1>5, <1>6 DEF Next, Operate

\* The invariant of the deployment holds in every state.
THEOREM DeploymentInvariant == Spec => []DeploymentInv
<1>1. Init => DeploymentInv
  BY Zenon DEF Init, DeploymentInv, DiskInv, RunInv, LeaseInv, PlanInv, ServiceInv, InstalledFilesKept,
     Committed, IsInstalled
<1>2. DeploymentInv /\ [Next]_vars => DeploymentInv'
  BY EveryStepKeeps
<1>3. QED
  BY <1>1, <1>2, PTL DEF Spec

\* The journaled transactions implement ReleaseSwitch: through errors before and after each
\* effect, deaths, restorations and resumed commands, the committed record changes only by a
\* whole apply, rollback or uninstall (runApply, runRollback, runUninstall,
\* restorePriorAfterFailedApply).
THEOREM TransactionsAreAtomic == Spec => SwitchesAtomically
<1>1. Init => Atomic!Init
  BY DEF Init, Atomic!Init, Committed
<1>2. DeploymentInv /\ [Next]_vars => [Atomic!Next]_Committed
  BY EveryStepKeeps
<1>3. QED
  BY <1>1, <1>2, DeploymentInvariant, PTL DEF Spec, SwitchesAtomically, Atomic!Spec

\* The record, the journal, the plan and the process keep their types.
THEOREM DeploymentTyped == Spec => []TypeOK
<1>1. DeploymentInv => TypeOK
  BY DEF DeploymentInv, DiskInv, RunInv, PlanInv, ServiceInv, WellFormed, TypeOK
<1>2. QED
  BY <1>1, DeploymentInvariant, PTL

\* A journal at state_saved stands on the record its recovery expects (runApply).
THEOREM SavedFinishable == Spec => []SavedIsFinishable
<1>1. DeploymentInv => SavedIsFinishable
  BY DEF DeploymentInv, DiskInv, SavedIsFinishable
<1>2. QED
  BY <1>1, DeploymentInvariant, PTL

\* A credential mutation runs against the committed record (AcquireManagedActiveLease).
THEOREM LeasesOnCommitted == Spec => []LeaseOnCommitted
<1>1. DeploymentInv => LeaseOnCommitted
  BY DEF DeploymentInv, LeaseInv, LeaseOnCommitted, Committed
<1>2. QED
  BY <1>1, DeploymentInvariant, PTL

\* The files of the release in use and of the one to return to stay installed (runApply,
\* runUninstall).
THEOREM FilesStayInstalled == Spec => []InstalledFilesKept
<1>1. DeploymentInv => InstalledFilesKept
  BY DEF DeploymentInv
<1>2. QED
  BY <1>1, DeploymentInvariant, PTL

=============================================================================
