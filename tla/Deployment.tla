----------------------------- MODULE Deployment -----------------------------
(***************************************************************************)
(* The user-scoped deployment lifecycle: apply, rollback and uninstall as  *)
(* journaled transactions over a deployment record, the installed release  *)
(* files and one user service.                                             *)
(*                                                                         *)
(* A transaction is a walk through the phases of its journal.  Each phase  *)
(* has some work, whose effect is on the host, and a checkpoint, which     *)
(* writes the phase.  A step may succeed, may fail before or after it took *)
(* effect (a rename whose directory sync fails, a manager command that     *)
(* times out), and the process may die in it.  An error makes the process  *)
(* put the prior release back; a death leaves the journal, and the next    *)
(* run of the same command resumes from the phase on disk.                 *)
(*                                                                         *)
(* The locks are abstracted to who may run: `run' is the process holding   *)
(* the bootstrap and lifecycle locks, `lease' a holder of the shared side. *)
(***************************************************************************)
EXTENDS Naturals, Sequences

CONSTANTS
    Releases,         \* the releases that can be installed
    None,             \* no release, record, journal, process or lease
    Schema,           \* the storage schema of each release
    Unhealthy,        \* the releases whose server never answers its probe
    Platform,         \* "linux" (systemd --user) or "darwin" (launchd)
    MaxGeneration,    \* bound: no transaction starts at this generation
    Interruptible     \* the phases at which a restoration may itself be cut short

VARIABLES
    state,        \* deployment.json: the deployment record, or None
    journal,      \* the transaction journal on disk, or None
    staged,       \* the releases whose files are completely installed
    definition,   \* the release the service definition on disk starts, or None
    service,      \* the release the user service manager runs, or None
    foreground,   \* the release a supervised foreground process runs, or None
    available,    \* whether the user service manager answers
    lockFile,     \* whether the lifecycle lock file exists
    plan,         \* the preview its user confirmed last, or None
    run,          \* the process holding the mutation locks, or None
    lease         \* the binding of a managed credential mutation, or None

host == <<state, journal, staged, definition, service>>
vars == <<state, journal, staged, definition, service, foreground, available, lockFile,
          plan, run, lease>>

-----------------------------------------------------------------------------
\* Records.

Kind == IF available THEN "native" ELSE "foreground"

Operations == {"apply", "rollback", "uninstall"}

Phases == {"planned", "artifact_staged", "instance_ready", "prior_service_stopped",
    "definition_installed", "activated", "health_verified", "definition_removed",
    "removing_artifacts", "artifacts_removed", "committing", "state_saved"}

Records == [generation : 1..MaxGeneration, status : {"active", "foreground", "uninstalled"},
            active : Releases \union {None}, previous : Releases \union {None}]

Journals == [op : Operations, phase : Phases, manager : {"native", "foreground"},
             desired : Releases \union {None}, prior : Records \union {None}]

ASSUME DeploymentAssumption == /\ MaxGeneration \in Nat \ {0}
                               /\ None \notin Releases \union Records \union Journals

\* The phases in the order of every operation that has them.
Rank(phase) == CASE phase = "planned" -> 0
                 [] phase = "artifact_staged" -> 1
                 [] phase = "instance_ready" -> 2
                 [] phase = "prior_service_stopped" -> 3
                 [] phase \in {"definition_installed", "definition_removed"} -> 4
                 [] phase \in {"activated", "removing_artifacts"} -> 5
                 [] phase \in {"health_verified", "artifacts_removed"} -> 6
                 [] phase = "committing" -> 7
                 [] phase = "state_saved" -> 8

\* Mutant: a phase is not reached until the one after it is.
PhasePassed(current, target) == Rank(current) > Rank(target)

PhaseReached(current, target) == Rank(current) >= Rank(target)

\* The phase the next checkpoint writes; a foreground deployment has no service
\* to activate or to attest.
NextPhase(j) ==
    CASE j.phase = "planned" -> IF j.op = "apply" THEN "artifact_staged" ELSE "prior_service_stopped"
      [] j.phase = "artifact_staged" -> "instance_ready"
      [] j.phase = "instance_ready" -> "prior_service_stopped"
      [] j.phase = "prior_service_stopped" ->
            IF j.op = "uninstall" THEN "definition_removed" ELSE "definition_installed"
      [] j.phase = "definition_installed" ->
            IF j.manager = "foreground" THEN "committing" ELSE "activated"
      [] j.phase = "activated" -> "health_verified"
      [] j.phase = "definition_removed" -> "removing_artifacts"
      [] j.phase = "removing_artifacts" -> "artifacts_removed"
      [] j.phase \in {"health_verified", "artifacts_removed"} -> "committing"
      [] OTHER -> "state_saved"

IsInstalled(s) == s # None /\ s.active # None

IsActive(s) == IsInstalled(s) /\ s.status = "active"

IsForeground(s) == IsInstalled(s) /\ s.status = "foreground"

GenerationAfter(s) == IF s = None THEN 1 ELSE s.generation + 1

\* Mutant: the kind of manager is recorded as if it were a status.
StatusOfManager(manager) == manager

StatusFor(manager) == IF manager = "foreground" THEN "foreground" ELSE "active"

\* Mutant: the release kept to return to survives an uninstall that removed its files.
PreviousAlwaysKept(j) ==
    [generation |-> GenerationAfter(j.prior), status |-> StatusFor(j.manager),
     active |-> j.desired,
     previous |-> IF j.prior = None THEN None
                  ELSE IF IsInstalled(j.prior) /\ j.prior.active # j.desired THEN j.prior.active
                  ELSE j.prior.previous]

CommittedApplyState(j) ==
    [generation |-> GenerationAfter(j.prior), status |-> StatusFor(j.manager),
     active |-> j.desired,
     previous |-> IF ~IsInstalled(j.prior) THEN None
                  ELSE IF j.prior.active # j.desired THEN j.prior.active
                  ELSE j.prior.previous]

\* Mutant: a rollback returns to the old record, generation included.
RollbackReusesGeneration(j) ==
    [generation |-> j.prior.generation, status |-> StatusFor(j.manager),
     active |-> j.desired, previous |-> j.prior.active]

CommittedRollbackState(j) ==
    [generation |-> GenerationAfter(j.prior), status |-> StatusFor(j.manager),
     active |-> j.desired, previous |-> j.prior.active]

CommittedUninstallState(j) ==
    [generation |-> GenerationAfter(j.prior), status |-> "uninstalled",
     active |-> None, previous |-> j.prior.active]

CommittedState(j) == CASE j.op = "apply" -> CommittedApplyState(j)
                       [] j.op = "rollback" -> CommittedRollbackState(j)
                       [] j.op = "uninstall" -> CommittedUninstallState(j)

-----------------------------------------------------------------------------
\* The user service manager and the running server.

\* A foreground server holds the instance, so the service cannot serve beside it.
Serving == IF foreground # None THEN foreground ELSE service

\* The identity the admin socket answers with, if it answers.
ProbeRunning == IF Serving \in Unhealthy THEN None ELSE Serving

Host == [state |-> state, journal |-> journal, staged |-> staged,
         definition |-> definition, service |-> service]

Become(h) == /\ state' = h.state
             /\ journal' = h.journal
             /\ staged' = h.staged
             /\ definition' = h.definition
             /\ service' = h.service

Stopped == [Host EXCEPT !.service = None]

Removed == [Host EXCEPT !.service = None, !.definition = None]

WithDefinition(r) == [Host EXCEPT !.definition = r]

\* systemd leaves a service that runs already alone; launchd refuses to load it twice.
Activatable == available /\ definition # None /\ (Platform = "linux" \/ service = None)

Started == [Host EXCEPT !.service = IF service = None THEN definition ELSE service]

Restarted == [Host EXCEPT !.service = definition]

\* The service answers with the identity of r.
Attests(r) == available /\ service # None /\ ProbeRunning = r

-----------------------------------------------------------------------------
\* One step of the process that holds the locks: `Succeeds' is its condition,
\* `Outcome' the host it leaves, `Remnants' what an error or a death may leave.

Restoring == {"inspect", "remove_service", "restore_definition", "reactivate", "attest",
              "restore_state", "drop_journal"}

NothingInstalled == [generation |-> 1, status |-> "uninstalled", active |-> None, previous |-> None]

WorkSucceeds(j, phase) ==
    CASE phase = "prior_service_stopped" /\ IsActive(j.prior) -> available
      [] phase = "prior_service_stopped" /\ IsForeground(j.prior) -> ProbeRunning = None
      [] phase = "activated" -> available /\ (Attests(j.desired) \/ definition # None)
      [] phase = "health_verified" -> Attests(j.desired)
      [] phase = "definition_removed" -> available
      [] OTHER -> TRUE

WorkOutcome(j, phase) ==
    CASE phase = "artifact_staged" -> [Host EXCEPT !.staged = staged \union {j.desired}]
      [] phase = "prior_service_stopped" /\ IsActive(j.prior) -> Stopped
      [] phase = "definition_installed" -> WithDefinition(j.desired)
      [] phase = "activated" /\ ~Attests(j.desired) -> Restarted
      [] phase = "definition_removed" -> Removed
      [] phase = "artifacts_removed" -> [Host EXCEPT !.staged = {}]
      [] phase = "state_saved" -> [Host EXCEPT !.state = CommittedState(j)]
      [] OTHER -> Host

WorkMidway(j, phase) ==
    CASE phase = "activated" /\ available /\ ~Attests(j.desired) -> {Stopped}
      [] phase = "definition_removed" /\ available -> {Stopped}
      [] phase = "artifacts_removed" -> {[Host EXCEPT !.staged = s] : s \in SUBSET staged}
      [] OTHER -> {}

Succeeds == LET j == run.journal IN
    CASE run.at = "reuse" -> IsActive(state) => Attests(state.active)
      [] run.at = "verify" -> j.desired \in staged
      [] run.at = "work" -> WorkSucceeds(j, NextPhase(j))
      [] run.at = "finish" -> state = CommittedState(j)
      [] run.at \in {"inspect", "remove_service"} -> available
      [] run.at = "restore_definition" -> j.prior.active \in staged
      [] run.at = "reactivate" -> Activatable
      [] run.at = "attest" -> Attests(j.prior.active)
      [] OTHER -> TRUE

\* The journal in memory once the step was tried: a checkpoint sets the phase
\* before it writes the file.
InMemory == IF run.at = "checkpoint" THEN [run.journal EXCEPT !.phase = NextPhase(run.journal)]
            ELSE run.journal

Outcome == LET j == run.journal IN
    CASE run.at = "reuse" -> [Host EXCEPT !.staged = staged \union {state.active}]
      [] run.at = "mark" -> [Host EXCEPT !.state = NothingInstalled]
      [] run.at \in {"create", "rebind", "checkpoint"} -> [Host EXCEPT !.journal = InMemory]
      [] run.at = "work" -> WorkOutcome(j, NextPhase(j))
      [] run.at \in {"finish", "drop_journal"} -> [Host EXCEPT !.journal = None]
      [] run.at = "remove_service" -> Removed
      [] run.at = "restore_definition" -> WithDefinition(j.prior.active)
      [] run.at = "reactivate" -> Started
      [] run.at = "restore_state" -> [Host EXCEPT !.state = j.prior]
      [] OTHER -> Host

Remnants == {Host} \union (IF Succeeds THEN {Outcome} ELSE {})
    \union CASE run.at = "work" -> WorkMidway(run.journal, NextPhase(run.journal))
             [] run.at = "remove_service" /\ available -> {Stopped}
             [] OTHER -> {}

\* The step that leads to the next phase: some phases only have a checkpoint.
Advance(j) ==
    IF \/ NextPhase(j) \in {"committing", "removing_artifacts"}
       \/ NextPhase(j) = "prior_service_stopped" /\ ~IsInstalled(j.prior)
       \/ NextPhase(j) \in {"definition_installed", "definition_removed"} /\ j.manager = "foreground"
    THEN "checkpoint" ELSE "work"

\* Where a process that loads journal j starts.
StartAt(j) ==
    IF j.phase = "state_saved" THEN "finish"
    ELSE IF j.op = "rollback" \/ (j.op = "apply" /\ PhaseReached(j.phase, "artifact_staged"))
         THEN "verify" ELSE Advance(j)

\* An apply that has not stopped the prior service leaves the record alone.
BeforeStop(j) == j.op = "apply" /\ ~PhaseReached(j.phase, "prior_service_stopped")

\* Mutant: the journal of a saved record is undone like any other.
SavedIsUndone(j) == j.op = "uninstall" /\ PhaseReached(j.phase, "removing_artifacts")

\* An error of these leaves the journal to be resumed.
KeepsJournal(j) == \/ j.phase = "state_saved"
                   \/ j.op = "uninstall" /\ PhaseReached(j.phase, "removing_artifacts")

RestoreService(j) == IF IsActive(j.prior) THEN "restore_definition" ELSE "restore_state"

\* Mutant: the service of the failed release is left in place.
ServiceLeft(j) ==
    IF BeforeStop(j)
    THEN IF PhaseReached(j.phase, "instance_ready") /\ IsActive(j.prior) THEN "inspect"
         ELSE "drop_journal"
    ELSE RestoreService(j)

StartRestore(j) ==
    IF BeforeStop(j)
    THEN IF PhaseReached(j.phase, "instance_ready") /\ IsActive(j.prior) THEN "inspect"
         ELSE "drop_journal"
    ELSE IF j.op # "uninstall" /\ j.manager = "native" THEN "remove_service"
    ELSE RestoreService(j)

\* The steps that may follow a success; a probe that fails is no reason to stop.
Following == LET j == InMemory IN
    CASE run.at \in {"create", "rebind"} -> {StartAt(j)}
      [] run.at = "verify" -> {Advance(j)}
      [] run.at = "work" -> {"checkpoint"}
      [] run.at = "checkpoint" -> {IF j.phase = "state_saved" THEN "finish" ELSE Advance(j)}
      [] run.at = "inspect" ->
            {"restore_definition"} \union (IF Attests(j.prior.active) THEN {"drop_journal"} ELSE {})
      [] run.at = "remove_service" -> {RestoreService(j)}
      [] run.at = "restore_definition" -> {"reactivate"}
      [] run.at = "reactivate" -> {"attest"}
      [] run.at = "attest" -> {IF BeforeStop(j) THEN "drop_journal" ELSE "restore_state"}
      [] run.at = "restore_state" -> {"drop_journal"}
      [] run.at = "drop_journal" -> {"failed"}
      [] OTHER -> {"returned"}

-----------------------------------------------------------------------------
\* The preview: what an apply of r would do now, listed action by action.  The
\* two entries of a foreground plan that name no step of the apply are left out,
\* the four of the release files are one, and a checkpoint is named by its phase.

Idempotent(r) == IsInstalled(state) /\ state.active = r /\ state.status = StatusFor(Kind)

Admission ==
    <<"acquire_bootstrap_lock">>
    \o (IF lockFile THEN <<>> ELSE <<"prepare_install_root", "create_lifecycle_lock">>)
    \o <<"acquire_lifecycle_lock", "acquire_initialization_lock", "prepare_layout">>

PreviewApplyActions(prior, j, rebind) ==
    LET Unless(phase, actions) ==
            IF j # None /\ PhaseReached(j.phase, phase) THEN <<>> ELSE actions
        stop == IF IsActive(prior) THEN <<"stop_prior_user_service">>
                ELSE IF IsForeground(prior) THEN <<"verify_prior_foreground_stopped">> ELSE <<>>
        install == IF available THEN <<"install_user_service_definition">> ELSE <<>>
    IN  Admission
        \o (IF j = None THEN <<"create_apply_journal">> ELSE <<"resume_apply_journal">>)
        \o (IF rebind THEN <<"rebind_apply_journal_inputs">> ELSE <<>>)
        \o Unless("artifact_staged", <<"publish_release_files", "artifact_staged">>)
        \o Unless("instance_ready", <<"initialize_or_resume_instance", "instance_ready">>)
        \o Unless("prior_service_stopped", Append(stop, "prior_service_stopped"))
        \o Unless("definition_installed", Append(install, "definition_installed"))
        \o (IF available
            THEN Unless("activated", <<"activate_user_service", "activated">>)
                 \o Unless("health_verified", <<"verify_running_identity", "health_verified">>)
            ELSE <<>>)
        \o Unless("committing", <<"committing">>)
        \o Unless("state_saved", <<"commit_deployment_state", "state_saved">>)
        \o <<"remove_apply_journal">>

PreviewIdempotentActions == Admission \o <<"verify_or_reuse_release_files">>

\* The releases an apply of r relies on are intact.
ReleasesVerified(s, r) == IsInstalled(s) =>
    /\ s.active = r \/ s.active \in staged
    /\ (s.active = r /\ s.previous # None) => s.previous \in staged

JournalAllows(r) ==
    /\ journal.op = "apply" /\ journal.desired = r /\ journal.manager = Kind
    /\ ReleasesVerified(state, r) /\ ReleasesVerified(journal.prior, r)
    /\ IsInstalled(state) => state.active \in staged
    /\ PhaseReached(journal.phase, "artifact_staged") => r \in staged
    /\ journal.phase = "state_saved" => state = CommittedState(journal)
    /\ (IsForeground(journal.prior) /\ BeforeStop(journal)) => ProbeRunning = None

StateAllows(r) ==
    /\ ReleasesVerified(state, r)
    /\ (IsInstalled(state) /\ ~Idempotent(r)) => state.active \in staged
    /\ IsActive(state) => available
    /\ IF Idempotent(r) THEN IsActive(state) => Attests(r)
       ELSE IsForeground(state) => ProbeRunning = None

ApplyAllowed(r) == IF journal # None THEN JournalAllows(r) ELSE StateAllows(r)

Snapshot(r, rebind) ==
    [desired |-> r, manager |-> Kind, state |-> state, journal |-> journal, lock |-> lockFile,
     rebind |-> rebind,
     actions |-> IF journal = None /\ Idempotent(r) THEN PreviewIdempotentActions
                 ELSE PreviewApplyActions(IF journal = None THEN state ELSE journal.prior,
                                          journal, rebind)]

-----------------------------------------------------------------------------
\* What users and the host do.

Init == /\ state = None /\ journal = None /\ staged = {} /\ definition = None /\ service = None
        /\ foreground = None /\ available \in BOOLEAN /\ lockFile = FALSE
        /\ plan = None /\ run = None /\ lease = None

\* A preview shares the lifecycle lock, or finds no lock file before and after
\* its reads; either way no transaction runs beside it.
Preview(r) == \E rebind \in BOOLEAN :
    /\ run = None
    /\ ApplyAllowed(r)
    /\ rebind => journal # None /\ journal.phase = "planned"
    /\ plan' = Snapshot(r, rebind)
    /\ UNCHANGED <<host, foreground, available, lockFile, run, lease>>

\* Both locks are free, and held from here until the process returns or dies.
TakeLocks == run = None /\ lease = None /\ lockFile' = TRUE

Enter(j, at, actions, done) == run' = [journal |-> j, at |-> at, actions |-> actions, done |-> done]

NewJournal(op, manager, desired) ==
    [op |-> op, phase |-> "planned", manager |-> manager, desired |-> desired, prior |-> state]

\* Under the locks the plan is rebuilt and must be the confirmed one.
Apply(r) ==
    /\ plan # None /\ plan.desired = r
    /\ TakeLocks
    /\ ApplyAllowed(r) /\ plan = Snapshot(r, plan.rebind)
    /\ plan' = None
    /\ \/ /\ journal # None
          /\ Enter(journal, IF plan.rebind THEN "rebind" ELSE StartAt(journal),
                   plan.actions, Admission \o <<"resume_apply_journal">>)
       \/ /\ journal = None /\ Idempotent(r)
          /\ Enter(None, "reuse", plan.actions, Admission)
       \/ /\ journal = None /\ ~Idempotent(r)
          /\ GenerationAfter(state) <= MaxGeneration
          /\ Enter(NewJournal("apply", Kind, r), "create", plan.actions, Admission)
    /\ UNCHANGED <<host, foreground, available, lease>>

\* Mutant: an interrupted rollback is not resumed.
RollbackStartsOnly ==
    /\ TakeLocks
    /\ journal = None /\ IsInstalled(state) /\ state.previous # None
    /\ Schema[state.active] = Schema[state.previous]
    /\ state.previous \in staged
    /\ IsActive(state) => available
    /\ GenerationAfter(state) <= MaxGeneration
    /\ Enter(NewJournal("rollback", Kind, state.previous), "create", <<>>, <<>>)
    /\ UNCHANGED <<host, foreground, available, plan, lease>>

Rollback ==
    /\ TakeLocks
    /\ \/ /\ journal # None /\ journal.op = "rollback"
          /\ Enter(journal, StartAt(journal), <<>>, <<>>)
       \/ /\ journal = None /\ IsInstalled(state) /\ state.previous # None
          /\ Schema[state.active] = Schema[state.previous]
          /\ state.previous \in staged
          /\ IsActive(state) => available
          /\ GenerationAfter(state) <= MaxGeneration
          /\ Enter(NewJournal("rollback", Kind, state.previous), "create", <<>>, <<>>)
    /\ UNCHANGED <<host, foreground, available, plan, lease>>

Uninstall ==
    /\ TakeLocks
    /\ \/ /\ journal # None /\ journal.op = "uninstall"
          /\ Enter(journal, StartAt(journal), <<>>, <<>>)
       \/ /\ journal = None /\ state = None
          /\ Enter(None, "mark", <<>>, <<>>)
       \/ /\ journal = None /\ IsInstalled(state)
          /\ GenerationAfter(state) <= MaxGeneration
          /\ Enter(NewJournal("uninstall", IF IsActive(state) THEN "native" ELSE "foreground", None),
                   "create", <<>>, <<>>)
    /\ UNCHANGED <<host, foreground, available, plan, lease>>

\* What a step of an apply adds to the list of things done.
Doing == LET phase == NextPhase(run.journal) IN
    CASE run.at = "reuse" -> <<"verify_or_reuse_release_files">>
      [] run.at = "create" -> <<"create_apply_journal">>
      [] run.at = "rebind" -> <<"rebind_apply_journal_inputs">>
      [] run.at = "finish" -> <<"remove_apply_journal">>
      [] run.at = "checkpoint" -> <<phase>>
      [] run.at = "work" ->
           (CASE phase = "artifact_staged" -> <<"publish_release_files">>
              [] phase = "instance_ready" -> <<"initialize_or_resume_instance">>
              [] phase = "prior_service_stopped" /\ IsActive(run.journal.prior) ->
                    <<"stop_prior_user_service">>
              [] phase = "prior_service_stopped" /\ IsForeground(run.journal.prior) ->
                    <<"verify_prior_foreground_stopped">>
              [] phase = "definition_installed" ->
                    <<"install_user_service_definition">>
              [] phase = "activated" -> <<"activate_user_service">>
              [] phase = "health_verified" -> <<"verify_running_identity">>
              [] phase = "state_saved" -> <<"commit_deployment_state">>
              [] OTHER -> <<>>)
      [] OTHER -> <<>>

Others == <<foreground, available, lockFile, plan, lease>>

InProgress == run # None /\ run.at \notin {"returned", "failed"}

Step ==
    /\ InProgress /\ Succeeds
    /\ Become(Outcome)
    /\ \E next \in Following :
          Enter(InMemory, next, run.actions,
                IF run.actions = <<>> \/ run.at \in Restoring THEN run.done ELSE run.done \o Doing)
    /\ UNCHANGED Others

\* The error path of Apply, Rollback and Uninstall.
GiveUp ==
    IF run.at \in {"reuse", "mark", "create", "rebind", "finish"} \union Restoring \/ KeepsJournal(InMemory)
    THEN run' = None
    ELSE Enter(InMemory, StartRestore(InMemory), run.actions, run.done)

\* The step cannot succeed on this host, and what it did so far stays.
Refused ==
    /\ InProgress /\ ~Succeeds
    /\ \E h \in Remnants : Become(h)
    /\ GiveUp
    /\ UNCHANGED Others

\* A restoration is only cut short at the phases the instance allows.
MayBreak == InProgress /\ (run.at \in Restoring => run.journal.phase \in Interruptible)

\* A call that would have succeeded reports an error, before or after its effect.
Fault ==
    /\ MayBreak /\ Succeeds
    /\ \E h \in Remnants : Become(h)
    /\ GiveUp
    /\ UNCHANGED Others

\* The process dies; the kernel releases its locks.
Crash ==
    /\ MayBreak
    /\ \E h \in Remnants : Become(h)
    /\ run' = None
    /\ UNCHANGED Others

Return ==
    /\ run # None /\ run.at \in {"returned", "failed"}
    /\ run' = None
    /\ UNCHANGED <<host, Others>>

\* The user service manager comes and goes between commands.
ManagerChanges ==
    /\ run = None
    /\ available' = ~available
    /\ UNCHANGED <<host, foreground, lockFile, plan, run, lease>>

\* The user supervises the foreground command an apply returned, and stops it.
StartForeground ==
    /\ run = None /\ IsForeground(state) /\ foreground = None /\ service = None
    /\ foreground' = state.active
    /\ UNCHANGED <<host, available, lockFile, plan, run, lease>>

StopForeground ==
    /\ foreground # None
    /\ foreground' = None
    /\ UNCHANGED <<host, available, lockFile, plan, run, lease>>

\* Mutant: a lease is taken although a transaction waits for its recovery.
LeaseDespiteJournal ==
    /\ lockFile /\ run = None /\ lease = None
    /\ IsInstalled(state) /\ Serving = state.active
    /\ lease' = [generation |-> state.generation, release |-> state.active]
    /\ UNCHANGED <<host, foreground, available, lockFile, plan, run>>

\* A managed credential mutation, in the server of the recorded release, shares
\* the lifecycle lock for its duration.
AcquireManagedActiveLease ==
    /\ lockFile /\ run = None /\ lease = None
    /\ journal = None
    /\ IsInstalled(state) /\ Serving = state.active
    /\ lease' = [generation |-> state.generation, release |-> state.active]
    /\ UNCHANGED <<host, foreground, available, lockFile, plan, run>>

CloseLease ==
    /\ lease # None
    /\ lease' = None
    /\ UNCHANGED <<host, foreground, available, lockFile, plan, run>>

Operate == (\E r \in Releases : Preview(r) \/ Apply(r)) \/ Rollback \/ Uninstall

Next == Operate \/ Step \/ Refused \/ Fault \/ Crash \/ Return
        \/ ManagerChanges \/ StartForeground \/ StopForeground
        \/ AcquireManagedActiveLease \/ CloseLease

Spec == Init /\ [][Next]_vars

\* A process that runs keeps running, and a user whose command was interrupted
\* repeats it (for an apply: previews it again and confirms).
Recover == journal # None /\ \/ Rollback
                             \/ Uninstall
                             \/ \E r \in Releases : Apply(r) \/ (plan = None /\ Preview(r))

Fairness == WF_vars(Step \/ Refused \/ Return) /\ WF_vars(Recover)

FairSpec == Spec /\ Fairness

-----------------------------------------------------------------------------
\* The committed record: what the journal says it was, until the journal is at
\* state_saved or gone.
Committed == IF journal = None \/ journal.phase = "state_saved" THEN state ELSE journal.prior

\* Types: the record, the journal, the plan and the process are what their files
\* and the command's memory can hold.
TypeOK ==
    LET Maybe(S) == S \union {None}
    IN  /\ state \in Maybe(Records)
        /\ journal \in Maybe(Journals)
        /\ staged \subseteq Releases
        /\ {definition, service, foreground} \subseteq Maybe(Releases)
        /\ {available, lockFile} \subseteq BOOLEAN
        /\ run # None => run.journal \in Maybe(Journals)
        /\ plan # None => plan.state \in Maybe(Records) /\ plan.journal \in Maybe(Journals)

\* "verifies health and the running release identity, then commits deployment
\* state": when no transaction is open, the service the record names is the one
\* that is defined and runs, and where the record names none there is none.
ServiceMatches == (run = None /\ journal = None) =>
    LET expected == IF IsActive(state) THEN state.active ELSE None
    IN  definition = expected /\ service = expected

\* The files of the release in use and of the one to return to stay installed
\* while the record names them and no uninstall has begun to remove them.
InstalledFilesKept ==
    LET removing == journal # None /\ journal.op = "uninstall"
                    /\ PhaseReached(journal.phase, "removing_artifacts")
    IN  (IsInstalled(Committed) /\ ~removing) =>
            {Committed.active, Committed.previous} \ {None} \subseteq staged

\* An apply does what its confirmed preview listed, in that order, and when it
\* returns successfully it did all of it.
ApplyAsPlanned == run # None /\ run.actions # <<>> =>
    /\ run.at \notin Restoring \union {"failed"} =>
          Len(run.done) <= Len(run.actions) /\ run.done = SubSeq(run.actions, 1, Len(run.done))
    /\ run.at = "returned" => run.done = run.actions

\* A credential mutation runs against the committed record: its generation and
\* release are never those of a transaction that can still be undone.
LeaseOnCommitted == lease # None =>
    /\ IsInstalled(Committed)
    /\ lease = [generation |-> Committed.generation, release |-> Committed.active]

\* A journal at state_saved can be finished: the record on disk is the one the
\* recovery will compare it with.
SavedIsFinishable == journal # None /\ journal.phase = "state_saved" => state = CommittedState(journal)

\* The journaled transactions implement the atomic switch of ReleaseSwitch.
Atomic == INSTANCE ReleaseSwitch WITH current <- Committed

SwitchesAtomically == Atomic!Spec

\* Recovery ends: once calls stop failing, the manager is the one the journal was
\* written for and no foreground server is in the way, repeating the interrupted
\* command removes the journal, forward or back.
Settles == /\ <>[][~(Fault \/ Crash)]_vars
           /\ <>[](journal # None => journal.manager = Kind)
           /\ <>[](foreground = None)

RecoveryEnds == Settles => (journal # None ~> journal = None)
=============================================================================
