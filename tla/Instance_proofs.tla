-------------------------- MODULE Instance_proofs --------------------------
(***************************************************************************)
(* What the steps of Instance preserve, for any number of processes.  The  *)
(* theorems about the whole server are in Server_proofs.                   *)
(***************************************************************************)
EXTENDS Instance, TLAPS

\* A step of a process on the state directory.
InstanceStep(p) ==
  \/ Initialize(p) \/ OpenForServe(p) \/ ListenAdminSocket(p) \/ Serve(p) \/ Drain(p)
  \/ FinishServing(p) \/ CloseInstance(p) \/ Crash(p)

\* The stages after the settings, after the secret, and after the marker.
SettingsStages == {"load_secret", "save_secret", "open_database", "create_schema", "complete"}
SecretStages == {"open_database", "create_schema", "complete"}

\* Whoever initializes holds the lock.
Locked ==
  \A p \in Processes : \/ initializer[p] = Idle
                       \/ instanceLock = p /\ initializer[p].stage \in InitStages

\* What the directory looks like at each stage of its initializer.
Staged ==
  \A p \in Processes :
     LET stage == initializer[p].stage IN
     /\ stage \in InitStages \ {"marker"} => marker = "initializing"
     /\ stage \in {"marker", "load_settings", "save_settings"} => initializer[p].identity = None
     /\ stage = "save_settings" => settings = None /\ secret = None /\ database = None
     /\ stage \in SettingsStages => settings # None /\ initializer[p].identity = settings.identity
     /\ stage = "save_secret" => secret = None
     /\ stage \in SecretStages => secret # None
     /\ stage = "complete" => database = settings.identity

\* Whoever serves holds the lock, and answers on the socket while it listens.
Owned ==
  \A p \in Processes : server[p] # "down" =>
     /\ serverLock = p
     /\ marker = "ready"
     /\ server[p] \in {"listening", "serving"} => socket = p

\* The inductive invariant of the state directory.
InstanceInv ==
  InstanceTypeOK /\ Locked /\ Staged /\ Owned /\ InitResumable /\ ReadyIsComplete

\* Nothing is in the directory, and nobody works on it.
LEMMA InstanceInitially == InstanceInit => InstanceInv
BY InstanceAssumption DEF InstanceInit,
   InstanceInv, InstanceTypeOK, Locked, Staged, Owned, InitResumable, ReadyIsComplete,
   Idle, InitStages, ServerStages, SettingsStages, SecretStages

\* Whoever takes the lock is alone (acquireNamedLock).
LEMMA AcquireInitializationLeaseKeeps ==
  ASSUME InstanceInv, NEW p \in Processes, NEW requested \in Listeners \union {None},
         AcquireInitializationLease(p, requested)
  PROVE  InstanceInv'
<1>1. \A q \in Processes : initializer[q] = Idle
  BY InstanceAssumption DEF AcquireInitializationLease, LockFree, InstanceInv, Locked
<1>2. QED
  BY <1>1, InstanceAssumption DEF AcquireInitializationLease, LockFree, files, serverVars,
     InstanceInv, InstanceTypeOK, Locked, Staged, Owned, InitResumable, ReadyIsComplete, Idle,
     InitStages, ServerStages, SettingsStages, SecretStages

\* The first marker promises nothing (initializeWithLease).
LEMMA MarkInitializingKeeps ==
  ASSUME InstanceInv, NEW p \in Processes, MarkInitializing(p)
  PROVE  InstanceInv'
BY InstanceAssumption DEF MarkInitializing, At, Proceed, files, initVars, serverVars,
   InstanceInv, InstanceTypeOK, Locked, Staged, Owned, InitResumable, ReadyIsComplete,
   Idle, InitStages, ServerStages, SettingsStages, SecretStages

\* Settings on disk are taken over with their identity; without settings there is neither
\* secret nor database (initializeWithLease).
LEMMA LoadSettingsKeeps ==
  ASSUME InstanceInv, NEW p \in Processes, LoadSettings(p)
  PROVE  InstanceInv'
BY InstanceAssumption DEF LoadSettings, StartFresh, At, Proceed, files, initVars, serverVars,
   InstanceInv, InstanceTypeOK, Locked, Staged, Owned, InitResumable, ReadyIsComplete,
   Idle, InitStages, ServerStages, SettingsStages, SecretStages

\* The identity of new settings is nobody else's, and nothing on disk depends on settings
\* yet (config.NewSettings, initializeWithLease).
LEMMA SaveSettingsKeeps ==
  ASSUME InstanceInv, NEW p \in Processes, SaveSettings(p)
  PROVE  InstanceInv'
<1>1. \A q \in Processes : initializer[q].identity = None
  BY InstanceAssumption DEF SaveSettings, At, InstanceInv, Locked, Staged, Idle, InitStages
<1>2. settings = None /\ secret = None /\ database = None
  BY DEF SaveSettings, At, InstanceInv, Staged
<1>3. NewIdentity \in Identities
  BY <1>1, <1>2, InstanceAssumption DEF NewIdentity
<1>4. settings' \in [identity : Identities, listeners : Listeners] /\ settings'.identity = NewIdentity
  BY <1>3, InstanceAssumption DEF SaveSettings, InstanceInv, InstanceTypeOK
<1>5. settings' # None
  BY <1>4, InstanceAssumption
<1>6. QED
  BY <1>1, <1>2, <1>3, <1>4, <1>5, InstanceAssumption DEF SaveSettings, At, serverVars,
     InstanceInv, InstanceTypeOK, Locked, Staged, Owned, InitResumable, ReadyIsComplete, Idle,
     InitStages, ServerStages, SettingsStages, SecretStages

\* A secret on disk is kept (initializeWithLease).
LEMMA LoadSecretKeeps ==
  ASSUME InstanceInv, NEW p \in Processes, LoadSecret(p)
  PROVE  InstanceInv'
BY InstanceAssumption DEF LoadSecret, At, Proceed, files, initVars, serverVars,
   InstanceInv, InstanceTypeOK, Locked, Staged, Owned, InitResumable, ReadyIsComplete,
   Idle, InitStages, ServerStages, SettingsStages, SecretStages

\* A secret is written where there was none (initializeWithLease).
LEMMA WriteSecretKeeps ==
  ASSUME InstanceInv, NEW p \in Processes, WriteSecret(p)
  PROVE  InstanceInv'
BY InstanceAssumption, SMTT(20) DEF WriteSecret, At, Proceed, files, initVars, serverVars,
   InstanceInv, InstanceTypeOK, Locked, Staged, Owned, InitResumable, ReadyIsComplete,
   Idle, InitStages, ServerStages, SettingsStages, SecretStages

\* An empty database file belongs to no identity (store.Open).
LEMMA PrepareDatabaseKeeps ==
  ASSUME InstanceInv, NEW p \in Processes, PrepareDatabase(p)
  PROVE  InstanceInv'
BY InstanceAssumption, SMTT(20) DEF PrepareDatabase, At, Proceed, files, initVars, serverVars,
   InstanceInv, InstanceTypeOK, Locked, Staged, Owned, InitResumable, ReadyIsComplete,
   Idle, InitStages, ServerStages, SettingsStages, SecretStages

\* The database gets the identity of the settings (store.Open).
LEMMA CreateSchemaKeeps ==
  ASSUME InstanceInv, NEW p \in Processes, CreateSchema(p)
  PROVE  InstanceInv'
BY InstanceAssumption, SMTT(20) DEF CreateSchema, OpenStore, At, Proceed, files, initVars, serverVars,
   InstanceInv, InstanceTypeOK, Locked, Staged, Owned, InitResumable, ReadyIsComplete,
   Idle, InitStages, ServerStages, SettingsStages, SecretStages

\* The marker is written when settings, secret and database are there (initializeWithLease).
LEMMA CompleteInitKeeps ==
  ASSUME InstanceInv, NEW p \in Processes, CompleteInit(p)
  PROVE  InstanceInv'
BY InstanceAssumption DEF CompleteInit, At, files, initVars, serverVars,
   InstanceInv, InstanceTypeOK, Locked, Staged, Owned, InitResumable, ReadyIsComplete,
   Idle, InitStages, ServerStages, SettingsStages, SecretStages

\* An initialization may stop anywhere: what it leaves is a prefix of the files.
LEMMA AbandonInitKeeps ==
  ASSUME InstanceInv, NEW p \in Processes, AbandonInit(p)
  PROVE  InstanceInv'
BY InstanceAssumption DEF AbandonInit, files, initVars, serverVars,
   InstanceInv, InstanceTypeOK, Locked, Staged, Owned, InitResumable, ReadyIsComplete,
   Idle, InitStages, ServerStages, SettingsStages, SecretStages

\* A server opens a ready instance, with the lock (instance.OpenForServe).
LEMMA OpenForServeKeeps ==
  ASSUME InstanceInv, NEW p \in Processes, OpenForServe(p)
  PROVE  InstanceInv'
BY InstanceAssumption DEF OpenForServe, OpenStore, LockFree, files, initVars, serverVars,
   InstanceInv, InstanceTypeOK, Locked, Staged, Owned, InitResumable, ReadyIsComplete,
   Idle, InitStages, ServerStages, SettingsStages, SecretStages

\* The socket of a dead process is replaced (listenAdminSocket).
LEMMA ListenAdminSocketKeeps ==
  ASSUME InstanceInv, NEW p \in Processes, ListenAdminSocket(p)
  PROVE  InstanceInv'
BY InstanceAssumption DEF ListenAdminSocket, files, initVars, serverVars,
   InstanceInv, InstanceTypeOK, Locked, Staged, Owned, InitResumable, ReadyIsComplete,
   Idle, InitStages, ServerStages, SettingsStages, SecretStages

\* The loops start on the process's own socket (RunWithAdmin).
LEMMA ServeKeeps ==
  ASSUME InstanceInv, NEW p \in Processes, Serve(p)
  PROVE  InstanceInv'
BY InstanceAssumption DEF Serve, files, initVars, serverVars,
   InstanceInv, InstanceTypeOK, Locked, Staged, Owned, InitResumable, ReadyIsComplete,
   Idle, InitStages, ServerStages, SettingsStages, SecretStages

\* A shutdown removes the process's own socket (ownedAdminListener.Close).
LEMMA DrainKeeps ==
  ASSUME InstanceInv, NEW p \in Processes, Drain(p)
  PROVE  InstanceInv'
BY InstanceAssumption DEF Drain, OwnPathRemoved, files, initVars, serverVars,
   InstanceInv, InstanceTypeOK, Locked, Staged, Owned, InitResumable, ReadyIsComplete,
   Idle, InitStages, ServerStages, SettingsStages, SecretStages

\* The loops have returned (RunWithAdmin).
LEMMA FinishServingKeeps ==
  ASSUME InstanceInv, NEW p \in Processes, FinishServing(p)
  PROVE  InstanceInv'
BY InstanceAssumption DEF FinishServing, files, initVars, serverVars,
   InstanceInv, InstanceTypeOK, Locked, Staged, Owned, InitResumable, ReadyIsComplete,
   Idle, InitStages, ServerStages, SettingsStages, SecretStages

\* The lock is released last, after the process's own socket (Instance.Close).
LEMMA CloseInstanceKeeps ==
  ASSUME InstanceInv, NEW p \in Processes, CloseInstance(p)
  PROVE  InstanceInv'
BY InstanceAssumption DEF CloseInstance, OwnPathRemoved, files, initVars, serverVars,
   InstanceInv, InstanceTypeOK, Locked, Staged, Owned, InitResumable, ReadyIsComplete,
   Idle, InitStages, ServerStages, SettingsStages, SecretStages

\* A dead process leaves its socket and no lock.
LEMMA CrashKeeps ==
  ASSUME InstanceInv, NEW p \in Processes, Crash(p)
  PROVE  InstanceInv'
BY InstanceAssumption DEF Crash, files, initVars, serverVars,
   InstanceInv, InstanceTypeOK, Locked, Staged, Owned, InitResumable, ReadyIsComplete,
   Idle, InitStages, ServerStages, SettingsStages, SecretStages

\* Every step on the state directory keeps its invariant.
LEMMA InstanceKept ==
  ASSUME InstanceInv, NEW p \in Processes, InstanceStep(p)
  PROVE  InstanceInv'
<1>1. CASE Initialize(p)
  BY <1>1, AcquireInitializationLeaseKeeps, MarkInitializingKeeps, LoadSettingsKeeps,
     SaveSettingsKeeps, LoadSecretKeeps, WriteSecretKeeps, PrepareDatabaseKeeps,
     CreateSchemaKeeps, CompleteInitKeeps, AbandonInitKeeps, Zenon DEF Initialize
<1>2. QED
  BY <1>1, OpenForServeKeeps, ListenAdminSocketKeeps, ServeKeeps, DrainKeeps,
     FinishServingKeeps, CloseInstanceKeeps, CrashKeeps, Zenon DEF InstanceStep

\* So does a step that leaves the directory and its processes alone.
LEMMA InstanceStutters == InstanceInv /\ UNCHANGED instanceVars => InstanceInv'
BY DEF instanceVars, files, initVars, serverVars, InstanceInv, InstanceTypeOK, Locked, Staged,
   Owned, InitResumable, ReadyIsComplete

\* The lock has one holder, so one process works on the database.
LEMMA OwnedIsOneServer == InstanceInv => OneServer
BY DEF InstanceInv, Owned, OneServer

\* What an action may not change on disk.
Kept ==
  /\ settings # None => settings' = settings
  /\ secret # None => secret' = secret
  /\ database \in Identities => database' = database
  /\ marker = "ready" => marker' = "ready"

\* No step changes settings, secret or database identity that are there, or takes back
\* "ready": the steps that write them run at stages in which they are missing.
LEMMA FilesKept ==
  ASSUME InstanceInv, NEW p \in Processes, InstanceStep(p)
  PROVE  Kept
<1>1. CASE \/ \E requested \in Listeners \union {None} : AcquireInitializationLease(p, requested)
           \/ LoadSettings(p) \/ LoadSecret(p) \/ AbandonInit(p)
           \/ ListenAdminSocket(p) \/ Serve(p) \/ Drain(p) \/ FinishServing(p)
           \/ CloseInstance(p) \/ Crash(p)
  BY <1>1 DEF AcquireInitializationLease, LoadSettings, LoadSecret, AbandonInit,
     ListenAdminSocket, Serve, Drain, FinishServing, CloseInstance, Crash, files, Kept
<1>2. CASE MarkInitializing(p) \/ CompleteInit(p)
  BY <1>2 DEF MarkInitializing, CompleteInit, Kept
<1>3. CASE SaveSettings(p) \/ WriteSecret(p)
  BY <1>3 DEF SaveSettings, WriteSecret, At, InstanceInv, Staged, Kept
<1>4. CASE PrepareDatabase(p)
  BY <1>4, InstanceAssumption DEF PrepareDatabase, Kept
<1>5. CASE CreateSchema(p)
  <2>1. initializer[p].identity = settings.identity
    BY <1>5 DEF CreateSchema, At, InstanceInv, Staged, SettingsStages
  <2>2. QED
    BY <1>5, <2>1, InstanceAssumption DEF CreateSchema, OpenStore, Kept
<1>6. CASE OpenForServe(p)
  BY <1>6, InstanceAssumption DEF OpenForServe, OpenStore, Kept
<1>7. QED
  BY <1>1, <1>2, <1>3, <1>4, <1>5, <1>6, Zenon DEF InstanceStep, Initialize

=============================================================================
