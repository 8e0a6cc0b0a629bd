------------------------------ MODULE Instance ------------------------------
(***************************************************************************)
(* The state directory of one server instance (internal/instance,          *)
(* internal/config) and the processes that work on it: `sshserver init`,   *)
(* which builds the directory file by file and can be run again after it   *)
(* was cut short, and `sshserver serve`, which opens the finished          *)
(* directory, listens on the HTTP ports and on the enrollment socket, and  *)
(* shuts down in a fixed order (internal/server).                          *)
(*                                                                         *)
(* Every file is replaced atomically (WriteFileAtomic renames a synced     *)
(* temporary file), so one step is one file.  A process that stops between *)
(* two steps, for whatever reason, is AbandonInit or Crash: a step that    *)
(* fails after its effect is the same as stopping at the next one.         *)
(* The two lock files are flocks: the kernel drops them with the process.  *)
(***************************************************************************)
EXTENDS Naturals

CONSTANTS Processes,    \* processes run on the state directory
          Identities,   \* instance and vault identifiers
          Secrets,      \* instance secrets
          Listeners,    \* listener lists `init --listen` may ask for
          Default,      \* the listener list of an init without --listen
          None

ASSUME InstanceAssumption ==
          /\ None \notin Processes \union Identities \union Secrets \union Listeners
          /\ None \notin [identity : Identities, listeners : Listeners]
          /\ Identities # {}
          /\ "empty" \notin Identities
          /\ "stale" \notin Processes
          /\ Default \in Listeners
          /\ \E s, t \in Secrets : s # t

VARIABLES marker,       \* install-state.json: its phase, or "absent"
          settings,     \* config.json: identity and listeners, or None
          secret,       \* the instance-secret file, or None
          database,     \* server.db: None, "empty", or the identity it records
          instanceLock, \* the process holding .instance.lock, or None
          initializer,  \* each process's progress through initializeWithLease
          serverLock,   \* the process holding .server.lock, or None
          server,       \* each process's progress through runServe
          socket        \* .enrollment.sock: None, its owner, or "stale"

files == <<marker, settings, secret, database>>
initVars == <<instanceLock, initializer>>
serverVars == <<serverLock, server, socket>>
instanceVars == <<files, initVars, serverVars>>

InitStages == {"marker", "load_settings", "save_settings", "load_secret", "save_secret",
               "open_database", "create_schema", "complete"}

ServerStages == {"down", "open", "listening", "serving", "draining", "closing"}

\* No initialization under way in the process.
Idle == [stage |-> "idle", requested |-> None, identity |-> None]

InstanceInit ==
  /\ marker = "absent"
  /\ settings = None
  /\ secret = None
  /\ database = None
  /\ instanceLock = None
  /\ initializer = [p \in Processes |-> Idle]
  /\ serverLock = None
  /\ server = [p \in Processes |-> "down"]
  /\ socket = None

(***************************************************************************)
(* Initialization.                                                         *)
(***************************************************************************)
\* Mutant: the flock is not tested.
LockIgnored(lock) == TRUE

\* acquireNamedLock.
LockFree(lock) == lock = None

\* A process takes .instance.lock, or is told that another initialization is running.
\* A nil listener request is None.  On a ready directory the initialization validates and
\* changes nothing, so it is not a step.
AcquireInitializationLease(p, requested) ==
  /\ initializer[p] = Idle
  /\ marker # "ready"
  /\ LockFree(instanceLock)
  /\ instanceLock' = p
  /\ initializer' = [initializer EXCEPT ![p] = [stage |-> "marker", requested |-> requested,
                                                identity |-> None]]
  /\ UNCHANGED <<files, serverVars>>

\* The initializer of p goes on to a stage.
Proceed(p, stage) ==
  /\ initializer' = [initializer EXCEPT ![p].stage = stage]
  /\ UNCHANGED <<instanceLock, serverVars>>

At(p, stage) == initializer[p].stage = stage

MarkInitializing(p) ==
  /\ At(p, "marker")
  /\ marker # "ready"
  /\ marker' = "initializing"
  /\ Proceed(p, "load_settings")
  /\ UNCHANGED <<settings, secret, database>>

\* Mutant: the new settings are not written before the secret and the database.
StartUnsaved(p) ==
  /\ settings = None
  /\ Proceed(p, "load_secret")

\* With no settings there must be neither secret nor database.
StartFresh(p) ==
  /\ settings = None
  /\ secret = None
  /\ database = None
  /\ Proceed(p, "save_settings")

\* Recorded settings are kept, and a different listener request is refused.
LoadSettings(p) ==
  /\ At(p, "load_settings")
  /\ \/ StartFresh(p)
     \/ /\ settings # None
        /\ initializer[p].requested \in {None, settings.listeners}
        /\ initializer' = [initializer EXCEPT ![p].stage = "load_secret",
                                              ![p].identity = settings.identity]
        /\ UNCHANGED <<instanceLock, serverVars>>
  /\ UNCHANGED files

\* NewSettings draws identifiers nobody has.
NewIdentity ==
  CHOOSE i \in Identities : /\ settings # None => settings.identity # i
                            /\ database # i
                            /\ \A q \in Processes : initializer[q].identity # i

SaveSettings(p) ==
  LET requested == initializer[p].requested
      identity == NewIdentity
  IN  /\ At(p, "save_settings")
      /\ settings' = [identity  |-> identity,
                      listeners |-> IF requested = None THEN Default ELSE requested]
      /\ initializer' = [initializer EXCEPT ![p].stage = "load_secret",
                                            ![p].identity = identity]
      /\ UNCHANGED <<marker, secret, database, instanceLock, serverVars>>

LoadSecret(p) ==
  /\ At(p, "load_secret")
  /\ Proceed(p, IF secret = None THEN "save_secret" ELSE "open_database")
  /\ UNCHANGED files

WriteSecret(p) ==
  /\ At(p, "save_secret")
  /\ secret' = CHOOSE drawn \in Secrets : drawn # secret
  /\ Proceed(p, "open_database")
  /\ UNCHANGED <<marker, settings, database>>

\* Mutant: the installation counts as complete before the schema is committed.
PrepareOnly(p) ==
  /\ At(p, "open_database")
  /\ database' = IF database = None THEN "empty" ELSE database
  /\ Proceed(p, "complete")
  /\ UNCHANGED <<marker, settings, secret>>

\* store.Open creates an empty protected file first,
PrepareDatabase(p) ==
  /\ At(p, "open_database")
  /\ database' = IF database = None THEN "empty" ELSE database
  /\ Proceed(p, "create_schema")
  /\ UNCHANGED <<marker, settings, secret>>

\* then creates the schema with the identity, or refuses a database of another identity.
OpenStore(identity) ==
  /\ database \in {None, "empty", identity}
  /\ database' = identity

CreateSchema(p) ==
  /\ At(p, "create_schema")
  /\ OpenStore(initializer[p].identity)
  /\ Proceed(p, "complete")
  /\ UNCHANGED <<marker, settings, secret>>

CompleteInit(p) ==
  /\ At(p, "complete")
  /\ marker' = "ready"
  /\ instanceLock' = None
  /\ initializer' = [initializer EXCEPT ![p] = Idle]
  /\ UNCHANGED <<settings, secret, database, serverVars>>

\* The initialization of p ends early: refused, failed or killed.
AbandonInit(p) ==
  /\ initializer[p] # Idle
  /\ instanceLock' = IF instanceLock = p THEN None ELSE instanceLock
  /\ initializer' = [initializer EXCEPT ![p] = Idle]
  /\ UNCHANGED <<files, serverVars>>

Initialize(p) ==
  \/ \E requested \in Listeners \union {None} : AcquireInitializationLease(p, requested)
  \/ MarkInitializing(p)
  \/ LoadSettings(p)
  \/ SaveSettings(p)
  \/ LoadSecret(p)
  \/ WriteSecret(p)
  \/ PrepareDatabase(p)
  \/ CreateSchema(p)
  \/ CompleteInit(p)
  \/ AbandonInit(p)

(***************************************************************************)
(* The server process.                                                     *)
(***************************************************************************)
OpenForServe(p) ==
  /\ server[p] = "down"
  /\ LockFree(serverLock)
  /\ marker = "ready"
  /\ settings # None
  /\ secret # None
  /\ OpenStore(settings.identity)
  /\ serverLock' = p
  /\ server' = [server EXCEPT ![p] = "open"]
  /\ UNCHANGED <<marker, settings, secret, initVars, socket>>

\* listenHTTP and listenAdminSocket: a socket somebody answers on is refused, one left by
\* a dead process is replaced.
ListenAdminSocket(p) ==
  /\ server[p] = "open"
  /\ socket \in {None, "stale"}
  /\ socket' = p
  /\ server' = [server EXCEPT ![p] = "listening"]
  /\ UNCHANGED <<files, initVars, serverLock>>

\* After StartBoot the two serving loops run.
Serve(p) ==
  /\ server[p] = "listening"
  /\ server' = [server EXCEPT ![p] = "serving"]
  /\ UNCHANGED <<files, initVars, serverLock, socket>>

\* ownedAdminListener.Close removes the path only while it still names its own socket.
OwnPathRemoved(p) == IF socket = p THEN None ELSE socket

\* The context is cancelled or a loop fails: the enrollment socket is closed, and the HTTP
\* servers finish the requests in flight.
Drain(p) ==
  /\ server[p] = "serving"
  /\ socket' = OwnPathRemoved(p)
  /\ server' = [server EXCEPT ![p] = "draining"]
  /\ UNCHANGED <<files, initVars, serverLock>>

\* Both loops have returned; the last uptime checkpoint is taken.
FinishServing(p) ==
  /\ server[p] = "draining"
  /\ server' = [server EXCEPT ![p] = "closing"]
  /\ UNCHANGED <<files, initVars, serverLock, socket>>

\* runServe returns, after serving or because a start-up step failed: the listeners and
\* the database are closed, then the lock is released.
CloseInstance(p) ==
  /\ server[p] \in {"open", "listening", "closing"}
  /\ socket' = OwnPathRemoved(p)
  /\ serverLock' = IF serverLock = p THEN None ELSE serverLock
  /\ server' = [server EXCEPT ![p] = "down"]
  /\ UNCHANGED <<files, initVars>>

\* The process dies; its socket stays behind.
Crash(p) ==
  /\ server[p] # "down"
  /\ socket' = IF socket = p THEN "stale" ELSE socket
  /\ serverLock' = IF serverLock = p THEN None ELSE serverLock
  /\ server' = [server EXCEPT ![p] = "down"]
  /\ UNCHANGED <<files, initVars>>

\* The stages in which requests may be running: a shutdown gives up on slow requests after
\* five seconds, and they run on until the database is closed.
Handling == {p \in Processes : server[p] \in {"serving", "draining", "closing"}}

(***************************************************************************)
(* Properties.                                                             *)
(***************************************************************************)
\* The types of the files, the locks and the processes (instance.go, server.go).
InstanceTypeOK ==
  /\ marker \in {"absent", "initializing", "ready"}
  /\ settings \in [identity : Identities, listeners : Listeners] \union {None}
  /\ secret \in Secrets \union {None}
  /\ database \in Identities \union {"empty", None}
  /\ instanceLock \in Processes \union {None}
  /\ initializer \in [Processes -> [stage     : InitStages \union {"idle"},
                                    requested : Listeners \union {None},
                                    identity  : Identities \union {None}]]
  /\ serverLock \in Processes \union {None}
  /\ server \in [Processes -> ServerStages]
  /\ socket \in Processes \union {"stale", None}

\* A marker that says "ready" stands for a whole instance: whatever initialization was
\* interrupted or repeated, settings and secret are on disk and the database records the
\* identity of the settings (initializeWithLease writes the marker last).
ReadyIsComplete ==
  marker = "ready" => /\ settings # None
                      /\ secret # None
                      /\ database = settings.identity

\* An interrupted initialization can be run again: it never meets the refusals meant for
\* foreign files, a secret or database without settings or a database of another identity
\* (initializeWithLease writes settings before secret and database).
InitResumable ==
  /\ settings = None => secret = None /\ database = None
  /\ settings # None => database \in {None, "empty", settings.identity}

\* What clients have bound to never changes: once written, settings, secret and database
\* identity stay what they are, through repeated and concurrent initializations and
\* servers (initializeWithLease, acquireLock, store.Open).
IdentityKept ==
  [][/\ settings # None => settings' = settings
     /\ secret # None => secret' = secret
     /\ database \in Identities => database' = database
     /\ marker = "ready" => marker' = "ready"]_instanceVars

\* One process at a time works on the database, and while it serves, the enrollment socket
\* is its own: the command line always reaches the server that owns the database, also
\* after crashes that left a socket behind (OpenForServe, listenAdminSocket, Close).
OneServer ==
  \A p \in Processes : server[p] # "down" =>
     /\ \A q \in Processes \ {p} : server[q] = "down"
     /\ server[p] \in {"listening", "serving"} => socket = p
=============================================================================
