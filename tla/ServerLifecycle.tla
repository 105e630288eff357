--------------------------- MODULE ServerLifecycle ---------------------------
(***************************************************************************)
(* The life of the server process: the configuration it reads from its     *)
(* environment, the services it builds of it, the socket, and the shutdown *)
(* that lets the requests at work finish. Signals may come at any time;    *)
(* one that nobody listens for ends the process at once, as the system     *)
(* does by default. axum's graceful shutdown is external: it admits no     *)
(* request any more and returns when none is at work.                      *)
(*                                                                         *)
(* A variable of the environment is Unset, "blank" or has a value. A       *)
(* project is a name, of which some begin with demo-; an emulator host is  *)
(* an address, of which some are a loopback name with a usable port.       *)
(***************************************************************************)
EXTENDS Naturals

CONSTANTS
    Environments,   \* the environments the process may start in
    DemoProjects,   \* the project names that begin with demo-
    LoopbackHosts,  \* the addresses emulator_host_is_loopback accepts
    Requests        \* the requests clients may send

VARIABLES
    env,            \* the environment of the process
    config,         \* AppConfig, once it was read
    phase,          \* "config", "tracing", "store", "auth", "bind", "serving", "draining", "exited"
    store,          \* the Firestore service: of which kind, for which project
    verifier,       \* the token verifier, likewise
    listeners,      \* per signal: "off", "listening", "failed", "closed"
    caught,         \* the signals a listener received
    requests,       \* per request: "none", "reading", "handling", "answered", "gone"
    exit            \* how the process ended, and by which signal

vars == <<env, config, phase, store, verifier, listeners, caught, requests, exit>>

Unset == "unset"
Signals == {"SIGINT", "SIGTERM"}
NoConfig == [environment |-> "none"]
NoService == [kind |-> "none", project |-> Unset]
Running == [how |-> "running", by |-> "none"]

(* What a demo-* default project is named: AppConfig::from_values.         *)
DefaultProject == "demo-test-project"

ASSUME LifecycleAssumption ==
    /\ DefaultProject \in DemoProjects
    /\ Unset \notin DemoProjects /\ Unset \notin LoopbackHosts

Init ==
    /\ env \in Environments
    /\ config = NoConfig
    /\ phase = "config"
    /\ store = NoService
    /\ verifier = NoService
    /\ listeners = [signal \in Signals |-> "off"]
    /\ caught = {}
    /\ requests = [r \in Requests |-> "none"]
    /\ exit = Running

---------------------------------------------------------------------------
(* Configuration.                                                          *)

(* non_blank *)
NonBlank(value) == IF value = "blank" THEN Unset ELSE value
First(value, otherwise) == IF NonBlank(value) # Unset THEN value ELSE otherwise

(* AppEnvironment::allows_local_emulators *)
AllowsLocalEmulators(c) == c.environment \in {"development", "test"}

(* emulator_host_is_loopback *)
EmulatorHostIsLoopback(c, host) == AllowsLocalEmulators(c) /\ host \in LoopbackHosts

(* validate_emulators                                                      *)
ValidateEmulatorsOneByOne(c) ==                                    \* mutant
    \/ c.auth_host = Unset /\ c.store_host = Unset
    \/ /\ \A host \in {c.auth_host, c.store_host} \ {Unset} : EmulatorHostIsLoopback(c, host)
       /\ c.firebase_project \in DemoProjects
       /\ c.google_project = c.firebase_project
ValidateEmulators(c) ==
    \/ c.auth_host = Unset /\ c.store_host = Unset
    \/ /\ \A host \in {c.auth_host, c.store_host} \ {Unset} : EmulatorHostIsLoopback(c, host)
       /\ c.auth_host # Unset /\ c.store_host # Unset
       /\ c.firebase_project \in DemoProjects
       /\ c.google_project = c.firebase_project

(* resolved_google_project_id                                              *)
GoogleProject(e, firebase_project) ==
    First(e.GOOGLE_CLOUD_PROJECT,
          First(e.GCP_PROJECT, First(e.GCLOUD_PROJECT, First(e.PROJECT_ID, firebase_project))))

(* from_values: what it makes of an environment ...                        *)
ConfigOf(e) ==
    LET project == First(e.FIREBASE_PROJECT_ID, DefaultProject)
    IN  [environment      |-> First(e.APP_ENVIRONMENT, "development"),
         firebase_project |-> project,
         google_project   |-> GoogleProject(e, project),
         auth_host        |-> NonBlank(e.FIREBASE_AUTH_EMULATOR_HOST),
         store_host       |-> NonBlank(e.FIRESTORE_EMULATOR_HOST)]

(* ... and which environments it refuses.                                  *)
ConfigAccepts(e) ==
    /\ e.PORT # "invalid"
    /\ ConfigOf(e).environment \in {"development", "test", "production"}
    /\ NonBlank(e.K_SERVICE) # Unset =>
           /\ ConfigOf(e).environment = "production"
           /\ NonBlank(e.FIREBASE_PROJECT_ID) # Unset
    /\ ValidateEmulators(ConfigOf(e))

---------------------------------------------------------------------------
(* Startup: main and AppState::new. Every step may end it.                 *)
Exit(how, by) ==
    /\ phase' = "exited"
    /\ exit' = [how |-> how, by |-> by]

Fails == Exit("startup_error", "none") /\ UNCHANGED <<config, store, verifier>>

Start(from, to) ==
    /\ phase = from
    /\ UNCHANGED <<env, listeners, caught, requests>>
    /\ \/ Fails
       \/ phase' = to /\ UNCHANGED exit

FromEnv ==
    /\ Start("config", "tracing")
    /\ phase' = "tracing" <=> ConfigAccepts(env)
    /\ config' = IF ConfigAccepts(env) THEN ConfigOf(env) ELSE config
    /\ UNCHANGED <<store, verifier>>

InitTracing ==
    /\ Start("tracing", "store")
    /\ UNCHANGED <<config, store, verifier>>

(* ProfileService::firestore *)
NewFirestore ==
    /\ Start("store", "auth")
    /\ phase' = "auth" <=> ValidateEmulators(config)
    /\ store' = IF ~ValidateEmulators(config) THEN store
                ELSE [kind |-> IF config.store_host # Unset THEN "emulator" ELSE "live",
                      project |-> config.google_project]
    /\ UNCHANGED <<config, verifier>>

(* AuthVerifier::from_config: building the production verifier needs       *)
(* credentials and an HTTP client.                                         *)
NewAuthVerifier ==
    /\ Start("auth", "bind")
    /\ ~ValidateEmulators(config) => phase' = "exited"
    /\ ValidateEmulators(config) /\ config.auth_host # Unset => phase' = "bind"
    /\ verifier' = IF phase' = "exited" THEN verifier
                   ELSE [kind |-> IF config.auth_host # Unset THEN "emulator" ELSE "live",
                         project |-> config.firebase_project]
    /\ UNCHANGED <<config, store>>

Bind ==
    /\ Start("bind", "serving")
    /\ UNCHANGED <<config, store, verifier>>

---------------------------------------------------------------------------
(* Serving and shutdown.                                                   *)

(* The shutdown future is first polled some time after the socket is open; *)
(* only then does each branch install its listener, or fail to and pend.   *)
Listen(signal) ==
    /\ phase = "serving"
    /\ listeners[signal] = "off"
    /\ \E outcome \in {"listening", "failed"} :
           listeners' = [listeners EXCEPT ![signal] = outcome]
    /\ UNCHANGED <<env, config, phase, store, verifier, caught, requests, exit>>

(* The stream of SIGTERM closes: the branch pends, its handler stays.      *)
StreamCloses ==
    /\ phase = "serving"
    /\ listeners["SIGTERM"] = "listening" /\ "SIGTERM" \notin caught
    /\ listeners' = [listeners EXCEPT !["SIGTERM"] = "closed"]
    /\ UNCHANGED <<env, config, phase, store, verifier, caught, requests, exit>>

(* A signal. A handler once installed stays, so that a second signal does  *)
(* not end a server that drains.                                           *)
Signal(signal) ==
    /\ phase # "exited"
    /\ \/ /\ listeners[signal] \in {"off", "failed"}
          /\ Exit("killed", signal)
          /\ UNCHANGED caught
       \/ /\ listeners[signal] = "listening"
          /\ caught' = caught \cup {signal}
          /\ UNCHANGED <<phase, exit>>
    /\ UNCHANGED <<env, config, store, verifier, listeners, requests>>

(* wait_for_shutdown: the first branch to complete decides.                *)
WaitForBoth ==                                                     \* mutant
    /\ phase = "serving"
    /\ caught = Signals
    /\ phase' = "draining"
    /\ UNCHANGED <<env, config, store, verifier, listeners, caught, requests, exit>>
WaitForShutdown ==
    /\ phase = "serving"
    /\ caught # {}
    /\ phase' = "draining"
    /\ UNCHANGED <<env, config, store, verifier, listeners, caught, requests, exit>>

(* One request: admitted, its body read as fast as the client sends it,    *)
(* handled under the deadlines of the services, answered.                  *)
RequestGoes(r, from, to) ==
    /\ requests[r] = from
    /\ requests' = [requests EXCEPT ![r] = to]
    /\ UNCHANGED <<env, config, phase, store, verifier, listeners, caught, exit>>

AtWork == {r \in Requests : requests[r] \in {"reading", "handling"}}
Admit(r) == phase = "serving" /\ RequestGoes(r, "none", "reading")
BodyArrives(r) == phase \in {"serving", "draining"} /\ RequestGoes(r, "reading", "handling")
ClientLeaves(r) ==
    /\ phase \in {"serving", "draining"}
    /\ RequestGoes(r, "reading", "gone") \/ RequestGoes(r, "handling", "gone")
Respond(r) == phase \in {"serving", "draining"} /\ RequestGoes(r, "handling", "answered")

(* serve returns, and main with it.                                        *)
ServeReturnsAtOnce ==                                              \* mutant
    /\ phase = "draining"
    /\ Exit("ok", "none")
    /\ UNCHANGED <<env, config, store, verifier, listeners, caught, requests>>
ServeReturns ==
    /\ phase = "draining"
    /\ AtWork = {}
    /\ Exit("ok", "none")
    /\ UNCHANGED <<env, config, store, verifier, listeners, caught, requests>>

Next ==
    \/ FromEnv \/ InitTracing \/ NewFirestore \/ NewAuthVerifier \/ Bind
    \/ \E signal \in Signals : Listen(signal) \/ Signal(signal)
    \/ StreamCloses \/ WaitForShutdown \/ ServeReturns
    \/ \E r \in Requests : Admit(r) \/ BodyArrives(r) \/ ClientLeaves(r) \/ Respond(r)

Spec == Init /\ [][Next]_vars
(* The runtime polls what is ready. A client ends what it began or leaves; *)
(* no deadline of the server makes it. Handlers end by their own deadlines.*)
FairSpec ==
    /\ Spec
    /\ WF_vars(WaitForShutdown) /\ WF_vars(ServeReturns)
    /\ \A r \in Requests : WF_vars(BodyArrives(r) \/ ClientLeaves(r)) /\ WF_vars(Respond(r))

---------------------------------------------------------------------------
(* Every variable but the environment, which never changes, has its type.  *)
TypeOK ==
    /\ config \in {NoConfig, ConfigOf(env)}
    /\ phase \in {"config", "tracing", "store", "auth", "bind", "serving", "draining", "exited"}
    /\ store.kind \in {"none", "emulator", "live"}
    /\ verifier.kind \in {"none", "emulator", "live"}
    /\ listeners \in [Signals -> {"off", "listening", "failed", "closed"}]
    /\ caught \subseteq Signals
    /\ requests \in [Requests -> {"none", "reading", "handling", "answered", "gone"}]
    /\ exit \in [how : {"running", "startup_error", "killed", "ok"}, by : Signals \cup {"none"}]

(* A token is taken without its signature, and data is kept off the live   *)
(* database, only on a developer's machine: if either service is an        *)
(* emulator's then both are, their hosts are loopback, both serve one and  *)
(* the same demo project, the environment does not say production and      *)
(* nothing says Cloud Run. On Cloud Run the tokens accepted are those of   *)
(* the project that was named explicitly.                                  *)
EmulatorsStayLocal ==
    verifier # NoService =>
        /\ "emulator" \in {verifier.kind, store.kind} =>
               /\ verifier.kind = "emulator" /\ store.kind = "emulator"
               /\ verifier.project = store.project /\ store.project \in DemoProjects
               /\ {env.FIREBASE_AUTH_EMULATOR_HOST, env.FIRESTORE_EMULATOR_HOST}
                      \subseteq LoopbackHosts
               /\ env.APP_ENVIRONMENT \in {Unset, "blank", "development", "test"}
               /\ env.K_SERVICE \in {Unset, "blank"}
        /\ env.K_SERVICE \notin {Unset, "blank"} =>
               /\ env.APP_ENVIRONMENT = "production"
               /\ verifier = [kind |-> "live", project |-> env.FIREBASE_PROJECT_ID]
               /\ env.FIREBASE_PROJECT_ID \notin {Unset, "blank"}

(* A request that was admitted is answered, or left by its client, before  *)
(* the process ends: a caught signal never cuts it off, a second one       *)
(* neither. Only a signal whose listener could not be installed, or was    *)
(* not yet, does.                                                          *)
NoRequestCutOff ==
    phase = "exited" /\ AtWork # {} =>
        exit.how = "killed" /\ exit.by \in Signals /\ listeners[exit.by] \in {"off", "failed"}

ListenersOff == listeners = [signal \in Signals |-> "off"]

(* The strengthening: what each phase of the startup has built.            *)
IndInv ==
    /\ TypeOK
    /\ phase \in {"tracing", "store", "auth", "bind", "serving", "draining"} =>
           ConfigAccepts(env) /\ config = ConfigOf(env)
    /\ phase # "exited" => exit = Running
    /\ phase \in {"auth", "bind", "serving", "draining"} => store # NoService
    /\ store # NoService =>
           /\ ConfigAccepts(env)
           /\ store = [kind |-> IF ConfigOf(env).store_host # Unset THEN "emulator" ELSE "live",
                       project |-> ConfigOf(env).google_project]
    /\ verifier # NoService =>
           /\ store # NoService
           /\ verifier = [kind |-> IF ConfigOf(env).auth_host # Unset THEN "emulator" ELSE "live",
                          project |-> ConfigOf(env).firebase_project]
    /\ phase \in {"config", "tracing", "store", "auth", "bind"} =>
           AtWork = {} /\ caught = {} /\ ListenersOff
    /\ NoRequestCutOff

(* Either signal alone, whatever became of the listener for the other one, *)
(* ends the server, once its clients have finished or left.                *)
EventuallyExits == caught # {} ~> phase = "exited"
=============================================================================
