------------------------ MODULE ServerLifecycleProofs ------------------------
(***************************************************************************)
(* Proofs about ServerLifecycle for every environment, every set of demo   *)
(* projects and loopback hosts, and any requests.                          *)
(***************************************************************************)
EXTENDS ServerLifecycle, TLAPS

---------------------------------------------------------------------------
(* What an accepted environment says.                                      *)
LEMMA NonBlankFacts ==
    ASSUME NEW v
    PROVE  /\ NonBlank(v) = Unset <=> v \in {Unset, "blank"}
           /\ NonBlank(v) # Unset => NonBlank(v) = v
  BY DEF NonBlank, Unset

LEMMA AcceptedLocal ==
    ASSUME NEW e, ConfigAccepts(e),
           ConfigOf(e).auth_host # Unset \/ ConfigOf(e).store_host # Unset
    PROVE  /\ ConfigOf(e).auth_host # Unset /\ ConfigOf(e).store_host # Unset
           /\ {e.FIREBASE_AUTH_EMULATOR_HOST, e.FIRESTORE_EMULATOR_HOST} \subseteq LoopbackHosts
           /\ ConfigOf(e).firebase_project \in DemoProjects
           /\ ConfigOf(e).google_project = ConfigOf(e).firebase_project
           /\ e.APP_ENVIRONMENT \in {Unset, "blank", "development", "test"}
           /\ e.K_SERVICE \in {Unset, "blank"}
  <1> DEFINE c == ConfigOf(e)
  <1>1. /\ c.auth_host = NonBlank(e.FIREBASE_AUTH_EMULATOR_HOST)
        /\ c.store_host = NonBlank(e.FIRESTORE_EMULATOR_HOST)
        /\ c.environment = First(e.APP_ENVIRONMENT, "development")
    BY DEF ConfigOf
  <1>2. ValidateEmulators(c)
    BY DEF ConfigAccepts
  <1> HIDE DEF c
  <1>3. /\ c.auth_host # Unset /\ c.store_host # Unset
        /\ EmulatorHostIsLoopback(c, c.auth_host) /\ EmulatorHostIsLoopback(c, c.store_host)
        /\ c.firebase_project \in DemoProjects /\ c.google_project = c.firebase_project
    BY <1>2 DEF ValidateEmulators, c
  <1>4. {e.FIREBASE_AUTH_EMULATOR_HOST, e.FIRESTORE_EMULATOR_HOST} \subseteq LoopbackHosts
    BY <1>1, <1>3, NonBlankFacts DEF EmulatorHostIsLoopback
  <1>5. c.environment \in {"development", "test"}
    BY <1>3 DEF EmulatorHostIsLoopback, AllowsLocalEmulators
  <1>6. e.APP_ENVIRONMENT \in {Unset, "blank", "development", "test"}
    BY <1>1, <1>5, NonBlankFacts DEF First
  <1>7. e.K_SERVICE \in {Unset, "blank"}
    <2>1. NonBlank(e.K_SERVICE) = Unset
      BY <1>5 DEF ConfigAccepts, c
    <2> QED
      BY <2>1, NonBlankFacts
  <1> QED
    BY <1>3, <1>4, <1>6, <1>7 DEF c

LEMMA AcceptedCloudRun ==
    ASSUME NEW e, ConfigAccepts(e), e.K_SERVICE \notin {Unset, "blank"}
    PROVE  /\ e.APP_ENVIRONMENT = "production"
           /\ ConfigOf(e).auth_host = Unset
           /\ ConfigOf(e).firebase_project = e.FIREBASE_PROJECT_ID
           /\ e.FIREBASE_PROJECT_ID \notin {Unset, "blank"}
  <1>1. NonBlank(e.K_SERVICE) # Unset
    BY NonBlankFacts
  <1>2. First(e.APP_ENVIRONMENT, "development") = "production"
    BY <1>1 DEF ConfigAccepts, ConfigOf
  <1>3. NonBlank(e.FIREBASE_PROJECT_ID) # Unset
    BY <1>1 DEF ConfigAccepts
  <1>4. e.APP_ENVIRONMENT = "production"
    BY <1>2 DEF First
  <1>5. ConfigOf(e).firebase_project = e.FIREBASE_PROJECT_ID
    BY <1>3 DEF ConfigOf, First
  <1>6. ConfigOf(e).auth_host = Unset
    BY AcceptedLocal
  <1>7. e.FIREBASE_PROJECT_ID \notin {Unset, "blank"}
    BY <1>3, NonBlankFacts
  <1> QED
    BY <1>4, <1>5, <1>6, <1>7

---------------------------------------------------------------------------
LEMMA InitIndInv == Init => IndInv
  BY DEF Init, IndInv, TypeOK, NoConfig, NoService, Running, Signals, AtWork,
         NoRequestCutOff, ListenersOff

(* The steps of the startup.                                               *)
Startup == FromEnv \/ InitTracing \/ NewFirestore \/ NewAuthVerifier \/ Bind

LEMMA StartupStep == IndInv /\ Startup => IndInv'
  <1> SUFFICES ASSUME IndInv, Startup PROVE IndInv'
    OBVIOUS
  <1>1. /\ UNCHANGED <<env, listeners, caught, requests>>
        /\ AtWork = {} /\ caught = {}
        /\ phase \in {"config", "tracing", "store", "auth", "bind"}
        /\ phase' = "exited" => exit' = [how |-> "startup_error", by |-> "none"]
        /\ phase' # "exited" => exit' = exit
    BY DEF Startup, FromEnv, InitTracing, NewFirestore, NewAuthVerifier, Bind, Start, Fails,
           Exit, IndInv
  <1>2. AtWork' = {} /\ NoRequestCutOff' /\ ListenersOff'
    BY <1>1 DEF AtWork, NoRequestCutOff, ListenersOff, IndInv
  <1>3. CASE phase' = "exited" /\ UNCHANGED <<config, store, verifier>>
    <2>1. TypeOK'
      BY <1>1, <1>3 DEF IndInv, TypeOK
    <2> QED
      BY <1>1, <1>2, <1>3, <2>1 DEF IndInv
  <1>4. CASE FromEnv
    <2>1. CASE ConfigAccepts(env)
      <3>1. phase' = "tracing" /\ config' = ConfigOf(env) /\ phase = "config" /\ exit' = exit
            /\ UNCHANGED <<store, verifier>>
        BY <1>4, <2>1 DEF FromEnv, Start, Fails, Exit
      <3>2. TypeOK'
        BY <1>1, <3>1 DEF IndInv, TypeOK
      <3>3. exit = Running
        BY <3>1 DEF IndInv
      <3> QED
        BY <1>1, <1>2, <2>1, <3>1, <3>2, <3>3 DEF IndInv
    <2>2. CASE ~ConfigAccepts(env)
      BY <1>3, <1>4, <2>2 DEF FromEnv, Start, Fails, Exit
    <2> QED
      BY <2>1, <2>2
  <1>5. CASE InitTracing
    <2>1. CASE phase' = "store"
      <3>1. phase = "tracing" /\ exit' = exit /\ UNCHANGED <<config, store, verifier>>
        BY <1>5, <2>1 DEF InitTracing, Start, Fails, Exit
      <3>2. TypeOK'
        BY <1>1, <2>1, <3>1 DEF IndInv, TypeOK
      <3> QED
        BY <1>1, <1>2, <2>1, <3>1, <3>2 DEF IndInv
    <2> QED
      BY <1>3, <1>5, <2>1 DEF InitTracing, Start, Fails, Exit
  <1>6. CASE NewFirestore
    <2>1. config = ConfigOf(env) /\ ConfigAccepts(env) /\ ValidateEmulators(config)
      BY <1>6 DEF IndInv, ConfigAccepts, NewFirestore, Start
    <2>2. phase' = "auth" /\ phase = "store" /\ exit' = exit /\ UNCHANGED <<config, verifier>>
      BY <1>6, <2>1 DEF NewFirestore, Start, Fails, Exit
    <2>3. store' = [kind |-> IF ConfigOf(env).store_host # Unset THEN "emulator" ELSE "live",
                    project |-> ConfigOf(env).google_project]
      BY <1>6, <2>1 DEF NewFirestore
    <2>4. store'.kind \in {"emulator", "live"} /\ store' # NoService
      <3>1. store'.kind \in {"emulator", "live"}
        BY <2>3
      <3> QED
        BY <3>1 DEF NoService
    <2>5. verifier' # NoService => verifier' = [kind |-> IF ConfigOf(env).auth_host # Unset
                                                         THEN "emulator" ELSE "live",
                                                project |-> ConfigOf(env).firebase_project]
      BY <2>2 DEF IndInv
    <2>6. TypeOK'
      BY <1>1, <2>2, <2>4 DEF IndInv, TypeOK
    <2>7. config' = ConfigOf(env) /\ exit' = Running
      BY <2>1, <2>2 DEF IndInv
    <2> HIDE DEF ConfigOf, ConfigAccepts
    <2> QED
      BY <1>1, <1>2, <2>1, <2>2, <2>3, <2>4, <2>5, <2>6, <2>7 DEF IndInv
  <1>7. CASE NewAuthVerifier
    <2>1. CASE phase' = "bind"
      <3>1. phase = "auth" /\ exit' = exit /\ UNCHANGED <<config, store>>
        BY <1>7, <2>1 DEF NewAuthVerifier, Start, Fails, Exit
      <3>2. config = ConfigOf(env) /\ ConfigAccepts(env) /\ exit = Running /\ store # NoService
        BY <3>1 DEF IndInv
      <3>3. verifier' = [kind |-> IF ConfigOf(env).auth_host # Unset THEN "emulator" ELSE "live",
                         project |-> ConfigOf(env).firebase_project]
        BY <1>7, <2>1, <3>2 DEF NewAuthVerifier
      <3>4. verifier'.kind \in {"emulator", "live"}
        BY <3>3
      <3>5. TypeOK'
        BY <1>1, <2>1, <3>1, <3>4 DEF IndInv, TypeOK
      <3>6. /\ ConfigAccepts(env)
            /\ store = [kind |-> IF ConfigOf(env).store_host # Unset THEN "emulator" ELSE "live",
                        project |-> ConfigOf(env).google_project]
        BY <3>2 DEF IndInv
      <3> QED
        BY <1>1, <1>2, <2>1, <3>1, <3>2, <3>3, <3>5, <3>6 DEF IndInv
    <2>2. CASE phase' = "exited"
      BY <1>3, <1>7, <2>2 DEF NewAuthVerifier
    <2> QED
      BY <1>7, <2>1, <2>2 DEF NewAuthVerifier, Start, Fails, Exit
  <1>8. CASE Bind
    <2>1. CASE phase' = "serving"
      <3>1. phase = "bind" /\ exit' = exit /\ UNCHANGED <<config, store, verifier>>
        BY <1>8, <2>1 DEF Bind, Start, Fails, Exit
      <3>2. TypeOK'
        BY <1>1, <2>1, <3>1 DEF IndInv, TypeOK
      <3> QED
        BY <1>1, <1>2, <2>1, <3>1, <3>2 DEF IndInv
    <2> QED
      BY <1>3, <1>8, <2>1 DEF Bind, Start, Fails, Exit
  <1> QED
    BY <1>4, <1>5, <1>6, <1>7, <1>8 DEF Startup

---------------------------------------------------------------------------
(* The steps that leave the configuration and the services alone.          *)
LEMMA ListenStep ==
    ASSUME IndInv, NEW signal \in Signals, Listen(signal)
    PROVE  IndInv'
  <1>1. /\ phase = "serving" /\ listeners' \in [Signals -> {"off", "listening", "failed", "closed"}]
        /\ UNCHANGED <<env, config, phase, store, verifier, caught, requests, exit>>
    BY DEF Listen, IndInv, TypeOK
  <1>2. TypeOK'
    BY <1>1 DEF IndInv, TypeOK
  <1> QED
    BY <1>1, <1>2 DEF IndInv, NoRequestCutOff, AtWork

LEMMA StreamClosesStep == IndInv /\ StreamCloses => IndInv'
  <1> SUFFICES ASSUME IndInv, StreamCloses PROVE IndInv'
    OBVIOUS
  <1>1. /\ phase = "serving" /\ listeners' \in [Signals -> {"off", "listening", "failed", "closed"}]
        /\ UNCHANGED <<env, config, phase, store, verifier, caught, requests, exit>>
    BY DEF StreamCloses, IndInv, TypeOK
  <1>2. TypeOK'
    BY <1>1 DEF IndInv, TypeOK
  <1> QED
    BY <1>1, <1>2 DEF IndInv, NoRequestCutOff, AtWork

LEMMA SignalStep ==
    ASSUME IndInv, NEW signal \in Signals, Signal(signal)
    PROVE  IndInv'
  <1>1. UNCHANGED <<env, config, store, verifier, listeners, requests>> /\ phase # "exited"
    BY DEF Signal
  <1>2. CASE listeners[signal] \in {"off", "failed"} /\ Exit("killed", signal) /\ caught' = caught
    <2>1. /\ phase' = "exited" /\ exit' = [how |-> "killed", by |-> signal]
          /\ exit'.how = "killed" /\ exit'.by = signal
      BY <1>2 DEF Exit
    <2>2. TypeOK'
      BY <1>1, <1>2, <2>1 DEF IndInv, TypeOK
    <2>3. NoRequestCutOff'
      BY <1>1, <1>2, <2>1 DEF NoRequestCutOff
    <2> QED
      BY <1>1, <2>1, <2>2, <2>3 DEF IndInv
  <1>3. CASE /\ listeners[signal] = "listening" /\ caught' = caught \cup {signal}
             /\ UNCHANGED <<phase, exit>>
    <2>1. TypeOK'
      BY <1>1, <1>3 DEF IndInv, TypeOK
    <2>2. phase \notin {"config", "tracing", "store", "auth", "bind"}
      BY <1>3 DEF IndInv, ListenersOff
    <2> QED
      BY <1>1, <1>3, <2>1, <2>2 DEF IndInv, NoRequestCutOff, AtWork, ListenersOff
  <1> QED
    BY <1>2, <1>3 DEF Signal

LEMMA WaitForShutdownStep == IndInv /\ WaitForShutdown => IndInv'
  <1> SUFFICES ASSUME IndInv, WaitForShutdown PROVE IndInv'
    OBVIOUS
  <1>1. /\ phase = "serving" /\ phase' = "draining"
        /\ UNCHANGED <<env, config, store, verifier, listeners, caught, requests, exit>>
    BY DEF WaitForShutdown
  <1>2. TypeOK'
    BY <1>1 DEF IndInv, TypeOK
  <1> QED
    BY <1>1, <1>2 DEF IndInv, NoRequestCutOff, AtWork

LEMMA RequestStep ==
    ASSUME IndInv, NEW r \in Requests, NEW from,
           NEW to \in {"none", "reading", "handling", "answered", "gone"},
           RequestGoes(r, from, to), phase \in {"serving", "draining"}
    PROVE  IndInv'
  <1>1. /\ UNCHANGED <<env, config, phase, store, verifier, listeners, caught, exit>>
        /\ requests' \in [Requests -> {"none", "reading", "handling", "answered", "gone"}]
    BY DEF RequestGoes, IndInv, TypeOK
  <1>2. TypeOK'
    BY <1>1 DEF IndInv, TypeOK
  <1> QED
    BY <1>1, <1>2 DEF IndInv, NoRequestCutOff

LEMMA ServeReturnsStep == IndInv /\ ServeReturns => IndInv'
  <1> SUFFICES ASSUME IndInv, ServeReturns PROVE IndInv'
    OBVIOUS
  <1>1. /\ phase' = "exited" /\ exit' = [how |-> "ok", by |-> "none"] /\ AtWork = {}
        /\ UNCHANGED <<env, config, store, verifier, listeners, caught, requests>>
    BY DEF ServeReturns, Exit
  <1>2. TypeOK'
    BY <1>1 DEF IndInv, TypeOK
  <1> QED
    BY <1>1, <1>2 DEF IndInv, NoRequestCutOff, AtWork

LEMMA NextIndInv == IndInv /\ [Next]_vars => IndInv'
  <1> SUFFICES ASSUME IndInv, [Next]_vars PROVE IndInv'
    OBVIOUS
  <1>1. CASE Startup
    BY <1>1, StartupStep
  <1>2. CASE \E signal \in Signals : Listen(signal) \/ Signal(signal)
    BY <1>2, ListenStep, SignalStep
  <1>3. CASE \E r \in Requests : Admit(r) \/ BodyArrives(r) \/ ClientLeaves(r) \/ Respond(r)
    BY <1>3, RequestStep DEF Admit, BodyArrives, ClientLeaves, Respond
  <1>4. CASE StreamCloses \/ WaitForShutdown \/ ServeReturns
    BY <1>4, StreamClosesStep, WaitForShutdownStep, ServeReturnsStep
  <1>5. CASE UNCHANGED vars
    BY <1>5 DEF vars, IndInv, TypeOK, NoRequestCutOff, AtWork, ListenersOff
  <1> QED
    BY <1>1, <1>2, <1>3, <1>4, <1>5 DEF Next, Startup

---------------------------------------------------------------------------
(* What each phase has built holds in every behaviour.                     *)
THEOREM LifecycleIndInv == Spec => []IndInv
  BY InitIndInv, NextIndInv, PTL DEF Spec

(* No environment starts a server that takes unsigned tokens, or keeps its *)
(* data off the live database, anywhere but on a developer's machine.      *)
THEOREM EmulatorsAreLocal == Spec => []EmulatorsStayLocal
  <1>1. IndInv => EmulatorsStayLocal
    <2> SUFFICES ASSUME IndInv, verifier # NoService
                 PROVE  EmulatorsStayLocal
      BY DEF EmulatorsStayLocal
    <2> DEFINE c == ConfigOf(env)
    <2>1. /\ ConfigAccepts(env)
          /\ store = [kind |-> IF c.store_host # Unset THEN "emulator" ELSE "live",
                      project |-> c.google_project]
          /\ verifier = [kind |-> IF c.auth_host # Unset THEN "emulator" ELSE "live",
                         project |-> c.firebase_project]
      BY DEF IndInv
    <2> HIDE DEF c
    <2>2. /\ store.kind = (IF c.store_host # Unset THEN "emulator" ELSE "live")
          /\ verifier.kind = (IF c.auth_host # Unset THEN "emulator" ELSE "live")
          /\ store.project = c.google_project /\ verifier.project = c.firebase_project
      BY <2>1
    <2>3. CASE c.auth_host # Unset \/ c.store_host # Unset
      BY <2>1, <2>2, <2>3, AcceptedLocal DEF EmulatorsStayLocal, c
    <2>4. CASE c.auth_host = Unset /\ c.store_host = Unset
      BY <2>1, <2>2, <2>4, AcceptedCloudRun DEF EmulatorsStayLocal, c
    <2> QED
      BY <2>3, <2>4
  <1> QED
    BY <1>1, LifecycleIndInv, PTL

(* A caught signal cuts off no request, whatever signals follow it.        *)
THEOREM AdmittedRequestsEnd == Spec => []NoRequestCutOff
  <1>1. IndInv => NoRequestCutOff
    BY DEF IndInv
  <1> QED
    BY <1>1, LifecycleIndInv, PTL
=============================================================================
