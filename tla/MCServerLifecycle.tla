-------------------------- MODULE MCServerLifecycle --------------------------
(* Instances of ServerLifecycle for TLC: an environment that starts local  *)
(* emulators with any two of its variables changed, and one of Cloud Run.  *)
EXTENDS ServerLifecycle

Local == [PORT |-> Unset, APP_ENVIRONMENT |-> "development", K_SERVICE |-> Unset,
          FIREBASE_PROJECT_ID |-> "demo-a",
          FIREBASE_AUTH_EMULATOR_HOST |-> "localhost:1", FIRESTORE_EMULATOR_HOST |-> "[::1]:2",
          GOOGLE_CLOUD_PROJECT |-> Unset, GCP_PROJECT |-> Unset, GCLOUD_PROJECT |-> Unset,
          PROJECT_ID |-> Unset]
CloudRun == [Local EXCEPT !.APP_ENVIRONMENT = "production", !.K_SERVICE = "service",
                          !.FIREBASE_PROJECT_ID = "live",
                          !.FIREBASE_AUTH_EMULATOR_HOST = Unset,
                          !.FIRESTORE_EMULATOR_HOST = Unset]

Values(name) ==
    CASE name = "PORT" -> {"8080", "invalid"}
      [] name = "APP_ENVIRONMENT" -> {Unset, "blank", "test", "production", "staging"}
      [] name = "K_SERVICE" -> {Unset, "blank", "service"}
      [] name \in {"FIREBASE_AUTH_EMULATOR_HOST", "FIRESTORE_EMULATOR_HOST"} ->
             {Unset, "blank", "remote:1", "localhost:1"}
      [] OTHER -> {Unset, "blank", "demo-a", "demo-b", "live"}

Changed(e) == UNION {{[e EXCEPT ![name] = value] : value \in Values(name)} : name \in DOMAIN e}
MCEnvironments == UNION {Changed(e) : e \in Changed(Local) \cup Changed(CloudRun)}
=============================================================================
