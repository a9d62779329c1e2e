---------------------------- MODULE StartupProofs ----------------------------
(***************************************************************************)
(* For whatever APP_ENV and VERCEL_ENV may say and any number of restarts: *)
(* what an instance serves with is what its configuration was resolved to  *)
(* and validated for.                                                      *)
(***************************************************************************)
EXTENDS Startup, TLAPS

USE MaxInstancesAssumption

(* What each phase has established.                                        *)
ResolvedAs ==
    phase \in {"resolved", "loaded", "serving", "crashed"} =>
        /\ appEnv \in AppEnvironment
        /\ appEnv = AppEnvironmentOf(config)

ValidatedFor ==
    phase \in {"loaded", "serving", "crashed"} =>
        FieldsValid(config) /\ RequirementsMet(config, appEnv)

BuiltFrom ==
    phase = "serving" =>
        /\ config.databaseUrl # "malformed"
        /\ app = [signing |-> SigningKey(config),
                  secure  |-> IsDeployed(appEnv),
                  hsts    |-> IsDeployed(appEnv),
                  detail  |-> appEnv = "development",
                  driver  |-> Driver(config)]

(* A configured key outlives the instances.                                *)
SignedWithKey ==
    issued # <<"none", 0>> /\ config.secretKey # "none" => issued = <<"configured", 0>>

IInv == TypeOK /\ ResolvedAs /\ ValidatedFor /\ BuiltFrom /\ SignedWithKey

-----------------------------------------------------------------------------
(* hosting.py as an operator.                                              *)

(* What is resolved is an environment, or the start is refused.            *)
LEMMA ResolveType ==
    ASSUME NEW c, NEW assumeHosted
    PROVE  ResolveAppEnvironment(c, assumeHosted) \in AppEnvironment \cup {Refused}
  BY DEF ResolveAppEnvironment

LEMMA AppEnvironmentType ==
    ASSUME NEW c \in Configs
    PROVE  AppEnvironmentOf(c) \in AppEnvironment \cup {Refused}
  BY ResolveType DEF AppEnvironmentOf, Configs

(* A hosted process the platform does not call a development one is        *)
(* deployed or refused, whatever APP_ENV says.                             *)
LEMMA HostedIsDeployed ==
    ASSUME NEW c \in Configs, NEW assumeHosted \in BOOLEAN,
           assumeHosted \/ DetectedAsHosted(c), c.vercelEnv # "development",
           ResolveAppEnvironment(c, assumeHosted) # Refused
    PROVE  IsDeployed(ResolveAppEnvironment(c, assumeHosted))
  <1>1. PlatformEnvironment(c) # "development"
    BY DEF PlatformEnvironment
  <1>2. QED
    BY <1>1 DEF ResolveAppEnvironment

-----------------------------------------------------------------------------
LEMMA InitIInv == Init => IInv
  <1> SUFFICES ASSUME Init PROVE IInv
    OBVIOUS
  <1>1. config \in Configs /\ phase = "starting" /\ issued = <<"none", 0>>
    BY DEF Init
  <1>2. TypeOK
    BY DEF Init, TypeOK
  <1>3. QED
    BY <1>1, <1>2 DEF IInv, ResolvedAs, ValidatedFor, BuiltFrom, SignedWithKey

LEMMA ResolveKeeps ==
    ASSUME IInv, Resolve
    PROVE  IInv'
  <1>1. /\ UNCHANGED <<config, app, instance, issued>>
        /\ appEnv' = AppEnvironmentOf(config)
        /\ phase' = IF appEnv' = Refused THEN "refused" ELSE "resolved"
    BY DEF Resolve
  <1>2. appEnv' \in AppEnvironment \cup {Refused}
    BY <1>1, AppEnvironmentType DEF IInv, TypeOK
  <1>3. TypeOK'
    BY <1>1, <1>2 DEF IInv, TypeOK
  <1>4. ResolvedAs'
    BY <1>1, <1>2 DEF ResolvedAs
  <1>5. QED
    BY <1>1, <1>3, <1>4 DEF IInv, ValidatedFor, BuiltFrom, SignedWithKey

LEMMA ValidateKeeps ==
    ASSUME IInv, Validate
    PROVE  IInv'
  <1>1. TypeOK' /\ SignedWithKey'
    BY DEF IInv, TypeOK, SignedWithKey, Validate
  <1>2. ResolvedAs'
    BY DEF IInv, ResolvedAs, Validate
  <1>3. ValidatedFor' /\ BuiltFrom'
    BY DEF Validate, ValidatedFor, BuiltFrom
  <1>4. QED
    BY <1>1, <1>2, <1>3 DEF IInv

LEMMA CreateAppKeeps ==
    ASSUME IInv, CreateApp
    PROVE  IInv'
  <1>1. phase = "loaded" /\ phase' \in {"crashed", "serving"}
    BY DEF CreateApp
  <1>2. UNCHANGED <<config, appEnv, instance, issued>>
    BY DEF CreateApp
  <1>3. BuiltFrom'
    BY DEF CreateApp, BuiltFrom, SigningKey
  <1>4. TypeOK'
    <2>1. DOMAIN app' = DOMAIN Unbuilt
      BY DEF CreateApp, Unbuilt, IInv, TypeOK
    <2>2. QED
      BY <1>1, <1>2, <2>1 DEF IInv, TypeOK, Unbuilt
  <1>5. ResolvedAs' /\ ValidatedFor'
    BY <1>1, <1>2 DEF IInv, ResolvedAs, ValidatedFor
  <1>6. SignedWithKey'
    BY <1>2 DEF IInv, SignedWithKey
  <1>7. QED
    BY <1>3, <1>4, <1>5, <1>6 DEF IInv

LEMMA SignKeeps ==
    ASSUME IInv, Sign
    PROVE  IInv'
  <1>1. UNCHANGED <<config, phase, appEnv, app, instance>>
    BY DEF Sign
  <1>2. TypeOK' /\ ResolvedAs' /\ ValidatedFor' /\ BuiltFrom'
    BY <1>1 DEF IInv, TypeOK, ResolvedAs, ValidatedFor, BuiltFrom, SigningKey
  <1>3. issued' = SigningKey(config)
    BY DEF Sign, IInv, BuiltFrom
  <1>4. SignedWithKey'
    BY <1>1, <1>3 DEF SignedWithKey, SigningKey
  <1>5. QED
    BY <1>2, <1>4 DEF IInv

LEMMA RestartKeeps ==
    ASSUME IInv, Restart
    PROVE  IInv'
  BY DEF Restart, IInv, TypeOK, ResolvedAs, ValidatedFor, BuiltFrom, SignedWithKey

-----------------------------------------------------------------------------
(* The inductive invariant holds in every reachable state: no phase is     *)
(* entered with less than what the ones before it decided (hosting.py,     *)
(* settings.py and app.py together).                                       *)
THEOREM Inductive == Spec => []IInv
  <1>1. IInv /\ [Next]_vars => IInv'
    <2> SUFFICES ASSUME IInv, [Next]_vars PROVE IInv'
      OBVIOUS
    <2>1. CASE Next
      BY <2>1, ResolveKeeps, ValidateKeeps, CreateAppKeeps, SignKeeps, RestartKeeps DEF Next
    <2>2. CASE UNCHANGED vars
      BY <2>2 DEF vars, IInv, TypeOK, ResolvedAs, ValidatedFor, BuiltFrom, SigningKey,
                  SignedWithKey
    <2>3. QED
      BY <2>1, <2>2
  <1>2. QED
    BY <1>1, InitIInv, PTL DEF Spec

(* Every variable keeps its type (hosting.py, settings.py, app.py).        *)
THEOREM TypeCorrect == Spec => []TypeOK
  <1>1. IInv => TypeOK
    BY DEF IInv
  <1>2. QED
    BY <1>1, Inductive, PTL

(* hosting.py:127-142 for every text of APP_ENV and VERCEL_ENV: a hosted   *)
(* instance that serves runs as a deployed environment.                    *)
THEOREM HostedIsHosted == Spec => []HostedRunsAsDeployed
  <1>1. IInv => HostedRunsAsDeployed
    <2>1. SUFFICES ASSUME IInv, Serving, config.override = "none",
                          config.entry = "wsgi" \/ DetectedAsHosted(config),
                          config.vercelEnv # "development"
                   PROVE  IsDeployed(appEnv)
      BY DEF HostedRunsAsDeployed
    <2>2. /\ appEnv = ResolveAppEnvironment(config, config.entry = "wsgi")
          /\ appEnv # Refused /\ config \in Configs
      BY <2>1 DEF IInv, TypeOK, ResolvedAs, Serving, AppEnvironmentOf, AppEnvironment, Refused
    <2>3. QED
      BY <2>1, <2>2, HostedIsDeployed
  <1>2. QED
    BY <1>1, Inductive, PTL

(* settings.py:161-187, app.py:84-108: what a deployed instance serves     *)
(* with is complete and hardened, and no other is hardened.                *)
THEOREM DeployedMeansHardened == Spec => []DeployedIsHardened
  <1>1. IInv => DeployedIsHardened
    <2>1. SUFFICES ASSUME IInv, Serving PROVE
              /\ IsDeployed(appEnv) =>
                    /\ app.signing = <<"configured", 0>> /\ config.secretKey # "weak"
                    /\ app.driver = "psycopg"
                    /\ config.deploymentKey /\ config.baseUrl = "https"
                    /\ ~app.detail
              /\ app.secure = IsDeployed(appEnv) /\ app.hsts = IsDeployed(appEnv)
      BY DEF DeployedIsHardened
    <2>2. /\ app.signing = SigningKey(config) /\ app.driver = Driver(config)
          /\ app.secure = IsDeployed(appEnv) /\ app.hsts = IsDeployed(appEnv)
          /\ app.detail = (appEnv = "development")
          /\ config.databaseUrl # "malformed"
      BY <2>1 DEF IInv, BuiltFrom, Serving
    <2>3. FieldsValid(config) /\ RequirementsMet(config, appEnv) /\ config \in Configs
      BY <2>1 DEF IInv, TypeOK, ValidatedFor, Serving
    <2>4. ASSUME IsDeployed(appEnv)
          PROVE  /\ config.secretKey = "strong" /\ config.deploymentKey
                 /\ config.baseUrl = "https"
                 /\ config.databaseUrl \in {"postgresql", "postgresql+psycopg"}
      BY <2>2, <2>3, <2>4 DEF RequirementsMet, FieldsValid, Configs
    <2>5. ASSUME IsDeployed(appEnv)
          PROVE  Driver(config) = "psycopg" /\ SigningKey(config) = <<"configured", 0>>
      BY <2>4, <2>5 DEF Driver, SigningKey
    <2>6. IsDeployed(appEnv) => appEnv # "development"
      BY DEF IsDeployed
    <2>7. QED
      BY <2>2, <2>4, <2>5, <2>6
  <1>2. QED
    BY <1>1, Inductive, PTL

(* settings.py:213-226: every instance of a deployed configuration signs   *)
(* with the same key, however often it is restarted.                       *)
THEOREM RestartsKeepSessions == Spec => []SessionsSurviveRestart
  <1>1. IInv => SessionsSurviveRestart
    BY DEF IInv, SessionsSurviveRestart, Serving, ValidatedFor, RequirementsMet,
           BuiltFrom, SignedWithKey, SigningKey
  <1>2. QED
    BY <1>1, Inductive, PTL
=============================================================================
