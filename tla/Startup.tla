------------------------------- MODULE Startup -------------------------------
(***************************************************************************)
(* One instance of the application from its environment to serving:        *)
(* hosting.py decides which application environment this is, settings.py   *)
(* validates the configuration, create_app builds from what passed.        *)
(*                                                                         *)
(* A configuration is what os.environ, the .env file and the caller say.   *)
(* It is fixed for the life of an instance; an instance may be restarted   *)
(* on the same configuration.  Values are abstracted to what the code      *)
(* tells apart; texts are taken after strip() and lower().                 *)
(***************************************************************************)
EXTENDS Naturals

CONSTANTS
    AppEnvTexts,    \* what APP_ENV may say; "" when it is not set
    VercelTexts,    \* what VERCEL_ENV may say; "" when it is not set
    MaxInstances    \* bound: how many times the instance is started

ASSUME MaxInstancesAssumption == MaxInstances \in Nat \ {0}

VARIABLES
    config,     \* the configuration
    phase,      \* how far start-up got
    appEnv,     \* the application environment, once resolved
    app,        \* what create_app built
    instance,   \* which start this is
    issued      \* history: the key that signed the sessions still around

vars == <<config, phase, appEnv, app, instance, issued>>

AppEnvironment == {"development", "test", "staging", "production"}

IsDeployed(env) == env \in {"staging", "production"}

(* override: an app_env passed to create_app, "none" if there is none.     *)
(* dotenv: APP_ENV in the .env file.  marker: whether a Vercel variable    *)
(* other than VERCEL_ENV is exposed.  A "weak" secret is a placeholder or  *)
(* too short; a "malformed" database URL has an accepted scheme and is not *)
(* a URL SQLAlchemy can use.                                               *)
Configs == [
    entry         : {"wsgi", "factory"},
    override      : {"none"} \cup AppEnvironment,
    appEnv        : AppEnvTexts,
    dotenv        : AppEnvTexts,
    vercelEnv     : VercelTexts,
    marker        : BOOLEAN,
    secretKey     : {"none", "weak", "strong"},
    databaseUrl   : {"none", "unsupported", "malformed", "postgresql",
                     "postgresql+psycopg"},
    deploymentKey : BOOLEAN,
    baseUrl       : {"invalid", "http", "https"}]

Unbuilt == [signing |-> <<"none", 0>>, secure |-> FALSE, hsts |-> FALSE,
            detail |-> FALSE, driver |-> "none"]

(* wsgi.py passes no override, it passes settings.                         *)
Init ==
    /\ config \in {c \in Configs : c.entry = "wsgi" => c.override = "none"}
    /\ phase = "starting"
    /\ appEnv = "unknown"
    /\ app = Unbuilt
    /\ instance = 1
    /\ issued = <<"none", 0>>

-----------------------------------------------------------------------------
(* hosting.py                                                              *)

Refused == "refused"

(* The two values the platform maps to deployed environments, and vercel   *)
(* dev; "none" for anything else it may say.                               *)
PlatformEnvironment(c) ==
    CASE c.vercelEnv = "production"  -> "production"
      [] c.vercelEnv = "preview"     -> "staging"
      [] c.vercelEnv = "development" -> "development"
      [] OTHER                       -> "none"

(* VERCEL_ENV is one of the markers itself.                                *)
DetectedAsHosted(c) == c.marker \/ c.vercelEnv # ""

(* Variants: a hosted process nobody identifies is in development; the     *)
(* platform's silence is returned as it is.                                *)
ResolveOrDevelopment(c, assumeHosted) ==
    IF c.appEnv \in AppEnvironment THEN c.appEnv
    ELSE IF c.appEnv # "" THEN Refused
    ELSE IF PlatformEnvironment(c) = "none" THEN "development"
    ELSE PlatformEnvironment(c)

ResolveUnchecked(c, assumeHosted) ==
    IF c.appEnv # "" THEN c.appEnv ELSE PlatformEnvironment(c)

(* APP_ENV where it is set, else the platform's word, else (on a           *)
(* developer's machine, vercel dev included) development; and only a       *)
(* deployed environment for a process that is hosted.                      *)
ResolveAppEnvironment(c, assumeHosted) ==
    LET local == \/ ~assumeHosted /\ ~DetectedAsHosted(c)
                 \/ PlatformEnvironment(c) = "development"
        named == IF c.appEnv # "" THEN c.appEnv
                 ELSE IF local THEN "development" ELSE PlatformEnvironment(c)
    IN IF named \in AppEnvironment /\ (local \/ IsDeployed(named))
       THEN named ELSE Refused

-----------------------------------------------------------------------------
(* settings.py                                                             *)

(* Every loader puts app_env among the overrides, which come before the    *)
(* environment and the .env file.                                          *)
AppEnvironmentOf(c) ==
    IF c.override # "none" THEN c.override
    ELSE ResolveAppEnvironment(c, c.entry = "wsgi")

FieldsValid(c) == c.baseUrl # "invalid" /\ c.databaseUrl # "unsupported"

(* Variant: the placeholder keys are refused, their length is not looked   *)
(* at, nor is the scheme of the base URL.                                  *)
RequirementsPartlyMet(c, env) ==
    IsDeployed(env) => /\ c.secretKey # "none"
                       /\ c.databaseUrl # "none"
                       /\ c.deploymentKey

RequirementsMet(c, env) ==
    IsDeployed(env) => /\ c.secretKey = "strong"
                       /\ c.databaseUrl # "none"
                       /\ c.deploymentKey
                       /\ c.baseUrl = "https"

(* The driver is pinned; a bare postgresql scheme would mean psycopg2.     *)
Driver(c) ==
    CASE c.databaseUrl = "none" -> "none"
      [] c.databaseUrl = "postgresql" -> "psycopg"
      [] c.databaseUrl = "postgresql+psycopg" -> "psycopg"

(* Variant: every process generates its key.                               *)
SigningKeyGenerated(c) == <<"ephemeral", instance>>

(* A key left out is generated, a new one for each process.                *)
SigningKey(c) == IF c.secretKey = "none" THEN <<"ephemeral", instance>>
                 ELSE <<"configured", 0>>

-----------------------------------------------------------------------------
(* One start.                                                              *)

Resolve ==
    /\ phase = "starting"
    /\ appEnv' = AppEnvironmentOf(config)
    /\ phase' = IF appEnv' = Refused THEN "refused" ELSE "resolved"
    /\ UNCHANGED <<config, app, instance, issued>>

Validate ==
    /\ phase = "resolved"
    /\ phase' = IF FieldsValid(config) /\ RequirementsMet(config, appEnv)
                THEN "loaded" ELSE "refused"
    /\ UNCHANGED <<config, appEnv, app, instance, issued>>

(* create_app; build_engine rejects a URL it cannot use with an error that *)
(* is none of the application's own.                                       *)
CreateApp ==
    /\ phase = "loaded"
    /\ IF config.databaseUrl = "malformed"
       THEN phase' = "crashed" /\ UNCHANGED <<app, issued>>
       ELSE /\ phase' = "serving"
            /\ app' = [signing |-> SigningKey(config),
                       secure  |-> IsDeployed(appEnv),
                       hsts    |-> IsDeployed(appEnv),
                       detail  |-> appEnv = "development",
                       driver  |-> Driver(config)]
            /\ UNCHANGED issued
    /\ UNCHANGED <<config, appEnv, instance>>

(* A visitor gets a session, signed with this instance's key.              *)
Sign ==
    /\ phase = "serving"
    /\ issued' = app.signing
    /\ UNCHANGED <<config, phase, appEnv, app, instance>>

(* The platform ends the instance and starts it again.                     *)
Restart ==
    /\ phase \in {"serving", "refused", "crashed"}
    /\ instance < MaxInstances
    /\ instance' = instance + 1
    /\ phase' = "starting"
    /\ appEnv' = "unknown"
    /\ app' = Unbuilt
    /\ UNCHANGED <<config, issued>>

Next == Resolve \/ Validate \/ CreateApp \/ Sign \/ Restart

Spec == Init /\ [][Next]_vars

-----------------------------------------------------------------------------
TypeOK ==
    /\ config \in Configs
    /\ phase \in {"starting", "resolved", "loaded", "serving", "refused", "crashed"}
    /\ appEnv \in AppEnvironment \cup {"unknown", Refused}
    /\ instance \in 1..MaxInstances
    /\ DOMAIN app = DOMAIN Unbuilt

Serving == phase = "serving"

(* hosting.py:127-142, DEVELOPMENT.md:269: an instance that serves and was *)
(* started by the hosting entry point, or by the factory where any Vercel  *)
(* marker is exposed, runs as a deployed environment, whatever APP_ENV,    *)
(* .env and the markers say; vercel dev is the one exception.              *)
HostedRunsAsDeployed ==
    /\ Serving
    /\ config.override = "none"
    /\ config.entry = "wsgi" \/ DetectedAsHosted(config)
    /\ config.vercelEnv # "development"
    => IsDeployed(appEnv)

(* settings.py:161-187, app.py:84-108, security.py:60-66: what a deployed  *)
(* instance serves with is complete and hardened, and the deployed ones    *)
(* are the only hardened ones (HSTS on a developer's machine would lock    *)
(* its browser out of plain http).                                         *)
DeployedIsHardened ==
    Serving =>
        /\ IsDeployed(appEnv) =>
              /\ app.signing = <<"configured", 0>> /\ config.secretKey # "weak"
              /\ app.driver = "psycopg"
              /\ config.deploymentKey /\ config.baseUrl = "https"
              /\ ~app.detail
        /\ app.secure = IsDeployed(appEnv) /\ app.hsts = IsDeployed(appEnv)

(* settings.py:213-226: sessions survive the restart of a deployed         *)
(* instance, that is, every instance signs with the same key.              *)
SessionsSurviveRestart ==
    Serving /\ IsDeployed(appEnv) /\ issued # <<"none", 0>> => issued = app.signing

-----------------------------------------------------------------------------
(* What the documentation says and the code does not do.                   *)

(* app.py:45-46: configuration "is read from the environment and .env".    *)
DotenvNamesEnvironment ==
    Serving /\ config.entry = "factory" /\ config.override = "none"
    /\ config.appEnv = "" /\ ~DetectedAsHosted(config)
    /\ config.dotenv \in AppEnvironment
    => appEnv = config.dotenv
=============================================================================
