CONSTANTS
    AppEnvTexts <- SomeAppEnvTexts
    VercelTexts <- SomeVercelTexts
    MaxInstances = 2
SPECIFICATION Spec
INVARIANTS TypeOK HostedRunsAsDeployed DeployedIsHardened SessionsSurviveRestart
CHECK_DEADLOCK FALSE
