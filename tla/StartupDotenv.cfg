CONSTANTS
    AppEnvTexts <- SomeAppEnvTexts
    VercelTexts <- SomeVercelTexts
    MaxInstances = 1
SPECIFICATION Spec
INVARIANT DotenvNamesEnvironment
CHECK_DEADLOCK FALSE
