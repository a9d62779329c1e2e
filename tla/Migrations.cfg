CONSTANTS
    deploy = deploy
    other = other
    third = third
    Runs = {deploy, other, third}
    Last = 2
    MaxStarts = 5
SPECIFICATION Spec
INVARIANTS TypeOK SchemaMatchesVersion
PROPERTIES UpgradedMeansHead RunsEnd
CHECK_DEADLOCK FALSE
