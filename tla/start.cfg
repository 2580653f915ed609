SPECIFICATION FairSpec
CONSTANTS
    p1 = p1
    p2 = p2
    p3 = p3
    Procs <- MCProcs
    Pids = {1, 2, 3, 4}
    Scenarios <- MCScenarios
    SchemaLike <- MCSchemaLike
    ColumnSections <- MCColumnSections
    Faults = {"file", "connect", "kill", "others"}
INVARIANT TypeOK
INVARIANT SettingsFound
INVARIANT SchemasFound
INVARIANT OneDaemon
INVARIANT PasswordKept
PROPERTY EmptyFileStays
PROPERTY StartsEnd
CHECK_DEADLOCK FALSE
