SPECIFICATION ModulesSpec
CONSTANTS
    std = std
    script = script
    NoName = NoName
    Files <- MCFiles
    CModules = {std}
    ImportLists <- MCImportLists
    Args <- MCArgs
    Dyns <- MCDyns
    CNameOptions <- MCCNameOptions
    Characters <- MCCharacters
    Decimals <- MCDecimals
    ScriptNames <- MCScriptNames
    Runtimes = {"toyjsruntime", "testquickjs"}
    Scripts = {"main", "lib"}
    MainScript = "main"
    Imported <- MCImported
    BytecodeName <- MCBytecodeName
INVARIANTS
    ModulesTypeOK
    LoadedNamesUnique
    LoadedOnce
    ReachableWritten
    OneInstance
    EvaluationOrder
    AllOrNothing
PROPERTIES
    LoadingEnds
CHECK_DEADLOCK FALSE
