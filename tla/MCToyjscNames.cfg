SPECIFICATION ToyjscSpec
CONSTANTS
    std = std
    script = script
    NoName = NoName
    Files <- MCFiles
    CModules = {std}
    ImportLists <- MCImportLists
    Args <- OneArg
    Dyns <- NoDyns
    CNameOptions <- NoOption
    Characters <- MCCharacters
    Decimals <- MCDecimals
    ScriptNames <- NoOption
INVARIANTS
    AllNamesUnique
CHECK_DEADLOCK FALSE
