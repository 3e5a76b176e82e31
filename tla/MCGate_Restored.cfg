SPECIFICATION Spec
CONSTANTS
    Paths <- MCPaths
    ContractPath = "sykli.json"
    LockPath = "sykli.lock"
    Ignored = {"made"}
    Bytes <- MCBytes
    NoBytes = "none"
    Clean <- MCClean
    Smudge <- MCSmudge
    Target <- MCTarget
    Elsewhere = "elsewhere"
    Outside = "outside"
    Contracts <- MCContracts
    Pins <- MCPins
    Contents <- MCContents
    Outputs = {"lf"}
    Hidden = {"source"}
    MaxEdits = 1
INVARIANT RestoredReadTheCommit
