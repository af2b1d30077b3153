SPECIFICATION FairSpec
CONSTANTS
    Thread = {t1, t2}
    Document <- Documents
    kept = kept
    HostEnv = {kept}
    EnvsOf <- KeptFor
    Texts <- TextsOf
    Functions <- SomeFunctions
    Setters = {"_sourceCode"}
    Null = Null
INVARIANTS
    RunsCurrentSource
    FunctionsAreCurrent
    CompilesFromScratch
PROPERTIES
    LockIsReleased
