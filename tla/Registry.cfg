SPECIFICATION RegistrySpec
CONSTANTS
    Default = Default
    extra = extra
    Nobody = Nobody
    Aliases <- MCAliases
    MaxStarts = 2
    MaxCalls = 3
INVARIANTS RegistryTypeOK NothingLeftStarted StartedUnlessLate NewStoreAsked
CHECK_DEADLOCK FALSE
