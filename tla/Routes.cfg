SPECIFICATION RouteSpec
CONSTANTS
    Users = {"alice", "bob", "a/b"}
    SystemGroups <- MCSystemGroups
    Worlds <- MCWorlds
    Later <- MCLater
    OptionSets <- MCOptionSets
    Creds <- MCCreds
    MaxTries = 2
CHECK_DEADLOCK FALSE
INVARIANTS
    RoutedByFirstOpinion
    KnownHostsKept
    CodeBeforeUpstream
