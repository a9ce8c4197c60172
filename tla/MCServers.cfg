SPECIFICATION FairSpec
CONSTANTS
    a = a
    b = b
    e = e
    m = m
    lua = lua
    s1 = s1
    s2 = s2
    s3 = s3
    Embedded = {e}
    Group <- MCGroup
    Cli = {m}
    Plugins = {lua}
    NoPlugin = NoPlugin
    PluginOf <- MCPluginOf
    Clients = {c1, c2}
    Scripts = {s1, s2, s3}
    Size <- MCSize
    MaxCachedScripts = 2
    MaxCacheBytes = 2
INVARIANTS
    TypeOK
    OpenWhileServing
    RecentScripts
PROPERTIES
    CloseEnds
CHECK_DEADLOCK FALSE
