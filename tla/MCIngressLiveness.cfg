SPECIFICATION FairSpec
CONSTANTS
    n1 = n1  n2 = n2  s1 = s1  s2 = s2
    Keys = {k1}
    Sessions = {s1}
    Tunnels = {t1, t2}
    Nodes = {n1, n2}
    Home <- HomeOne
    Requests = {q1}
    Ttl = 2
    MaxTunnels = 2
    MaxErrors = 1
    MaxCrashes = 1
    SharedKeys = FALSE
    Punctual = FALSE
    NoSession = NoSession
    NoTunnel = NoTunnel
    NoKey = NoKey
PROPERTIES RoutedRequestServed
