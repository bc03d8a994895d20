SPECIFICATION Spec
CONSTANTS
    BaseDomain <- Base
    Reserved <- ReservedLabels
    Principals <- Accounts
    RandomLen = 1
    MaxLabel = 3
    MaxHost = 4
    MaxPort = 1
    RemotePorts = {0, 1, 2}
    MaxLen = 5
INVARIANTS TypeOK VisitorsFindTunnel TcpKeysApart ReservedGuarded CustomDomainsGranted NamesToldApart RecordSurvives
CHECK_DEADLOCK FALSE
