SPECIFICATION ServiceSpec
CONSTANTS
    Boots <- MCBoots
    MaxRetries = 5
    k1 = k1
    k2 = k2
    k3 = k3
    SinkList <- ThreeSinks
    Enabled = {k1, k3}
    Wrapped = {k1}
    Reconnecting = {k1}
    Dirty = {2}
    MaxEvents = 4
    BusMax = 2
    maxsize = 2
    max_retries = 2
    MaxEntries = 4
    MaxStarts = 2
    Kinds = {"splunk", "datadog", "webhook", "elastic", "sentinel", "qradar"}
    SinkEvents = {"e1", "e2", "e3"}
    DocId <- MCDocId
    MaxSends = 2
    MaxTime = 6
    TokenLife = 4
    TokenBuffer = 2
    Timeout = 1
    Definitions <- MCDefinitions
    Updaters = {u1, u2}
    Images <- MCImages
    ComposeFiles = {"main", "other"}
    DefaultFile = "main"
    FirstImage <- MCFirst
    MaxChanges = 2
    Interval = 2
    SecretDebounce = 1
    MaxVersions = 3
    MaxSecretTime = 8
    MaxAgentStarts = 3
    Stoppers = {s1, s2}
    Conns = {c1, c2}
    ProxyInputs <- MCTraffic
    CertTTL = 1
    MaxProxyTime = 2
    Serials = {1, 2}
    Versions = {1, 2}
    MaxCaSteps = 4
    Debounce = 1
    RouteHosts <- MCHosts
    PacPatterns = {"a", "b"}
    MaxEdits = 3
INVARIANTS ServiceWhole SinksServedAlike QueueOrderly DeliveryHonest AgentsSettle ProxySound
PROPERTIES StartEnds QueuedEventsLeave
