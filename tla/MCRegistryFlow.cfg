CONSTANTS
    Channel <- MCChannel
    Serial = {s1, s2}
    NoSerial = NoSerial
    Title <- MCTitle
    Manifests <- MCManifests
    Disabled <- MCDisabled
    MaxSuffix = 4
    Host = {local, lan}
    NoHost = NoHost
    Default = local
    Fallback = lan
    Cred = {c1, c2}
    NoCred = NoCred
    EntryId = {e1, e2}
    NoId = NoId
    Flow = {f1, f2}
    local = local
    lan = lan
SPECIFICATION EitherSpec
SYMMETRY Symmetry
INVARIANTS TypeOK NamesUnique ConfigBacked EndpointsUnique ProbedTogether
PROPERTIES NamesStable
