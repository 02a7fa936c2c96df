CONSTANTS
    Key = {k1, k2}
    Caller = {dash, primer}
    Primer = primer
    Nobody = Nobody
    Ttl = 1
    FailTtl = 1
    StaleTtl = 3
    Timeout = 1
    MaxEntries = 2
SPECIFICATION Spec
INVARIANTS PrimerTypeOK OneCapture AgeBounded PrimedHasFallback
PROPERTIES FallbackKept RefreshEnds
