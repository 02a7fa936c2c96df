CONSTANT MaxCand = 1
SPECIFICATION FairSpec
INVARIANTS TypeOK ManifestOrFailure SettledRetired
PROPERTIES OfferStarts SessionEnds
CHECK_DEADLOCK FALSE
