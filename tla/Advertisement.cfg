SPECIFICATION FairSpec
CONSTANTS
    None = None
    Clients = {c1}
    MaxChanges = 2
    MaxPartial = 1
INVARIANTS
    KnownBeforeTold
PROPERTIES
    AdvertisementsSettle
