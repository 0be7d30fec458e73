CONSTANTS
    Torrents = {1, 2, 3}
    Trackers = {"A", "B"}
    NoTracker = NoTracker
    Places <- MCPlaces
    PlaceOf <- MCPlaceOf
    PageLimit = 1
    MaxPages = 2
    KeepExisting = TRUE
    MaxChanges = 1
    MaxCommands = 1
SPECIFICATION Spec
PROPERTIES
    MissingWasGone
    FirstRunBaselines
    ReconcileIsExact
    EveryTorrentStored
