CONSTANTS
    Titles <- MC_Titles
    Layouts <- MC_Layouts
    Contents <- MC_Contents
    Ordinary <- MC_Ordinary
    MaxOdd = 2
    Limit = 2
    Trackers = {"t1", "t2"}
    Listings <- MC_Listings
    MaxListings = 1
    Languages = {"", "french", "german", "odd"}
    Seasons <- MC_Seasons
    Names <- MC_Names
    Archives <- MC_Archives
SPECIFICATION EvidenceSpec
\* A check comes to its end.
CHECK_DEADLOCK FALSE
INVARIANTS
    ClaimsAreNotRefuted
    AudioIsOriginal
    ListedIsBlocked
    NamesAreGenuine
