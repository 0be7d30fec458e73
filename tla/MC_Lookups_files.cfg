CONSTANTS
    Origins = {o1, o2}
    Unset = Unset
    ArrTtl = 1
    FoundTtl = 2
    NotFoundTtl = 1
    ErrorTtl = 1
    Spacing = 1
SPECIFICATION Spec
INVARIANT
    VerdictIsOfTheseFiles
