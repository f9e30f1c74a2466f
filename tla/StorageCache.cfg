\* Two keys, two values: overwriting, deleting, reverting and charging, and epochs.
CONSTANTS
    Keys = {k1, k2}
    Values = {v1, v2}
    None = None
    Empty = Empty
    Missing = Missing
SPECIFICATION Spec
INVARIANTS
    TypeOK
    ReadsAreFresh
    FacadesDifferOnlyOnDeletions
PROPERTY
    CacheIsTransparent
