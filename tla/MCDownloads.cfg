\* Magnets and .torrent URLs side by side.
SPECIFICATION Spec
CONSTANTS
    Hashes = {a, b}
    Requests = {r1, r2}
    Sources <- Mixed
    None = None
SYMMETRY Symmetric
INVARIANTS
    TypeOK
    AddOnlyIfBound
    DiffIsOwnUnlessForeign
    InfoAfterAnswer
