\* Two callers at once, torrents coming and going.
SPECIFICATION Spec
CONSTANTS
    Hashes = {a, b}
    Requests = {r1, r2}
SYMMETRY Symmetric
INVARIANT
    TypeOK
PROPERTIES
    StopsWhatSeeded
    PausedDownloadIsNew
