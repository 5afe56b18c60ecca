\* Two .torrent URLs at once.
SPECIFICATION Spec
CONSTANTS
    Hashes = {"a", "b"}
    Requests = {"r1", "r2"}
    Sources <- Torrents
    None = None
INVARIANT
    MetadataIsOfItsTorrent
