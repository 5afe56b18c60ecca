-------------------------- MODULE QBittorrent_proofs --------------------------
(***************************************************************************)
(* What the calls of the qBittorrent client do to its torrents: the        *)
(* lemmas shared by the proofs about the components that call it.          *)
(***************************************************************************)
EXTENDS QBittorrent, TLAPS

LEMMA ClientTypes ==
    ASSUME TorrentsTypeOK, NEW h \in Hashes,
           \/ AddTorrent(h)
           \/ PauseTorrent(h)
           \/ ResumeTorrent(h)
           \/ DeleteTorrent(h)
           \/ CompleteTorrent(h)
           \/ UNCHANGED torrents
    PROVE  TorrentsTypeOK'
BY DEF TorrentsTypeOK, TorrentState, AddTorrent, PauseTorrent, ResumeTorrent, DeleteTorrent,
       CompleteTorrent, Tracked

(* A call of the client changes the one torrent it names; a pause leaves   *)
(* nothing running, a deletion leaves nothing, and the others say what ran *)
(* before.                                                                 *)
LEMMA ClientEffects ==
    ASSUME TorrentsTypeOK, NEW h \in Hashes, NEW g \in Hashes
    PROVE  /\ AddTorrent(h) /\ g # h => torrents'[g] = torrents[g]
           /\ PauseTorrent(h) /\ g # h => torrents'[g] = torrents[g]
           /\ ResumeTorrent(h) /\ g # h => torrents'[g] = torrents[g]
           /\ DeleteTorrent(h) /\ g # h => torrents'[g] = torrents[g]
           /\ CompleteTorrent(h) /\ g # h => torrents'[g] = torrents[g]
           /\ PauseTorrent(h) => torrents'[h] \notin {"downloading", "seeding"}
           /\ DeleteTorrent(h) => torrents'[h] = "absent"
           /\ CompleteTorrent(h) => torrents[h] = "downloading" /\ torrents'[h] = "seeding"
BY DEF TorrentsTypeOK, TorrentState, AddTorrent, PauseTorrent, ResumeTorrent, DeleteTorrent,
       CompleteTorrent, Tracked

(* What an addition and a deletion do to the listing.                      *)
LEMMA ListingEffects ==
    ASSUME TorrentsTypeOK, NEW h \in Hashes
    PROVE  /\ AddTorrent(h) => Tracked' = Tracked \cup {h}
           /\ DeleteTorrent(h) => Tracked' = Tracked \ {h}
           /\ UNCHANGED torrents => Tracked' = Tracked
BY DEF TorrentsTypeOK, TorrentState, AddTorrent, DeleteTorrent, Tracked
=============================================================================
