----------------------------- MODULE QBittorrent -----------------------------
(***************************************************************************)
(* The torrents of the qBittorrent client, as far as the service sees and  *)
(* changes them through the WebUI API.  External: modelled from the calls  *)
(* the service makes and the answers it is written for.                    *)
(***************************************************************************)
CONSTANTS Hashes    \* the info-hashes, in the form qBittorrent reports

VARIABLE torrents   \* [Hashes -> TorrentState]

TorrentState == {"absent", "downloading", "seeding", "stopped download", "stopped seed"}

TorrentsTypeOK == torrents \in [Hashes -> TorrentState]

\* torrents_info with the filter "all".
Tracked == {h \in Hashes : torrents[h] # "absent"}

\* torrents_info with the filter "seeding".
Seeding == {h \in Hashes : torrents[h] = "seeding"}

\* A torrent that is there already is left as it is.
AddTorrent(h) ==
    torrents' = IF h \in Tracked THEN torrents ELSE [torrents EXCEPT ![h] = "downloading"]

\* torrents_pause; a hash that is not there is ignored.
PauseTorrent(h) ==
    torrents' = [torrents EXCEPT ![h] =
        CASE @ = "downloading" -> "stopped download"
          [] @ = "seeding"     -> "stopped seed"
          [] OTHER             -> @]

\* torrents_resume; a hash that is not there is ignored.
ResumeTorrent(h) ==
    torrents' = [torrents EXCEPT ![h] =
        CASE @ = "stopped download" -> "downloading"
          [] @ = "stopped seed"     -> "seeding"
          [] OTHER                  -> @]

\* torrents_delete.
DeleteTorrent(h) == torrents' = [torrents EXCEPT ![h] = "absent"]

\* A download completes and the client seeds it.
CompleteTorrent(h) ==
    /\ torrents[h] = "downloading"
    /\ torrents' = [torrents EXCEPT ![h] = "seeding"]
=============================================================================
