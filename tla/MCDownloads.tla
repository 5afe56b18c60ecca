----------------------------- MODULE MCDownloads -----------------------------
(***************************************************************************)
(* Two callers and two torrents.                                           *)
(***************************************************************************)
EXTENDS Downloads, TLC

Of(kinds, forms) == [kind : kinds, form : forms, hash : Hashes]

\* All the ways a hash is found, or not.
Mixed == Of({"magnet", "torrent"}, {"hex"}) \cup Of({"page"}, {"none"})

Torrents == Of({"torrent"}, {"hex"})

\* Torrents and callers are interchangeable.
Symmetric == Permutations(Hashes) \cup Permutations(Requests)
=============================================================================
