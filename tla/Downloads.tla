------------------------------ MODULE Downloads ------------------------------
(***************************************************************************)
(* POST /download (routers/transfers.py api_trigger_download) and the      *)
(* metadata it leaves for GET /transfers/{hash}/info.                      *)
(*                                                                         *)
(* A source is a magnet, which names its info-hash in hexadecimal or in    *)
(* base32; a details page with a magnet on it; or anything else, which the *)
(* code hands to qBittorrent as a .torrent URL.  qBittorrent takes such a  *)
(* URL at once and lists the torrent when it has fetched the file, so the  *)
(* code finds the hash by comparing the listings before and after the add. *)
(***************************************************************************)
EXTENDS QBittorrent, FiniteSets

CONSTANTS
    Requests,   \* the callers of /download; each may call again
    Sources,    \* what they submit: [kind, form, hash] records
    None

Kind == {"magnet", "page", "torrent"}

\* How a magnet writes its hash; "none" is a magnet without a BitTorrent v1 hash.
Form == {"hex", "base32", "none"}

\* What a source comes down to.
Submission == [kind : Kind, form : Form, hash : Hashes]

ASSUME SourcesAssumption == Sources \subseteq Submission

ASSUME NoneAssumption == None \notin Hashes \cup (Form \X Hashes) \cup Submission

(* A cache key: the text of the hash.  The hook that reads the metadata at *)
(* completion has qBittorrent's own, hexadecimal, form.                    *)
MetadataKeys == (Form \ {"none"}) \X Hashes

Reported(h) == <<"hex", h>>

VARIABLES
    vpn,        \* qBittorrent is bound to an accepted interface
    fetching,   \* .torrent URLs accepted, their files not read yet
    at,         \* [Requests -> Place]
    source,     \* [Requests -> what the request adds, or None]
    before,     \* [Requests -> the hashes listed before the add]
    found,      \* [Requests -> the key the metadata goes to, or None]
    metadata,   \* app_cache: [MetadataKeys -> the torrent described, or None]
    wasBound,   \* history: qBittorrent was bound at some time in the request
    foreign,    \* history: another torrent appeared since the snapshot
    answered    \* history: answered keys whose entry nobody took or replaced in error

downloadVars == <<at, source, before, found, wasBound, foreign>>

vars == <<torrents, vpn, fetching, at, source, before, found, metadata,
          wasBound, foreign, answered>>

Place == {"idle", "checking", "scraping", "snapshot", "adding", "resolving", "storing"}

Init ==
    /\ torrents = [h \in Hashes |-> "absent"]
    /\ vpn \in BOOLEAN
    /\ fetching = {}
    /\ at = [r \in Requests |-> "idle"]
    /\ source = [r \in Requests |-> None]
    /\ before = [r \in Requests |-> {}]
    /\ found = [r \in Requests |-> None]
    /\ metadata = [k \in MetadataKeys |-> None]
    /\ wasBound = [r \in Requests |-> FALSE]
    /\ foreign = [r \in Requests |-> FALSE]
    /\ answered = {}

Goto(r, p) == at' = [at EXCEPT ![r] = p]

\* The request ends; its local variables are gone.
End(r) ==
    /\ Goto(r, "idle")
    /\ source' = [source EXCEPT ![r] = None]
    /\ before' = [before EXCEPT ![r] = {}]
    /\ found' = [found EXCEPT ![r] = None]
    /\ wasBound' = [wasBound EXCEPT ![r] = FALSE]
    /\ foreign' = [foreign EXCEPT ![r] = FALSE]

\* A torrent comes into the listing: foreign to every other add under way.
Appears(h) ==
    /\ AddTorrent(h)
    /\ foreign' = [r \in Requests |->
            \/ foreign[r]
            \/ h \notin Tracked /\ at[r] \in {"adding", "resolving"} /\ source[r].hash # h]

-----------------------------------------------------------------------------
\* The client answers, and the request goes on to the VPN check.
Submit(r, s) ==
    /\ at[r] = "idle"
    /\ Goto(r, "checking")
    /\ source' = [source EXCEPT ![r] = s]
    /\ wasBound' = [wasBound EXCEPT ![r] = vpn]
    /\ UNCHANGED <<torrents, vpn, fetching, before, found, metadata, foreign, answered>>

\* Mutant of Accept: a check that cannot tell lets the request pass.
AcceptUnchecked(r) ==
    /\ at[r] = "checking"
    /\ Goto(r, IF source[r].kind = "torrent" THEN "snapshot" ELSE "adding")
    /\ UNCHANGED <<torrents, vpn, fetching, source, before, found, metadata, wasBound,
                   foreign, answered>>

\* is_vpn_bound: an accepted interface is bound; the source decides the way.
Accept(r) ==
    /\ at[r] = "checking"
    /\ vpn
    /\ Goto(r, CASE source[r].kind = "page"    -> "scraping"
                 [] source[r].kind = "torrent" -> "snapshot"
                 [] source[r].kind = "magnet"  -> "adding")
    /\ UNCHANGED <<torrents, vpn, fetching, source, before, found, metadata, wasBound,
                   foreign, answered>>

\* The interface is not accepted or the check raises, the save path is not
\* configured, or the call was a dry run: nothing is added.
Refuse(r) ==
    /\ at[r] = "checking"
    /\ End(r)
    /\ UNCHANGED <<torrents, vpn, fetching, metadata, answered>>

\* scrape_magnet_from_page: from here on the source is the page's magnet.
Scrape(r) ==
    /\ at[r] = "scraping"
    /\ source' = [source EXCEPT ![r].kind = "magnet"]
    /\ Goto(r, "adding")
    /\ UNCHANGED <<torrents, vpn, fetching, before, found, metadata, wasBound, foreign, answered>>

\* The page cannot be read (503) or has no magnet (422).
ScrapeFails(r) ==
    /\ at[r] = "scraping"
    /\ End(r)
    /\ UNCHANGED <<torrents, vpn, fetching, metadata, answered>>

\* _snapshot_hashes before the add, for a hash the URL does not tell.
Snapshot(r) ==
    /\ at[r] = "snapshot"
    /\ before' = [before EXCEPT ![r] = Tracked]
    /\ Goto(r, "adding")
    /\ UNCHANGED <<torrents, vpn, fetching, source, found, metadata, wasBound, foreign, answered>>

\* torrents_add: a magnet is listed at once, a .torrent URL has to be fetched.
Add(r) ==
    /\ at[r] = "adding"
    /\ IF source[r].kind = "magnet"
       THEN Appears(source[r].hash) /\ UNCHANGED fetching
       ELSE fetching' = fetching \cup {source[r].hash} /\ UNCHANGED <<torrents, foreign>>
    /\ Goto(r, "resolving")
    /\ UNCHANGED <<vpn, source, before, found, metadata, wasBound, answered>>

\* torrents_add answers 409: the torrent is there already.
Conflict(r) ==
    /\ at[r] = "adding"
    /\ source[r].hash \in Tracked
    /\ End(r)
    /\ UNCHANGED <<torrents, vpn, fetching, metadata, answered>>

\* Mutant of Resolve: the listing is not compared with the snapshot.
ResolveWithoutBefore(r) ==
    /\ at[r] = "resolving"
    /\ \E h \in Tracked :
          /\ IF source[r].kind = "magnet" THEN h = source[r].hash ELSE Tracked = {h}
          /\ found' = [found EXCEPT ![r] = Reported(h)]
    /\ Goto(r, "storing")
    /\ UNCHANGED <<torrents, vpn, fetching, source, before, metadata, wasBound, foreign, answered>>

\* Mutant of Resolve: stores without asking whether a hash was found.
ResolveToNothing(r) ==
    /\ at[r] = "resolving"
    /\ Goto(r, "storing")
    /\ UNCHANGED <<torrents, vpn, fetching, source, before, found, metadata, wasBound, foreign,
                   answered>>

\* _extract_hash for a magnet; _resolve_added_hash for a .torrent URL, when
\* exactly one new hash is listed.
Resolve(r) ==
    /\ at[r] = "resolving"
    /\ \/ /\ source[r].kind = "magnet"
          /\ source[r].form # "none"
          /\ found' = [found EXCEPT ![r] = <<source[r].form, source[r].hash>>]
       \/ /\ source[r].kind # "magnet"
          /\ \E h \in Tracked \ before[r] :
                /\ Tracked \ before[r] = {h}
                /\ found' = [found EXCEPT ![r] = Reported(h)]
    /\ Goto(r, "storing")
    /\ UNCHANGED <<torrents, vpn, fetching, source, before, metadata, wasBound, foreign, answered>>

\* A magnet without a v1 hash; no new hash, or more than one: the answer has
\* no hash, nothing is stored.
Unresolved(r) ==
    /\ at[r] = "resolving"
    /\ IF source[r].kind = "magnet" THEN source[r].form = "none"
       ELSE Cardinality(Tracked \ before[r]) # 1
    /\ End(r)
    /\ UNCHANGED <<torrents, vpn, fetching, metadata, answered>>

\* Mutant of Store: app_cache.add, which leaves an entry that is there.
StoreIfAbsent(r) ==
    /\ at[r] = "storing"
    /\ metadata' = [metadata EXCEPT ![found[r]] = IF @ = None THEN source[r].hash ELSE @]
    /\ answered' = IF source[r].kind = "magnet" \/ ~foreign[r] THEN answered \cup {found[r]}
                   ELSE answered \ {found[r]}
    /\ End(r)
    /\ UNCHANGED <<torrents, vpn, fetching>>

\* app_cache.set without an expiry, and the answer.  A comparison of listings
\* that another torrent disturbed may have found that one.
Store(r) ==
    /\ at[r] = "storing"
    /\ metadata' = [metadata EXCEPT ![found[r]] = source[r].hash]
    /\ answered' = IF source[r].kind = "magnet" \/ ~foreign[r] THEN answered \cup {found[r]}
                   ELSE answered \ {found[r]}
    /\ End(r)
    /\ UNCHANGED <<torrents, vpn, fetching>>

\* A call of the client raises: the request fails with nothing stored.
ClientFails(r) ==
    /\ \/ at[r] \in {"snapshot", "adding"}
       \/ at[r] = "resolving" /\ source[r].kind # "magnet"
    /\ End(r)
    /\ UNCHANGED <<torrents, vpn, fetching, metadata, answered>>

-----------------------------------------------------------------------------
\* qBittorrent has read a .torrent file, or could not.
TorrentFetched(h) ==
    /\ h \in fetching
    /\ fetching' = fetching \ {h}
    /\ \/ Appears(h)
       \/ UNCHANGED <<torrents, foreign>>
    /\ UNCHANGED <<vpn, at, source, before, found, metadata, wasBound, answered>>

\* The torrent is removed, here or in qBittorrent; its metadata stays.
Remove(h) ==
    /\ h \in Tracked
    /\ DeleteTorrent(h)
    /\ UNCHANGED <<vpn, fetching, metadata, answered, downloadVars>>

\* The tunnel drops or comes back, or the allowlist is changed.
VpnChanges ==
    /\ vpn' = ~vpn
    /\ wasBound' = [r \in Requests |-> wasBound[r] \/ (vpn' /\ at[r] # "idle")]
    /\ UNCHANGED <<torrents, fetching, at, source, before, found, metadata, foreign, answered>>

\* The cache is over its size, and a write of anybody drops the entry.
Cull(k) ==
    /\ metadata[k] # None
    /\ metadata' = [metadata EXCEPT ![k] = None]
    /\ answered' = answered \ {k}
    /\ UNCHANGED <<torrents, vpn, fetching, downloadVars>>

\* DELETE /cache evicts the metadata with everything else.
ClearCache ==
    /\ metadata' = [k \in MetadataKeys |-> None]
    /\ answered' = {}
    /\ UNCHANGED <<torrents, vpn, fetching, downloadVars>>

\* The service dies and starts again; qBittorrent and the cache go on.
Crash ==
    /\ at' = [r \in Requests |-> "idle"]
    /\ source' = [r \in Requests |-> None]
    /\ before' = [r \in Requests |-> {}]
    /\ found' = [r \in Requests |-> None]
    /\ wasBound' = [r \in Requests |-> FALSE]
    /\ foreign' = [r \in Requests |-> FALSE]
    /\ UNCHANGED <<torrents, vpn, fetching, metadata, answered>>

Progress(r) ==
    \/ Accept(r)
    \/ Refuse(r)
    \/ Scrape(r)
    \/ ScrapeFails(r)
    \/ Snapshot(r)
    \/ Add(r)
    \/ Conflict(r)
    \/ Resolve(r)
    \/ Unresolved(r)
    \/ Store(r)
    \/ ClientFails(r)

Next ==
    \/ \E r \in Requests : Progress(r) \/ \E s \in Sources : Submit(r, s)
    \/ \E h \in Hashes : TorrentFetched(h) \/ Remove(h)
    \/ \E k \in MetadataKeys : Cull(k)
    \/ VpnChanges
    \/ ClearCache
    \/ Crash

Spec == Init /\ [][Next]_vars

-----------------------------------------------------------------------------
TypeOK ==
    /\ TorrentsTypeOK
    /\ vpn \in BOOLEAN
    /\ fetching \subseteq Hashes
    /\ at \in [Requests -> Place]
    /\ source \in [Requests -> Submission \cup {None}]
    /\ \A r \in Requests : source[r] = None <=> at[r] = "idle"
    /\ before \in [Requests -> SUBSET Hashes]
    /\ found \in [Requests -> MetadataKeys \cup {None}]
    /\ \A r \in Requests : at[r] = "storing" => found[r] # None
    /\ metadata \in [MetadataKeys -> Hashes \cup {None}]
    /\ wasBound \in [Requests -> BOOLEAN]
    /\ foreign \in [Requests -> BOOLEAN]
    /\ answered \subseteq MetadataKeys

(* Nothing is handed to qBittorrent by a request during which the VPN was  *)
(* never bound, and neither is a page fetched: is_vpn_bound comes first and*)
(* denies when it cannot tell.                                             *)
AddOnlyIfBound ==
    \A r \in Requests : at[r] \notin {"idle", "checking"} => wasBound[r]

(* The comparison of listings finds the request's own torrent, unless one  *)
(* of somebody else came into the listing since the snapshot.              *)
DiffIsOwnUnlessForeign ==
    \A r \in Requests :
        at[r] = "storing" /\ source[r].kind = "torrent" /\ ~foreign[r]
            => found[r] = Reported(source[r].hash)

(* README.md:81: /transfers/{hash}/info is what the completion hook reads: *)
(* under the hash that a request was answered with is the metadata of its  *)
(* own torrent, whatever happened to the torrent, to the service and in    *)
(* other requests since - until the cache is cleared or culls the entry, or*)
(* a request whose comparison of listings another torrent disturbed stores *)
(* over it.  (qBittorrent reports a hash in hexadecimal; a base32 magnet is*)
(* answered in base32.)                                                    *)
InfoAfterAnswer == \A k \in answered : metadata[k] = k[2]

(* transfers.py:92-93: the hash is "deterministic under concurrent adds and*)
(* equal to qBittorrent's own computed info-hash": a torrent's metadata is *)
(* what its own request stored.                                            *)
MetadataIsOfItsTorrent == \A h \in Hashes : metadata[Reported(h)] \in {h, None}
=============================================================================
