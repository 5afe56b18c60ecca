--------------------------- MODULE Downloads_proofs ---------------------------
(***************************************************************************)
(* Theorems about Downloads, for any callers, torrents and sources.        *)
(*                                                                         *)
(* The comparison of listings is carried by DiffIsAccounted: from the      *)
(* snapshot to the comparison nothing is newly listed but the torrent the  *)
(* request adds, or the request is marked as disturbed.  The order of the  *)
(* VPN check is carried by BoundIsRemembered.  What is stored under which  *)
(* key follows from the comparison and, for magnets, MagnetsTellTheirHash. *)
(***************************************************************************)
EXTENDS Downloads, QBittorrent_proofs, TLAPS

(* While a request is under way a bound VPN is on its record, and past the *)
(* check there is such a record.                                           *)
BoundIsRemembered ==
    \A r \in Requests :
        /\ at[r] # "idle" /\ vpn => wasBound[r]
        /\ at[r] \notin {"idle", "checking"} => wasBound[r]

(* What is listed and was not before is the torrent of the request, and    *)
(* what the request found is that torrent - or somebody else's appeared.   *)
DiffIsAccounted ==
    \A r \in Requests :
        at[r] # "idle" /\ ~foreign[r] /\ source[r].kind = "torrent" =>
            /\ at[r] \in {"adding", "resolving"} => Tracked \ before[r] \subseteq {source[r].hash}
            /\ at[r] = "storing" => found[r] = Reported(source[r].hash)

-----------------------------------------------------------------------------
(* Types.                                                                  *)

LEMMA EndType ==
    ASSUME TypeOK, NEW r \in Requests, End(r), TorrentsTypeOK',
           vpn' \in BOOLEAN, fetching' \subseteq Hashes,
           metadata' \in [MetadataKeys -> Hashes \cup {None}], answered' \subseteq MetadataKeys
    PROVE  TypeOK'
BY DEF TypeOK, End, Goto, Place

LEMMA AppearsType ==
    ASSUME TypeOK, NEW h \in Hashes, Appears(h)
    PROVE  TorrentsTypeOK' /\ foreign' \in [Requests -> BOOLEAN]
<1>1. TorrentsTypeOK'
  BY ClientTypes DEF TypeOK, Appears
<1>2. \A r \in Requests : (\/ foreign[r]
                           \/ /\ h \notin Tracked /\ at[r] \in {"adding", "resolving"}
                              /\ source[r].hash # h) \in BOOLEAN
  BY DEF TypeOK
<1> QED
  BY <1>1, <1>2 DEF Appears

LEMMA ScrapedSource ==
    ASSUME TypeOK, NEW r \in Requests, Scrape(r)
    PROVE  /\ source' = [source EXCEPT ![r] = source'[r]]
           /\ source'[r] \in Submission
           /\ source'[r].kind = "magnet"
<1>1. source[r] \in Submission
  BY DEF TypeOK, Scrape
<1>2. source' = [source EXCEPT ![r] = [source[r] EXCEPT !.kind = "magnet"]]
  BY DEF Scrape
<1>3. /\ [source[r] EXCEPT !.kind = "magnet"] \in Submission
      /\ [source[r] EXCEPT !.kind = "magnet"].kind = "magnet"
  BY <1>1 DEF Submission, Kind
<1>4. source'[r] = [source[r] EXCEPT !.kind = "magnet"]
  BY <1>2 DEF TypeOK
<1> QED
  BY <1>2, <1>3, <1>4

LEMMA TypeStep == TypeOK /\ [Next]_vars => TypeOK'
<1> SUFFICES ASSUME TypeOK, [Next]_vars
             PROVE  TypeOK'
  OBVIOUS
<1>0. TorrentsTypeOK
  BY DEF TypeOK
<1>1. ASSUME NEW r \in Requests, NEW s \in Sources, Submit(r, s)
      PROVE  TypeOK'
  BY <1>0, <1>1, SourcesAssumption, NoneAssumption DEF TypeOK, Submit, Goto, Place, TorrentsTypeOK
<1>2. ASSUME NEW r \in Requests, Accept(r)
      PROVE  TypeOK'
  BY <1>0, <1>2 DEF TypeOK, Accept, Goto, Place, Kind, Submission, TorrentsTypeOK
<1>3. ASSUME NEW r \in Requests,
             Refuse(r) \/ ScrapeFails(r) \/ Conflict(r) \/ Unresolved(r) \/ ClientFails(r)
      PROVE  TypeOK'
  <2>1. End(r) /\ UNCHANGED <<torrents, vpn, fetching, metadata, answered>>
    BY <1>3 DEF Refuse, ScrapeFails, Conflict, Unresolved, ClientFails
  <2> QED
    BY <1>0, <2>1, EndType DEF TypeOK, TorrentsTypeOK
<1>4. ASSUME NEW r \in Requests, Scrape(r)
      PROVE  TypeOK'
  BY <1>0, <1>4, ScrapedSource, NoneAssumption DEF TypeOK, Scrape, Goto, Place, TorrentsTypeOK
<1>5. ASSUME NEW r \in Requests, Snapshot(r)
      PROVE  TypeOK'
  BY <1>0, <1>5 DEF TypeOK, Snapshot, Goto, Place, Tracked, TorrentsTypeOK
<1>6. ASSUME NEW r \in Requests, Add(r)
      PROVE  TypeOK'
  <2>1. source[r].hash \in Hashes
    BY <1>6 DEF TypeOK, Add, Submission
  <2>2. TorrentsTypeOK' /\ foreign' \in [Requests -> BOOLEAN] /\ fetching' \subseteq Hashes
    BY <1>0, <1>6, <2>1, AppearsType DEF TypeOK, Add, TorrentsTypeOK
  <2> QED
    BY <1>6, <2>2 DEF TypeOK, Add, Goto, Place
<1>7. ASSUME NEW r \in Requests, Resolve(r)
      PROVE  TypeOK'
  <2>1. PICK k \in MetadataKeys : found' = [found EXCEPT ![r] = k]
    BY <1>7 DEF TypeOK, Resolve, Submission, MetadataKeys, Form, Reported, Tracked
  <2>2. k # None
    BY NoneAssumption DEF MetadataKeys
  <2> QED
    BY <1>0, <1>7, <2>1, <2>2 DEF TypeOK, Resolve, Goto, Place, TorrentsTypeOK
<1>8. ASSUME NEW r \in Requests, Store(r)
      PROVE  TypeOK'
  <2>1. source[r].hash \in Hashes /\ found[r] \in MetadataKeys
    BY <1>8 DEF TypeOK, Store, Submission
  <2> QED
    BY <1>0, <1>8, <2>1, EndType DEF TypeOK, Store, TorrentsTypeOK
<1>9. ASSUME NEW h \in Hashes, TorrentFetched(h)
      PROVE  TypeOK'
  <2>1. TorrentsTypeOK' /\ foreign' \in [Requests -> BOOLEAN]
    BY <1>0, <1>9, AppearsType DEF TypeOK, TorrentFetched, TorrentsTypeOK
  <2> QED
    BY <1>9, <2>1 DEF TypeOK, TorrentFetched
<1>10. ASSUME NEW h \in Hashes, Remove(h)
       PROVE  TypeOK'
  <2>1. TorrentsTypeOK'
    BY <1>0, <1>10, ClientTypes DEF Remove
  <2> QED
    BY <1>10, <2>1 DEF TypeOK, Remove, downloadVars
<1>11. CASE VpnChanges
  <2>1. \A r \in Requests : (wasBound[r] \/ (vpn' /\ at[r] # "idle")) \in BOOLEAN
    BY <1>11 DEF TypeOK, VpnChanges
  <2> QED
    BY <1>0, <1>11, <2>1 DEF TypeOK, VpnChanges, TorrentsTypeOK
<1>12. CASE ClearCache \/ \E k \in MetadataKeys : Cull(k)
  BY <1>0, <1>12 DEF TypeOK, ClearCache, Cull, downloadVars, TorrentsTypeOK
<1>13. CASE Crash
  BY <1>0, <1>13 DEF TypeOK, Crash, Place, TorrentsTypeOK
<1>14. CASE UNCHANGED vars
  BY <1>0, <1>14 DEF TypeOK, vars, TorrentsTypeOK
<1> QED
  BY <1>1, <1>2, <1>3, <1>4, <1>5, <1>6, <1>7, <1>8, <1>9, <1>10, <1>11, <1>12, <1>13, <1>14
  DEF Next, Progress

(* Type correctness: a request that is about to store has found a key that *)
(* a torrent can be stored under.                                          *)
THEOREM TypeCorrect == Spec => []TypeOK
<1>1. Init => TypeOK
  BY DEF Init, TypeOK, TorrentsTypeOK, TorrentState, Place, Submission
<1> QED
  BY <1>1, TypeStep, PTL DEF Spec

-----------------------------------------------------------------------------
LEMMA BoundStep ==
    ASSUME TypeOK, BoundIsRemembered, [Next]_vars
    PROVE  BoundIsRemembered'
<1>1. ASSUME NEW r \in Requests, NEW s \in Sources, Submit(r, s)
      PROVE  BoundIsRemembered'
  BY <1>1 DEF TypeOK, BoundIsRemembered, Submit, Goto
<1>2. ASSUME NEW r \in Requests, Accept(r)
      PROVE  BoundIsRemembered'
  BY <1>2 DEF TypeOK, BoundIsRemembered, Accept, Goto
<1>3. ASSUME NEW r \in Requests,
             \/ Refuse(r) \/ ScrapeFails(r) \/ Conflict(r) \/ Unresolved(r)
             \/ Store(r) \/ ClientFails(r)
      PROVE  BoundIsRemembered'
  <2>1. End(r) /\ vpn' = vpn
    BY <1>3 DEF Refuse, ScrapeFails, Conflict, Unresolved, Store, ClientFails
  <2> QED
    BY <2>1 DEF TypeOK, BoundIsRemembered, End, Goto
<1>4. ASSUME NEW r \in Requests, Scrape(r) \/ Snapshot(r) \/ Add(r) \/ Resolve(r)
      PROVE  BoundIsRemembered'
  <2>1. at[r] \notin {"idle", "checking"} /\ UNCHANGED <<vpn, wasBound>>
    BY <1>4 DEF Scrape, Snapshot, Add, Resolve
  <2>2. \A q \in Requests \ {r} : at'[q] = at[q]
    BY <1>4 DEF TypeOK, Scrape, Snapshot, Add, Resolve, Goto
  <2> QED
    BY <2>1, <2>2 DEF BoundIsRemembered
<1>5. ASSUME NEW h \in Hashes, TorrentFetched(h) \/ Remove(h)
      PROVE  BoundIsRemembered'
  BY <1>5 DEF BoundIsRemembered, TorrentFetched, Remove, downloadVars
<1>6. CASE VpnChanges
  BY <1>6 DEF BoundIsRemembered, VpnChanges
<1>7. CASE ClearCache \/ (\E k \in MetadataKeys : Cull(k)) \/ UNCHANGED vars
  BY <1>7 DEF BoundIsRemembered, ClearCache, Cull, downloadVars, vars
<1>8. CASE Crash
  BY <1>8 DEF BoundIsRemembered, Crash
<1> QED
  BY <1>1, <1>2, <1>3, <1>4, <1>5, <1>6, <1>7, <1>8 DEF Next, Progress

(* The VPN check comes before everything a request does outside: whatever  *)
(* a request hands to qBittorrent, or reads from a page, it does after the *)
(* VPN was bound at some time since its submission.                        *)
THEOREM AddsOnlyIfBound == Spec => []AddOnlyIfBound
<1>1. Init => BoundIsRemembered
  BY DEF Init, BoundIsRemembered
<1>2. BoundIsRemembered => AddOnlyIfBound
  BY DEF BoundIsRemembered, AddOnlyIfBound
<1> QED
  BY <1>1, <1>2, BoundStep, TypeCorrect, PTL DEF Spec

-----------------------------------------------------------------------------
(* A torrent that comes into the listing leaves the account of every       *)
(* request in order: it is the request's own, it was listed before, or the *)
(* request is marked.                                                      *)
LEMMA AppearsIsAccounted ==
    ASSUME TypeOK, NEW h \in Hashes, Appears(h), NEW q \in Requests,
           at[q] \in {"adding", "resolving"}, ~foreign'[q],
           Tracked \ before[q] \subseteq {source[q].hash}
    PROVE  Tracked' \ before[q] \subseteq {source[q].hash}
<1>1. Tracked' = Tracked \cup {h}
  BY ListingEffects DEF TypeOK, Appears
<1>2. h \in Tracked \/ source[q].hash = h
  BY DEF Appears
<1> QED
  BY <1>1, <1>2

LEMMA DiffStep ==
    ASSUME TypeOK, DiffIsAccounted, [Next]_vars
    PROVE  DiffIsAccounted'
<1> SUFFICES ASSUME NEW q \in Requests, at'[q] # "idle", ~foreign'[q],
                    source'[q].kind = "torrent"
             PROVE  /\ at'[q] \in {"adding", "resolving"} =>
                          Tracked' \ before'[q] \subseteq {source'[q].hash}
                    /\ at'[q] = "storing" => found'[q] = Reported(source'[q].hash)
  BY DEF DiffIsAccounted, Reported
<1> DEFINE Kept == /\ at'[q] \in {"adding", "resolving"} =>
                          Tracked' \ before'[q] \subseteq {source'[q].hash}
                   /\ at'[q] = "storing" => found'[q] = Reported(source'[q].hash)
           Still == UNCHANGED <<at[q], source[q], before[q], found[q], foreign[q]>>
<1>0. TorrentsTypeOK
  BY DEF TypeOK
<1>1. ASSUME Still, Tracked' \subseteq Tracked
      PROVE  Kept
  BY <1>1 DEF DiffIsAccounted
<1>2. ASSUME NEW r \in Requests, NEW s \in Sources, Submit(r, s)
      PROVE  Kept
  <2>1. Tracked' = Tracked
    BY <1>2 DEF Submit, Tracked
  <2>2. CASE q = r
    BY <1>2, <2>2 DEF TypeOK, Submit, Goto
  <2>3. CASE q # r
    BY <1>1, <1>2, <2>1, <2>3 DEF TypeOK, Submit, Goto
  <2> QED
    BY <2>2, <2>3
<1>3. ASSUME NEW r \in Requests, Accept(r)
      PROVE  Kept
  <2>1. Tracked' = Tracked
    BY <1>3 DEF Accept, Tracked
  <2>2. CASE q = r
    BY <1>3, <2>2 DEF TypeOK, Accept, Goto
  <2>3. CASE q # r
    BY <1>1, <1>3, <2>1, <2>3 DEF TypeOK, Accept, Goto
  <2> QED
    BY <2>2, <2>3
<1>4. ASSUME NEW r \in Requests,
             \/ Refuse(r) \/ ScrapeFails(r) \/ Conflict(r) \/ Unresolved(r)
             \/ Store(r) \/ ClientFails(r)
      PROVE  Kept
  <2>1. End(r) /\ UNCHANGED torrents
    BY <1>4 DEF Refuse, ScrapeFails, Conflict, Unresolved, Store, ClientFails
  <2>2. Tracked' = Tracked
    BY <2>1 DEF Tracked
  <2>3. q # r
    BY <2>1 DEF TypeOK, End, Goto
  <2> QED
    BY <1>1, <2>1, <2>2, <2>3 DEF TypeOK, End, Goto
<1>5. ASSUME NEW r \in Requests, Scrape(r)
      PROVE  Kept
  <2>1. Tracked' = Tracked
    BY <1>5 DEF Scrape, Tracked
  <2>2. q # r
    BY <1>5, ScrapedSource
  <2> QED
    BY <1>1, <1>5, <2>1, <2>2, ScrapedSource DEF TypeOK, Scrape, Goto
<1>6. ASSUME NEW r \in Requests, Snapshot(r)
      PROVE  Kept
  <2>1. Tracked' = Tracked
    BY <1>6 DEF Snapshot, Tracked
  <2>2. CASE q = r
    BY <1>6, <2>1, <2>2 DEF TypeOK, Snapshot, Goto
  <2>3. CASE q # r
    BY <1>1, <1>6, <2>1, <2>3 DEF TypeOK, Snapshot, Goto
  <2> QED
    BY <2>2, <2>3
<1>7. ASSUME NEW r \in Requests, Add(r)
      PROVE  Kept
  <2>1. source[r].hash \in Hashes /\ UNCHANGED <<source, before, found>>
    BY <1>7 DEF TypeOK, Add, Submission
  <2>2. /\ ~foreign[q]
        /\ q = r => at[q] = "adding" /\ at'[q] = "resolving"
        /\ q # r => at'[q] = at[q]
    BY <1>7 DEF TypeOK, Add, Appears, Goto
  <2>3. ASSUME at[q] \in {"adding", "resolving"}
        PROVE  Tracked' \ before[q] \subseteq {source[q].hash}
    <3>1. Tracked \ before[q] \subseteq {source[q].hash}
      BY <2>1, <2>2, <2>3 DEF DiffIsAccounted
    <3>2. Appears(source[r].hash) \/ UNCHANGED torrents
      BY <1>7 DEF Add
    <3> QED
      BY <1>0, <2>1, <2>3, <3>1, <3>2, AppearsIsAccounted, ListingEffects
  <2> QED
    BY <2>1, <2>2, <2>3 DEF DiffIsAccounted
<1>8. ASSUME NEW r \in Requests, Resolve(r)
      PROVE  Kept
  <2>1. Tracked' = Tracked
    BY <1>8 DEF Resolve, Tracked
  <2>2. CASE q = r
    <3>1. /\ at[r] = "resolving" /\ at'[r] = "storing" /\ ~foreign[r]
          /\ source[r].kind = "torrent" /\ source' = source
      BY <1>8, <2>2 DEF TypeOK, Resolve, Goto
    <3>2. PICK h \in Tracked \ before[r] : found' = [found EXCEPT ![r] = Reported(h)]
      BY <1>8, <3>1 DEF Resolve
    <3>3. h = source[r].hash
      BY <3>1, <3>2 DEF DiffIsAccounted
    <3> QED
      BY <2>2, <3>1, <3>2, <3>3 DEF TypeOK
  <2>3. CASE q # r
    BY <1>1, <1>8, <2>1, <2>3 DEF TypeOK, Resolve, Goto
  <2> QED
    BY <2>2, <2>3
<1>9. ASSUME NEW h \in Hashes, TorrentFetched(h)
      PROVE  Kept
  <2>1. UNCHANGED <<at, source, before, found>> /\ ~foreign[q]
    BY <1>9 DEF TypeOK, TorrentFetched, Appears
  <2>2. ASSUME at[q] \in {"adding", "resolving"}
        PROVE  Tracked' \ before[q] \subseteq {source[q].hash}
    <3>1. Tracked \ before[q] \subseteq {source[q].hash}
      BY <2>1, <2>2 DEF DiffIsAccounted
    <3>2. Appears(h) \/ UNCHANGED torrents
      BY <1>9 DEF TorrentFetched
    <3> QED
      BY <1>0, <2>2, <3>1, <3>2, AppearsIsAccounted, ListingEffects
  <2> QED
    BY <2>1, <2>2 DEF DiffIsAccounted
<1>10. ASSUME NEW h \in Hashes, Remove(h)
       PROVE  Kept
  <2>1. Tracked' \subseteq Tracked
    BY <1>0, <1>10, ListingEffects DEF Remove
  <2> QED
    BY <1>1, <1>10, <2>1 DEF Remove, downloadVars
<1>11. CASE VpnChanges \/ ClearCache \/ (\E k \in MetadataKeys : Cull(k)) \/ UNCHANGED vars
  <2>1. Tracked' = Tracked
    BY <1>11 DEF VpnChanges, ClearCache, Cull, vars, Tracked
  <2> QED
    BY <1>1, <1>11, <2>1 DEF VpnChanges, ClearCache, Cull, downloadVars, vars
<1>12. CASE Crash
  BY <1>12 DEF Crash
<1> QED
  BY <1>2, <1>3, <1>4, <1>5, <1>6, <1>7, <1>8, <1>9, <1>10, <1>11, <1>12 DEF Next, Progress

(* The comparison of listings (_resolve_added_hash) finds the request's    *)
(* own torrent unless somebody else's came into the listing since the      *)
(* snapshot - with any number of requests, and removals in between.        *)
THEOREM DiffIsOwn == Spec => []DiffIsOwnUnlessForeign
<1>1. Init => DiffIsAccounted
  BY DEF Init, DiffIsAccounted
<1>2. DiffIsAccounted => DiffIsOwnUnlessForeign
  BY DEF DiffIsAccounted, DiffIsOwnUnlessForeign
<1> QED
  BY <1>1, <1>2, DiffStep, TypeCorrect, PTL DEF Spec

-----------------------------------------------------------------------------
(* No page is handed to qBittorrent, and what a request found for a magnet *)
(* is the hash in the magnet's text.                                       *)
MagnetsTellTheirHash ==
    \A r \in Requests :
        /\ at[r] \in {"snapshot", "adding", "resolving", "storing"} => source[r].kind # "page"
        /\ at[r] = "storing" /\ source[r].kind = "magnet"
             => found[r] = <<source[r].form, source[r].hash>>

LEMMA MagnetsStep ==
    ASSUME TypeOK, MagnetsTellTheirHash, [Next]_vars
    PROVE  MagnetsTellTheirHash'
<1>1. ASSUME NEW r \in Requests, NEW s \in Sources, Submit(r, s)
      PROVE  MagnetsTellTheirHash'
  BY <1>1 DEF TypeOK, MagnetsTellTheirHash, Submit, Goto
<1>2. ASSUME NEW r \in Requests, Accept(r)
      PROVE  MagnetsTellTheirHash'
  <2>1. source[r] \in Submission
    BY <1>2 DEF TypeOK, Accept
  <2>2. source[r].kind = "page" => at'[r] = "scraping"
    BY <1>2 DEF TypeOK, Accept, Goto
  <2>3. at'[r] # "storing"
    BY <1>2, <2>1 DEF TypeOK, Accept, Goto, Submission, Kind
  <2> QED
    BY <1>2, <2>2, <2>3 DEF TypeOK, MagnetsTellTheirHash, Accept, Goto
<1>3. ASSUME NEW r \in Requests,
             \/ Refuse(r) \/ ScrapeFails(r) \/ Conflict(r) \/ Unresolved(r)
             \/ Store(r) \/ ClientFails(r)
      PROVE  MagnetsTellTheirHash'
  <2>1. End(r)
    BY <1>3 DEF Refuse, ScrapeFails, Conflict, Unresolved, Store, ClientFails
  <2> QED
    BY <2>1 DEF TypeOK, MagnetsTellTheirHash, End, Goto
<1>4. ASSUME NEW r \in Requests, Scrape(r)
      PROVE  MagnetsTellTheirHash'
  BY <1>4, ScrapedSource DEF TypeOK, MagnetsTellTheirHash, Scrape, Goto
<1>5. ASSUME NEW r \in Requests, Snapshot(r) \/ Add(r)
      PROVE  MagnetsTellTheirHash'
  BY <1>5 DEF TypeOK, MagnetsTellTheirHash, Snapshot, Add, Goto
<1>6. ASSUME NEW r \in Requests, Resolve(r)
      PROVE  MagnetsTellTheirHash'
  <2>1. source[r].kind = "magnet"
          => found' = [found EXCEPT ![r] = <<source[r].form, source[r].hash>>]
    BY <1>6 DEF Resolve
  <2>2. \A q \in Requests \ {r} : found'[q] = found[q]
    BY <1>6 DEF TypeOK, Resolve
  <2> QED
    BY <1>6, <2>1, <2>2 DEF TypeOK, MagnetsTellTheirHash, Resolve, Goto
<1>7. CASE UNCHANGED <<at, source, found>>
  BY <1>7 DEF MagnetsTellTheirHash
<1>8. CASE Crash
  BY <1>8 DEF MagnetsTellTheirHash, Crash
<1> QED
  BY <1>1, <1>2, <1>3, <1>4, <1>5, <1>6, <1>7, <1>8
  DEF Next, Progress, TorrentFetched, Remove, VpnChanges, Cull, ClearCache, downloadVars, vars

(* What a request stores, if no other torrent disturbed its comparison, is *)
(* under the key of its own torrent.                                       *)
LEMMA StoresItsOwn ==
    ASSUME TypeOK, MagnetsTellTheirHash, DiffIsAccounted, NEW r \in Requests, Store(r),
           source[r].kind = "magnet" \/ ~foreign[r]
    PROVE  found[r][2] = source[r].hash
<1>1. at[r] = "storing" /\ source[r] \in Submission
  BY DEF TypeOK, Store
<1>2. CASE source[r].kind = "magnet"
  BY <1>1, <1>2 DEF MagnetsTellTheirHash
<1>3. CASE source[r].kind = "torrent" /\ ~foreign[r]
  BY <1>1, <1>3 DEF DiffIsAccounted, Reported
<1>4. source[r].kind \in {"magnet", "torrent"}
  BY <1>1 DEF MagnetsTellTheirHash, Submission, Kind
<1> QED
  BY <1>2, <1>3, <1>4

LEMMA InfoStep ==
    ASSUME TypeOK, MagnetsTellTheirHash, DiffIsAccounted, InfoAfterAnswer, [Next]_vars
    PROVE  InfoAfterAnswer'
<1>1. ASSUME NEW r \in Requests, Store(r)
      PROVE  InfoAfterAnswer'
  <2>1. found[r] \in MetadataKeys /\ source[r].hash \in Hashes
    BY <1>1 DEF TypeOK, Store, Submission
  <2>2. /\ metadata'[found[r]] = source[r].hash
        /\ \A k \in MetadataKeys \ {found[r]} : metadata'[k] = metadata[k]
    BY <1>1, <2>1 DEF TypeOK, Store
  <2>3. \A k \in answered' : k \in answered \/ k = found[r]
    BY <1>1 DEF Store
  <2>4. ASSUME found[r] \in answered'
        PROVE  found[r][2] = source[r].hash
    <3>1. source[r].kind = "magnet" \/ ~foreign[r]
      BY <1>1, <2>4 DEF Store
    <3> QED
      BY <1>1, <3>1, StoresItsOwn
  <2> QED
    BY <2>1, <2>2, <2>3, <2>4 DEF TypeOK, InfoAfterAnswer
<1>2. ASSUME NEW k \in MetadataKeys, Cull(k)
      PROVE  InfoAfterAnswer'
  BY <1>2 DEF TypeOK, InfoAfterAnswer, Cull
<1>3. CASE ClearCache
  BY <1>3 DEF InfoAfterAnswer, ClearCache
<1>4. CASE UNCHANGED <<metadata, answered>>
  BY <1>4 DEF InfoAfterAnswer
<1>5. [Next]_vars => \/ \E r \in Requests : Store(r)
                     \/ \E k \in MetadataKeys : Cull(k)
                     \/ ClearCache
                     \/ UNCHANGED <<metadata, answered>>
  BY DEF Next, Progress, vars, Submit, Accept, Refuse, Scrape, ScrapeFails, Snapshot, Add,
         Conflict, Resolve, Unresolved, ClientFails, TorrentFetched, Remove, VpnChanges, Crash
<1> QED
  BY <1>1, <1>2, <1>3, <1>4, <1>5

(* README.md:81: the metadata under a hash that a request was answered with*)
(* is that of its own torrent, across other requests, removals and crashes *)
(* - until the cache loses the entry, or a request whose comparison of     *)
(* listings another torrent disturbed stores over it.                      *)
THEOREM InfoFollowsAnswer == Spec => []InfoAfterAnswer
<1>1. Init => MagnetsTellTheirHash /\ DiffIsAccounted /\ InfoAfterAnswer
  BY DEF Init, MagnetsTellTheirHash, DiffIsAccounted, InfoAfterAnswer
<1>2. /\ TypeOK /\ MagnetsTellTheirHash /\ DiffIsAccounted /\ InfoAfterAnswer
      /\ [Next]_vars
      => MagnetsTellTheirHash' /\ DiffIsAccounted' /\ InfoAfterAnswer'
  BY MagnetsStep, DiffStep, InfoStep
<1> QED
  BY <1>1, <1>2, TypeCorrect, PTL DEF Spec

-----------------------------------------------------------------------------
(* Without .torrent URLs every hash comes from a magnet, and what a request*)
(* stores is under the hash of its own magnet.                             *)
HashesAreOwn ==
    /\ \A r \in Requests :
        /\ at[r] # "snapshot"
        /\ at[r] # "idle" => source[r].kind # "torrent"
        /\ at[r] \in {"adding", "resolving", "storing"} => source[r].kind = "magnet"
        /\ at[r] = "storing" => found[r] = <<source[r].form, source[r].hash>>
    /\ MetadataIsOfItsTorrent

LEMMA OwnStep ==
    ASSUME \A s \in Sources : s.kind # "torrent",
           TypeOK, HashesAreOwn, [Next]_vars
    PROVE  HashesAreOwn'
<1> USE DEF HashesAreOwn
<1>1. ASSUME NEW r \in Requests, NEW s \in Sources, Submit(r, s)
      PROVE  HashesAreOwn'
  BY <1>1 DEF TypeOK, Submit, Goto, MetadataIsOfItsTorrent
<1>2. ASSUME NEW r \in Requests, Accept(r)
      PROVE  HashesAreOwn'
  <2>1. source[r].kind \in {"magnet", "page"}
    BY <1>2 DEF TypeOK, Accept, Submission, Kind
  <2> QED
    BY <1>2, <2>1 DEF TypeOK, Accept, Goto, MetadataIsOfItsTorrent
<1>3. ASSUME NEW r \in Requests,
             Refuse(r) \/ ScrapeFails(r) \/ Conflict(r) \/ Unresolved(r) \/ ClientFails(r)
      PROVE  HashesAreOwn'
  <2>1. End(r) /\ UNCHANGED metadata
    BY <1>3 DEF Refuse, ScrapeFails, Conflict, Unresolved, ClientFails
  <2> QED
    BY <2>1 DEF TypeOK, End, Goto, MetadataIsOfItsTorrent
<1>4. ASSUME NEW r \in Requests, Scrape(r)
      PROVE  HashesAreOwn'
  BY <1>4, ScrapedSource DEF TypeOK, Scrape, Goto, MetadataIsOfItsTorrent
<1>5. ASSUME NEW r \in Requests, Snapshot(r)
      PROVE  FALSE
  BY <1>5 DEF Snapshot
<1>6. ASSUME NEW r \in Requests, Add(r)
      PROVE  HashesAreOwn'
  BY <1>6 DEF TypeOK, Add, Goto, MetadataIsOfItsTorrent
<1>7. ASSUME NEW r \in Requests, Resolve(r)
      PROVE  HashesAreOwn'
  <2>1. source[r].kind = "magnet" /\ found' = [found EXCEPT ![r] = <<source[r].form, source[r].hash>>]
    BY <1>7 DEF Resolve
  <2> QED
    BY <1>7, <2>1 DEF TypeOK, Resolve, Goto, MetadataIsOfItsTorrent
<1>8. ASSUME NEW r \in Requests, Store(r)
      PROVE  HashesAreOwn'
  <2>1. /\ found[r] = <<source[r].form, source[r].hash>>
        /\ found[r] \in MetadataKeys
        /\ End(r)
        /\ metadata' = [metadata EXCEPT ![found[r]] = source[r].hash]
    BY <1>8 DEF TypeOK, Store
  <2>2. ASSUME NEW h \in Hashes
        PROVE  metadata'[Reported(h)] \in {h, None}
    <3>1. CASE found[r] = Reported(h)
      BY <2>1, <3>1 DEF TypeOK, Reported
    <3>2. CASE found[r] # Reported(h)
      BY <2>1, <3>2 DEF TypeOK, MetadataIsOfItsTorrent, MetadataKeys, Form, Reported
    <3> QED
      BY <3>1, <3>2
  <2>3. MetadataIsOfItsTorrent'
    BY <2>2 DEF MetadataIsOfItsTorrent, Reported
  <2> QED
    BY <2>1, <2>3 DEF TypeOK, End, Goto
<1>9. ASSUME NEW h \in Hashes, TorrentFetched(h) \/ Remove(h)
      PROVE  HashesAreOwn'
  BY <1>9 DEF TorrentFetched, Remove, downloadVars, MetadataIsOfItsTorrent
<1>10. CASE VpnChanges \/ UNCHANGED vars
  BY <1>10 DEF VpnChanges, vars, MetadataIsOfItsTorrent
<1>11. CASE ClearCache \/ \E k \in MetadataKeys : Cull(k)
  BY <1>11 DEF TypeOK, ClearCache, Cull, downloadVars, MetadataIsOfItsTorrent, MetadataKeys, Form,
               Reported
<1>12. CASE Crash
  BY <1>12 DEF Crash, MetadataIsOfItsTorrent
<1> QED
  BY <1>1, <1>2, <1>3, <1>4, <1>5, <1>6, <1>7, <1>8, <1>9, <1>10, <1>11, <1>12 DEF Next, Progress

(* transfers.py:92-93, as far as it holds: of magnets alone, straight or   *)
(* from a page, every torrent's metadata is what its own request stored,   *)
(* however the requests overlap.  The run two_torrent_urls shows that the  *)
(* assumption cannot go.                                                   *)
THEOREM MagnetsKeepTheirMetadata ==
    ASSUME \A s \in Sources : s.kind # "torrent"
    PROVE  Spec => []MetadataIsOfItsTorrent
<1>1. Init => HashesAreOwn
  BY DEF Init, HashesAreOwn, MetadataIsOfItsTorrent, MetadataKeys, Form, Reported
<1>2. HashesAreOwn => MetadataIsOfItsTorrent
  BY DEF HashesAreOwn
<1>3. TypeOK /\ HashesAreOwn /\ [Next]_vars => HashesAreOwn'
  BY OwnStep
<1> QED
  BY <1>1, <1>2, <1>3, TypeCorrect, PTL DEF Spec
=============================================================================
