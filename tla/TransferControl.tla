--------------------------- MODULE TransferControl ---------------------------
(***************************************************************************)
(* The actions on transfers: POST /transfers/stop-seeding lists what seeds *)
(* and pauses it one call at a time, POST /transfers/{hash}/resume and     *)
(* DELETE /transfers/{hash} look the torrent up and then act on its hash.  *)
(* None of them holds the client between its calls, so other requests,     *)
(* people at the WebUI and qBittorrent itself come in between.             *)
(***************************************************************************)
EXTENDS QBittorrent

CONSTANTS
    Requests    \* the callers of the three routes; each may call again

VARIABLES
    at,         \* [Requests -> Place]
    target,     \* [Requests -> what the request still has to act on]
    listed,     \* history: [Requests -> what was seeding when it listed]
    started,    \* history: [Requests -> what began to run since it looked]
    answer      \* [Requests -> Answers], what its last call was answered

requestVars == <<at, target, listed, started, answer>>

vars == <<torrents, requestVars>>

Place == {"idle", "stopping", "resuming", "removing"}

Answers == {"none", "success", "not found", "error"}

Init ==
    /\ torrents = [h \in Hashes |-> "absent"]
    /\ at = [r \in Requests |-> "idle"]
    /\ target = [r \in Requests |-> {}]
    /\ listed = [r \in Requests |-> {}]
    /\ started = [r \in Requests |-> {}]
    /\ answer = [r \in Requests |-> "none"]

\* The client has answered the first call of the request.
Enter(r, p, hs) ==
    /\ at[r] = "idle"
    /\ at' = [at EXCEPT ![r] = p]
    /\ target' = [target EXCEPT ![r] = hs]
    /\ listed' = [listed EXCEPT ![r] = hs]
    /\ started' = [started EXCEPT ![r] = {}]
    /\ answer' = [answer EXCEPT ![r] = "none"]

Leave(r, a) ==
    /\ at' = [at EXCEPT ![r] = "idle"]
    /\ target' = [target EXCEPT ![r] = {}]
    /\ answer' = [answer EXCEPT ![r] = a]
    /\ UNCHANGED listed

Starts(h) == started' = [r \in Requests |-> started[r] \cup {h}]

-----------------------------------------------------------------------------
\* Mutant of ListSeeding: the listing is not filtered.
ListAll(r) ==
    /\ Enter(r, "stopping", Tracked)
    /\ UNCHANGED torrents

\* stop_seeding_transfers: torrents_info with the filter "seeding".
ListSeeding(r) ==
    /\ Enter(r, "stopping", Seeding)
    /\ UNCHANGED torrents

\* Mutant of Pause: the loop lists again at every turn.
PauseListsAgain(r, h) ==
    /\ at[r] = "stopping"
    /\ h \in target[r]
    /\ PauseTorrent(h)
    /\ target' = [target EXCEPT ![r] = Seeding \ {h}]
    /\ UNCHANGED <<at, listed, started, answer>>

\* torrents_pause of the next one in the listing.
Pause(r, h) ==
    /\ at[r] = "stopping"
    /\ h \in target[r]
    /\ PauseTorrent(h)
    /\ target' = [target EXCEPT ![r] = @ \ {h}]
    /\ UNCHANGED <<at, listed, started, answer>>

\* Mutant of Stopped: the answer does not wait for the loop.
StoppedAtOnce(r) ==
    /\ at[r] = "stopping"
    /\ Leave(r, "success")
    /\ UNCHANGED <<torrents, started>>

\* The loop is over.
Stopped(r) ==
    /\ at[r] = "stopping"
    /\ target[r] = {}
    /\ Leave(r, "success")
    /\ UNCHANGED <<torrents, started>>

\* _require_transfer: qBittorrent holds the torrent now.
Require(r, p, h) ==
    /\ h \in Tracked
    /\ p \in {"resuming", "removing"}
    /\ Enter(r, p, {h})
    /\ UNCHANGED torrents

\* _require_transfer: it does not, and the request is answered 404.
NotFound(r, h) ==
    /\ at[r] = "idle"
    /\ h \notin Tracked
    /\ answer' = [answer EXCEPT ![r] = "not found"]
    /\ UNCHANGED <<torrents, at, target, listed, started>>

\* resume_transfer.
Resume(r, h) ==
    /\ at[r] = "resuming"
    /\ h \in target[r]
    /\ ResumeTorrent(h)
    /\ Starts(h)
    /\ Leave(r, "success")

\* remove_transfer, with the files or without.
RemoveTransfer(r, h) ==
    /\ at[r] = "removing"
    /\ h \in target[r]
    /\ DeleteTorrent(h)
    /\ Leave(r, "success")
    /\ UNCHANGED started

\* A call of the client raises: what was done stays done, the rest undone.
ClientFails(r) ==
    /\ at[r] # "idle"
    /\ Leave(r, "error")
    /\ UNCHANGED <<torrents, started>>

-----------------------------------------------------------------------------
\* A torrent is added, by POST /download or in the WebUI.
Added(h) ==
    /\ h \notin Tracked
    /\ AddTorrent(h)
    /\ Starts(h)
    /\ UNCHANGED <<at, target, listed, answer>>

Completed(h) ==
    /\ CompleteTorrent(h)
    /\ UNCHANGED requestVars

RequestStep(r) ==
    \/ ListSeeding(r)
    \/ Stopped(r)
    \/ ClientFails(r)
    \/ \E h \in Hashes :
        \/ Pause(r, h)
        \/ Resume(r, h)
        \/ RemoveTransfer(r, h)
        \/ NotFound(r, h)
        \/ \E p \in {"resuming", "removing"} : Require(r, p, h)

Next ==
    \/ \E r \in Requests : RequestStep(r)
    \/ \E h \in Hashes : Added(h) \/ Completed(h)

Spec == Init /\ [][Next]_vars

-----------------------------------------------------------------------------
TypeOK ==
    /\ TorrentsTypeOK
    /\ at \in [Requests -> Place]
    /\ target \in [Requests -> SUBSET Hashes]
    /\ \A r \in Requests : target[r] \subseteq listed[r]
    /\ \A r \in Requests : at[r] \in {"resuming", "removing"} => target[r] # {}
    /\ listed \in [Requests -> SUBSET Hashes]
    /\ started \in [Requests -> SUBSET Hashes]
    /\ answer \in [Requests -> Answers]

(* routers/transfers.py:250: a stop-seeding answered with success has      *)
(* stopped everything that was seeding when it listed: none of it seeds at *)
(* the answer, but for what somebody started since.                        *)
StopsWhatSeeded ==
    [][\A r \in Requests :
        at[r] = "stopping" /\ at'[r] = "idle" /\ answer'[r] = "success"
            => listed[r] \cap Seeding \subseteq started[r]]_vars

(* README.md:84 says that stop-seeding never touches in-progress downloads.*)
(* It may, but only one that began to run since the listing: the one that  *)
(* was removed and added again in between.                                 *)
PausedDownloadIsNew ==
    [][\A h \in Hashes :
        torrents[h] = "downloading" /\ torrents'[h] = "stopped download"
            => \E r \in Requests : h \in target[r] \cap started[r]]_vars
=============================================================================
