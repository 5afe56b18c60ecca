----------------------- MODULE TransferControl_proofs -----------------------
(***************************************************************************)
(* Theorems about TransferControl, for any callers and any torrents.       *)
(*                                                                         *)
(* Both promises of stop-seeding are about the time between its listing    *)
(* and its calls.  What carries them over that time is RunningIsAccounted: *)
(* a listed torrent that runs again was started by somebody since, and one *)
(* that seeds still is among what is left to pause or was started since.   *)
(***************************************************************************)
EXTENDS TransferControl, QBittorrent_proofs, TLAPS

(* Of what a stop-seeding listed, whatever downloads has been started      *)
(* since, and whatever seeds has been started since or is still to pause.  *)
RunningIsAccounted ==
    \A r \in Requests : at[r] = "stopping" =>
        \A h \in listed[r] :
            /\ torrents[h] = "downloading" => h \in started[r]
            /\ torrents[h] = "seeding" => h \in target[r] \cup started[r]

-----------------------------------------------------------------------------
(* Types.                                                                  *)

LEMMA EnterType ==
    ASSUME TypeOK, NEW r \in Requests, NEW p \in Place \ {"idle"}, NEW hs \in SUBSET Hashes,
           p \in {"resuming", "removing"} => hs # {},
           Enter(r, p, hs), TorrentsTypeOK'
    PROVE  TypeOK'
BY DEF TypeOK, Enter, Place, Answers

LEMMA LeaveType ==
    ASSUME TypeOK, NEW r \in Requests, NEW a \in Answers, Leave(r, a), TorrentsTypeOK',
           started' \in [Requests -> SUBSET Hashes]
    PROVE  TypeOK'
BY DEF TypeOK, Leave, Place, Answers

LEMMA TypeStep == TypeOK /\ [Next]_vars => TypeOK'
<1> SUFFICES ASSUME TypeOK, [Next]_vars
             PROVE  TypeOK'
  OBVIOUS
<1>0. TorrentsTypeOK /\ started \in [Requests -> SUBSET Hashes]
  BY DEF TypeOK
<1>1. ASSUME NEW r \in Requests, ListSeeding(r)
      PROVE  TypeOK'
  <2>1. Seeding \in SUBSET Hashes /\ TorrentsTypeOK'
    BY <1>0, <1>1 DEF ListSeeding, Seeding, TorrentsTypeOK
  <2> QED
    BY <1>1, <2>1, EnterType DEF ListSeeding, Place
<1>2. ASSUME NEW r \in Requests, Stopped(r) \/ ClientFails(r)
      PROVE  TypeOK'
  <2>1. TorrentsTypeOK' /\ started' = started
    BY <1>0, <1>2 DEF Stopped, ClientFails, TorrentsTypeOK
  <2> QED
    BY <1>0, <1>2, <2>1, LeaveType DEF Stopped, ClientFails, Answers
<1>3. ASSUME NEW r \in Requests, NEW h \in Hashes, Pause(r, h)
      PROVE  TypeOK'
  <2>1. TorrentsTypeOK'
    BY <1>0, <1>3, ClientTypes DEF Pause
  <2> QED
    BY <1>3, <2>1 DEF TypeOK, Pause
<1>4. ASSUME NEW r \in Requests, NEW h \in Hashes, Resume(r, h) \/ RemoveTransfer(r, h)
      PROVE  TypeOK'
  <2>1. TorrentsTypeOK'
    BY <1>0, <1>4, ClientTypes DEF Resume, RemoveTransfer
  <2>2. started' \in [Requests -> SUBSET Hashes]
    BY <1>0, <1>4 DEF Resume, RemoveTransfer, Starts
  <2> QED
    BY <1>4, <2>1, <2>2, LeaveType DEF Resume, RemoveTransfer, Answers
<1>5. ASSUME NEW r \in Requests, NEW h \in Hashes, NotFound(r, h)
      PROVE  TypeOK'
  BY <1>5 DEF TypeOK, NotFound, Answers, TorrentsTypeOK
<1>6. ASSUME NEW r \in Requests, NEW h \in Hashes, NEW p \in {"resuming", "removing"},
             Require(r, p, h)
      PROVE  TypeOK'
  <2>1. TorrentsTypeOK'
    BY <1>0, <1>6 DEF Require, TorrentsTypeOK
  <2> QED
    BY <1>6, <2>1, EnterType DEF Require, Place
<1>7. ASSUME NEW h \in Hashes, Added(h)
      PROVE  TypeOK'
  <2>1. TorrentsTypeOK'
    BY <1>0, <1>7, ClientTypes DEF Added
  <2> QED
    BY <1>7, <2>1 DEF TypeOK, Added, Starts
<1>8. ASSUME NEW h \in Hashes, Completed(h)
      PROVE  TypeOK'
  <2>1. TorrentsTypeOK'
    BY <1>0, <1>8, ClientTypes DEF Completed
  <2> QED
    BY <1>8, <2>1 DEF TypeOK, Completed, requestVars
<1>9. CASE UNCHANGED vars
  BY <1>9 DEF TypeOK, vars, requestVars, TorrentsTypeOK
<1> QED
  BY <1>1, <1>2, <1>3, <1>4, <1>5, <1>6, <1>7, <1>8, <1>9 DEF Next, RequestStep

(* Type correctness: what a request still has to act on was listed by it,  *)
(* and a resume or a removal has its torrent until it returns.             *)
THEOREM TypeCorrect == Spec => []TypeOK
<1>1. Init => TypeOK
  BY DEF Init, TypeOK, TorrentsTypeOK, TorrentState, Place, Answers
<1> QED
  BY <1>1, TypeStep, PTL DEF Spec

-----------------------------------------------------------------------------
(* Nothing but a start makes a torrent run, and starts are accounted for.  *)
LEMMA AccountStep ==
    ASSUME TypeOK, RunningIsAccounted, [Next]_vars
    PROVE  RunningIsAccounted'
<1> SUFFICES ASSUME NEW q \in Requests, at'[q] = "stopping", NEW g \in listed'[q]
             PROVE  /\ torrents'[g] = "downloading" => g \in started'[q]
                    /\ torrents'[g] = "seeding" => g \in target'[q] \cup started'[q]
  BY DEF RunningIsAccounted
<1>0. TorrentsTypeOK
  BY DEF TypeOK
<1>1. ASSUME NEW r \in Requests, ListSeeding(r)
      PROVE  /\ torrents'[g] = "downloading" => g \in started'[q]
             /\ torrents'[g] = "seeding" => g \in target'[q] \cup started'[q]
  BY <1>1 DEF TypeOK, RunningIsAccounted, ListSeeding, Enter, Seeding
<1>2. ASSUME NEW r \in Requests, Stopped(r) \/ ClientFails(r)
      PROVE  /\ torrents'[g] = "downloading" => g \in started'[q]
             /\ torrents'[g] = "seeding" => g \in target'[q] \cup started'[q]
  BY <1>2 DEF TypeOK, RunningIsAccounted, Stopped, ClientFails, Leave
<1>3. ASSUME NEW r \in Requests, NEW h \in Hashes, Pause(r, h)
      PROVE  /\ torrents'[g] = "downloading" => g \in started'[q]
             /\ torrents'[g] = "seeding" => g \in target'[q] \cup started'[q]
  <2>1. g \in Hashes /\ g \in listed[q] /\ at[q] = "stopping"
    BY <1>3 DEF TypeOK, Pause
  <2>2. CASE g = h
    BY <1>0, <1>3, <2>2, ClientEffects DEF Pause
  <2>3. CASE g # h
    <3>1. torrents'[g] = torrents[g]
      BY <1>0, <1>3, <2>1, <2>3, ClientEffects DEF Pause
    <3> QED
      BY <1>3, <2>1, <2>3, <3>1 DEF TypeOK, RunningIsAccounted, Pause
  <2> QED
    BY <2>2, <2>3
<1>4. ASSUME NEW r \in Requests, NEW h \in Hashes, Resume(r, h) \/ RemoveTransfer(r, h)
      PROVE  /\ torrents'[g] = "downloading" => g \in started'[q]
             /\ torrents'[g] = "seeding" => g \in target'[q] \cup started'[q]
  <2>1. at[q] = "stopping" /\ q # r /\ g \in listed[q] /\ g \in Hashes /\ target'[q] = target[q]
    BY <1>4 DEF TypeOK, Resume, RemoveTransfer, Leave
  <2>2. started[q] \subseteq started'[q] /\ (Resume(r, h) => h \in started'[q])
    BY <1>4 DEF TypeOK, Resume, RemoveTransfer, Starts
  <2>3. g # h => torrents'[g] = torrents[g]
    BY <1>0, <1>4, <2>1, ClientEffects DEF Resume, RemoveTransfer
  <2>4. RemoveTransfer(r, h) => torrents'[h] = "absent"
    BY <1>0, ClientEffects DEF RemoveTransfer
  <2> QED
    BY <1>4, <2>1, <2>2, <2>3, <2>4 DEF RunningIsAccounted
<1>5. ASSUME NEW r \in Requests, NEW h \in Hashes, NotFound(r, h)
      PROVE  /\ torrents'[g] = "downloading" => g \in started'[q]
             /\ torrents'[g] = "seeding" => g \in target'[q] \cup started'[q]
  BY <1>5 DEF RunningIsAccounted, NotFound
<1>6. ASSUME NEW r \in Requests, NEW h \in Hashes, NEW p \in {"resuming", "removing"},
             Require(r, p, h)
      PROVE  /\ torrents'[g] = "downloading" => g \in started'[q]
             /\ torrents'[g] = "seeding" => g \in target'[q] \cup started'[q]
  BY <1>6 DEF TypeOK, RunningIsAccounted, Require, Enter
<1>7. ASSUME NEW h \in Hashes, Added(h)
      PROVE  /\ torrents'[g] = "downloading" => g \in started'[q]
             /\ torrents'[g] = "seeding" => g \in target'[q] \cup started'[q]
  <2>1. g \in Hashes /\ g \in listed[q] /\ at[q] = "stopping" /\ target' = target
    BY <1>7 DEF TypeOK, Added
  <2>2. started'[q] = started[q] \cup {h}
    BY <1>7 DEF Added, Starts
  <2>3. g # h => torrents'[g] = torrents[g]
    BY <1>0, <1>7, <2>1, ClientEffects DEF Added
  <2> QED
    BY <2>1, <2>2, <2>3 DEF RunningIsAccounted
<1>8. ASSUME NEW h \in Hashes, Completed(h)
      PROVE  /\ torrents'[g] = "downloading" => g \in started'[q]
             /\ torrents'[g] = "seeding" => g \in target'[q] \cup started'[q]
  <2>1. g \in Hashes /\ g \in listed[q] /\ at[q] = "stopping" /\ UNCHANGED requestVars
    BY <1>8 DEF TypeOK, Completed, requestVars
  <2>2. torrents'[g] = torrents[g] \/ (torrents[g] = "downloading" /\ torrents'[g] = "seeding")
    BY <1>0, <1>8, <2>1, ClientEffects DEF Completed
  <2> QED
    BY <2>1, <2>2 DEF RunningIsAccounted, requestVars
<1>9. CASE UNCHANGED vars
  BY <1>9 DEF RunningIsAccounted, vars, requestVars
<1> QED
  BY <1>1, <1>2, <1>3, <1>4, <1>5, <1>6, <1>7, <1>8, <1>9 DEF Next, RequestStep

(* Between the listing of a stop-seeding and its answer, a listed torrent  *)
(* that runs is one still to pause or one somebody started since.          *)
THEOREM RunningAccounted == Spec => []RunningIsAccounted
<1>1. Init => RunningIsAccounted
  BY DEF Init, RunningIsAccounted
<1> QED
  BY <1>1, AccountStep, TypeCorrect, PTL DEF Spec

-----------------------------------------------------------------------------
(* A stop-seeding that is answered with success was in its last step, with *)
(* nothing left to pause.                                                  *)
LEMMA SuccessIsStopped ==
    ASSUME TypeOK, Next, NEW r \in Requests,
           at[r] = "stopping", at'[r] = "idle", answer'[r] = "success"
    PROVE  Stopped(r)
<1>1. ASSUME NEW q \in Requests, RequestStep(q)
      PROVE  Stopped(r)
  <2>1. ~ListSeeding(q)
    BY DEF TypeOK, ListSeeding, Enter
  <2>2. ~ClientFails(q)
    BY DEF TypeOK, ClientFails, Leave
  <2>3. Stopped(q) => q = r
    BY DEF TypeOK, Stopped, Leave
  <2>4. ASSUME NEW h \in Hashes
        PROVE  /\ ~Pause(q, h)
               /\ ~Resume(q, h)
               /\ ~RemoveTransfer(q, h)
               /\ ~NotFound(q, h)
               /\ \A p \in {"resuming", "removing"} : ~Require(q, p, h)
    BY DEF TypeOK, Pause, Resume, RemoveTransfer, NotFound, Require, Enter, Leave
  <2> QED
    BY <1>1, <2>1, <2>2, <2>3, <2>4 DEF RequestStep
<1>2. ASSUME NEW h \in Hashes, Added(h) \/ Completed(h)
      PROVE  FALSE
  BY <1>2 DEF Added, Completed, requestVars
<1> QED
  BY <1>1, <1>2 DEF Next

(* routers/transfers.py:250: what was seeding when a stop-seeding listed   *)
(* does not seed when it is answered with success, but for what somebody   *)
(* started since - with any number of callers, torrents and other routes.  *)
THEOREM StopsAllThatSeeded == Spec => StopsWhatSeeded
<1>1. TypeOK /\ RunningIsAccounted /\ [Next]_vars =>
        [\A r \in Requests :
            at[r] = "stopping" /\ at'[r] = "idle" /\ answer'[r] = "success"
                => listed[r] \cap Seeding \subseteq started[r]]_vars
  <2> SUFFICES ASSUME TypeOK, RunningIsAccounted, Next, NEW r \in Requests,
                      at[r] = "stopping", at'[r] = "idle", answer'[r] = "success"
               PROVE  listed[r] \cap Seeding \subseteq started[r]
    OBVIOUS
  <2>1. target[r] = {}
    BY SuccessIsStopped DEF Stopped
  <2> QED
    BY <2>1 DEF RunningIsAccounted, Seeding
<1> QED
  BY <1>1, RunningAccounted, TypeCorrect, PTL DEF Spec, StopsWhatSeeded

(* README.md:84, as far as it holds: a download that a request pauses has  *)
(* been started since that request listed what seeds.                      *)
THEOREM PausesNewDownloadsOnly == Spec => PausedDownloadIsNew
<1>1. TypeOK /\ RunningIsAccounted /\ [Next]_vars =>
        [\A h \in Hashes :
            torrents[h] = "downloading" /\ torrents'[h] = "stopped download"
                => \E r \in Requests : h \in target[r] \cap started[r]]_vars
  <2> SUFFICES ASSUME TypeOK, RunningIsAccounted, Next, NEW h \in Hashes,
                      torrents[h] = "downloading", torrents'[h] = "stopped download"
               PROVE  \E r \in Requests : h \in target[r] \cap started[r]
    OBVIOUS
  <2>1. TorrentsTypeOK
    BY DEF TypeOK
  <2>2. ASSUME NEW r \in Requests, NEW g \in Hashes, Pause(r, g)
        PROVE  h \in target[r] \cap started[r]
    <3>1. g = h
      BY <2>1, <2>2, ClientEffects DEF Pause
    <3>2. at[r] = "stopping" /\ h \in target[r] /\ h \in listed[r]
      BY <2>2, <3>1 DEF Pause, TypeOK
    <3> QED
      BY <3>2 DEF RunningIsAccounted
  <2>3. ASSUME NEW r \in Requests,
               \/ ListSeeding(r)
               \/ Stopped(r)
               \/ ClientFails(r)
               \/ \E g \in Hashes :
                    \/ NotFound(r, g)
                    \/ \E p \in {"resuming", "removing"} : Require(r, p, g)
        PROVE  FALSE
    BY <2>3 DEF ListSeeding, Stopped, ClientFails, NotFound, Require
  <2>4. ASSUME NEW r \in Requests, NEW g \in Hashes, Resume(r, g) \/ RemoveTransfer(r, g)
        PROVE  FALSE
    BY <2>1, <2>4 DEF Resume, RemoveTransfer, ResumeTorrent, DeleteTorrent, TorrentsTypeOK
  <2>5. ASSUME NEW g \in Hashes, Added(g) \/ Completed(g)
        PROVE  FALSE
    BY <2>1, <2>5 DEF Added, Completed, AddTorrent, CompleteTorrent, TorrentsTypeOK
  <2> QED
    BY <2>2, <2>3, <2>4, <2>5 DEF Next, RequestStep
<1> QED
  BY <1>1, RunningAccounted, TypeCorrect, PTL DEF Spec, PausedDownloadIsNew
=============================================================================
