---------------------------- MODULE PluginSearch ----------------------------
(***************************************************************************)
(* Torrent searches: the request threads, their pools of plugin searches,  *)
(* the result cache and the progress registry they all share.              *)
(*                                                                         *)
(* One request (routers/search.py _search_grouped) runs batches of         *)
(* patterns: the prefetch first, then one batch per sequential pass.  Each *)
(* batch (run_pattern_searches) looks every pattern up in the cache and    *)
(* runs the misses as jobs on a pool; each job (execute_plugin_search and  *)
(* the closure `run') starts a qBittorrent search, polls it until it stops *)
(* or times out, fetches its results and stores them in the cache.         *)
(*                                                                         *)
(* An element of Requests is a caller repeating one search: it may begin   *)
(* again once its last search has ended.                                   *)
(***************************************************************************)
EXTENDS SearchProgress, Sequences

CONSTANTS
    Requests,       \* the callers
    Patterns,       \* the plugin patterns, as they are spelled
    Fold,           \* [Patterns -> Keys]: case-folding, with the category
    Batches,        \* [Requests -> sequence of batches], the prefetch first
    Overrides,      \* the requests that set search_timeout_override
    Concurrency,    \* the search_concurrency setting
    MaxBatch        \* the length of the longest batch

ASSUME FoldAssumption == Fold \in [Patterns -> Keys]

ASSUME ConcurrencyAssumption == Concurrency \in Nat \ {0}

ASSUME MaxBatchAssumption == MaxBatch \in Nat

ASSUME OverridesAssumption == Overrides \subseteq Requests

Slots == 1 .. MaxBatch

(* What request_patterns and _search_grouped make of a request: the        *)
(* prefetch has a pattern and at least one pass follows it, a batch repeats*)
(* no pattern, and every pass asks for patterns of the prefetch only.      *)
(* SearchPatterns shows that the code's patterns are of this form.         *)
ASSUME BatchesAssumption ==
    /\ Batches \in [Requests -> Seq(Seq(Patterns))]
    /\ \A r \in Requests :
        /\ Len(Batches[r]) >= 2
        /\ 1 \in DOMAIN Batches[r][1]
        /\ \A b \in DOMAIN Batches[r] :
            /\ DOMAIN Batches[r][b] \subseteq Slots
            /\ \A i, j \in DOMAIN Batches[r][b] :
                Batches[r][b][i] = Batches[r][b][j] => i = j
            /\ \A i \in DOMAIN Batches[r][b] :
                \E j \in DOMAIN Batches[r][1] : Batches[r][b][i] = Batches[r][1][j]

VARIABLES
    phase,      \* [Requests -> Phase]
    batch,      \* the number of the batch a request is at
    job,        \* [Requests -> [Slots -> JobState]], of the current batch
    cached,     \* the keys with a result list in app_cache
    lost        \* history: the keys evicted since the request began

searchVars == <<phase, batch, job, cached, lost>>

vars == <<entries, phase, batch, job, cached, lost>>

(* idle: no search yet.  running: inside run_pattern_searches.  draining:  *)
(* the pool's `with' block waits for its threads after an error.           *)
Phase == {"idle", "running", "draining", "answered", "failed"}

JobState == {"none",                        \* the batch has no such slot
             "unread",                      \* not looked up yet
             "hit",                         \* served from the cache
             "queued",                      \* submitted to the pool
             "starting", "polling", "fetching",     \* in _run_plugin_search
             "finishing", "failing",        \* in the finally clause
             "storing",                     \* about to call app_cache.set
             "done", "failed", "cancelled"}

(* The states of a job between search_progress.start and .finish.          *)
InFlight == {"starting", "polling", "fetching", "finishing", "failing"}

(* The states of a job that a pool thread is working at.                   *)
OnThread == InFlight \cup {"storing"}

Used(r) == DOMAIN Batches[r][batch[r]]

KeyOf(r, i) == Fold[Batches[r][batch[r]][i]]

KeysOf(r) == {Fold[Batches[r][1][i]] : i \in DOMAIN Batches[r][1]}

Searching(k) == \E r \in Requests : \E i \in Used(r) :
                    job[r][i] \in InFlight /\ KeyOf(r, i) = k

Ended(r) == phase[r] \in {"idle", "answered", "failed"}

Become(r, i, s) == job' = [job EXCEPT ![r][i] = s]

LookUps(r, b) == [i \in Slots |-> IF i \in DOMAIN Batches[r][b] THEN "unread" ELSE "none"]

NoJobs == [i \in Slots |-> "none"]

Init ==
    /\ RegistryInit
    /\ phase = [r \in Requests |-> "idle"]
    /\ batch = [r \in Requests |-> 1]
    /\ job = [r \in Requests |-> NoJobs]
    /\ cached = {}
    /\ lost = [r \in Requests |-> {}]
-----------------------------------------------------------------------------
(* The request thread.                                                     *)

\* get_torrent_client answers and the prefetch begins its cache lookups.
Begin(r) ==
    /\ Ended(r)
    /\ phase' = [phase EXCEPT ![r] = "running"]
    /\ batch' = [batch EXCEPT ![r] = 1]
    /\ job' = [job EXCEPT ![r] = LookUps(r, 1)]
    /\ lost' = [lost EXCEPT ![r] = {}]
    /\ UNCHANGED <<entries, cached>>

\* get_torrent_client returns None: a 503 before anything is searched.
Unavailable(r) ==
    /\ Ended(r)
    /\ phase' = [phase EXCEPT ![r] = "failed"]
    /\ UNCHANGED <<entries, batch, job, cached, lost>>

\* One turn of the loop over the batch's patterns, in their order.
LookUp(r, i) ==
    /\ phase[r] = "running"
    /\ job[r][i] = "unread"
    /\ \A j \in Used(r) : j < i => job[r][j] # "unread"
    /\ Become(r, i, IF r \notin Overrides /\ KeyOf(r, i) \in cached THEN "hit" ELSE "queued")
    /\ UNCHANGED <<entries, phase, batch, cached, lost>>

\* Mutant: the next pass begins when the last results are found, but not
\* stored yet.
NextBatchBeforeStore(r) ==
    /\ phase[r] = "running"
    /\ \A i \in Used(r) : job[r][i] \in {"hit", "storing", "done"}
    /\ batch[r] < Len(Batches[r])
    /\ batch' = [batch EXCEPT ![r] = @ + 1]
    /\ job' = [job EXCEPT ![r] = LookUps(r, batch[r] + 1)]
    /\ UNCHANGED <<entries, phase, cached, lost>>

\* Every result of the batch is there and another pass follows.
NextBatch(r) ==
    /\ phase[r] = "running"
    /\ \A i \in Used(r) : job[r][i] \in {"hit", "done"}
    /\ batch[r] < Len(Batches[r])
    /\ batch' = [batch EXCEPT ![r] = @ + 1]
    /\ job' = [job EXCEPT ![r] = LookUps(r, batch[r] + 1)]
    /\ UNCHANGED <<entries, phase, cached, lost>>

\* Mutant: failed patterns count as answered with nothing.
AnswerDespiteErrors(r) ==
    /\ phase[r] = "running"
    /\ \A i \in Used(r) : job[r][i] \in {"hit", "done", "failed"}
    /\ batch[r] = Len(Batches[r])
    /\ phase' = [phase EXCEPT ![r] = "answered"]
    /\ batch' = [batch EXCEPT ![r] = 1]
    /\ job' = [job EXCEPT ![r] = NoJobs]
    /\ UNCHANGED <<entries, cached, lost>>

\* The last pass is through: the response is built from the results.
Answer(r) ==
    /\ phase[r] = "running"
    /\ \A i \in Used(r) : job[r][i] \in {"hit", "done"}
    /\ batch[r] = Len(Batches[r])
    /\ phase' = [phase EXCEPT ![r] = "answered"]
    /\ batch' = [batch EXCEPT ![r] = 1]
    /\ job' = [job EXCEPT ![r] = NoJobs]
    /\ UNCHANGED <<entries, cached, lost>>

\* pool.map yields in order: it reaches the error of a job once every job
\* before it returned, and then cancels the jobs no thread has taken yet.
Raise(r) ==
    /\ phase[r] = "running"
    /\ \E i \in Used(r) :
        /\ job[r][i] = "failed"
        /\ \A j \in Used(r) : j < i => job[r][j] \in {"hit", "done"}
    /\ phase' = [phase EXCEPT ![r] = "draining"]
    /\ job' = [job EXCEPT ![r] =
                [i \in Slots |-> IF @[i] = "queued" THEN "cancelled" ELSE @[i]]]
    /\ UNCHANGED <<entries, batch, cached, lost>>

\* Mutant: the pool is shut down without waiting for its threads.
GiveUpAtOnce(r) ==
    /\ phase[r] = "draining"
    /\ phase' = [phase EXCEPT ![r] = "failed"]
    /\ batch' = [batch EXCEPT ![r] = 1]
    /\ job' = [job EXCEPT ![r] = NoJobs]
    /\ UNCHANGED <<entries, cached, lost>>

\* Mutant: the cancelled jobs are waited for as well.
GiveUpAfterCancelled(r) ==
    /\ phase[r] = "draining"
    /\ \A i \in Used(r) : job[r][i] \notin OnThread \cup {"cancelled"}
    /\ phase' = [phase EXCEPT ![r] = "failed"]
    /\ batch' = [batch EXCEPT ![r] = 1]
    /\ job' = [job EXCEPT ![r] = NoJobs]
    /\ UNCHANGED <<entries, cached, lost>>

\* The pool's with block ends and the error leaves the request.
GiveUp(r) ==
    /\ phase[r] = "draining"
    /\ \A i \in Used(r) : job[r][i] \notin OnThread
    /\ phase' = [phase EXCEPT ![r] = "failed"]
    /\ batch' = [batch EXCEPT ![r] = 1]
    /\ job' = [job EXCEPT ![r] = NoJobs]
    /\ UNCHANGED <<entries, cached, lost>>

-----------------------------------------------------------------------------
(* The pool threads.                                                       *)

\* A free thread takes the oldest queued job: execute_plugin_search enters.
StartJob(r, i) ==
    /\ phase[r] = "running"
    /\ job[r][i] = "queued"
    /\ \A j \in Used(r) : /\ job[r][j] # "unread"
                          /\ j < i => job[r][j] # "queued"
    /\ Cardinality({j \in Used(r) : job[r][j] \in OnThread}) < Concurrency
    /\ Start(KeyOf(r, i))
    /\ Become(r, i, "starting")
    /\ UNCHANGED <<phase, batch, cached, lost>>

\* client.search_start returns a job id.
SearchStart(r, i) ==
    /\ job[r][i] = "starting"
    /\ Become(r, i, "polling")
    /\ UNCHANGED <<entries, phase, batch, cached, lost>>

\* client.search_status returns a count; the job goes on or has stopped.
Poll(r, i) ==
    /\ job[r][i] = "polling"
    /\ \E n \in Counts : Update(KeyOf(r, i), n)
    /\ \/ UNCHANGED job
       \/ Become(r, i, "fetching")
    /\ UNCHANGED <<phase, batch, cached, lost>>

\* The timeout has passed: client.search_stop, then on to the results.
TimeOut(r, i) ==
    /\ job[r][i] = "polling"
    /\ Become(r, i, "fetching")
    /\ UNCHANGED <<entries, phase, batch, cached, lost>>

\* client.search_results returns the list.
Fetch(r, i) ==
    /\ job[r][i] = "fetching"
    /\ \E n \in Counts : Update(KeyOf(r, i), n)
    /\ Become(r, i, "finishing")
    /\ UNCHANGED <<phase, batch, cached, lost>>

\* Any of the client's calls raises.
Fail(r, i) ==
    /\ job[r][i] \in {"starting", "polling", "fetching"}
    /\ Become(r, i, "failing")
    /\ UNCHANGED <<entries, phase, batch, cached, lost>>

\* Mutant: the entry is finished on return only, without a finally clause.
FinishJobOnReturn(r, i) ==
    /\ job[r][i] \in {"finishing", "failing"}
    /\ IF job[r][i] = "finishing" THEN Finish(KeyOf(r, i)) ELSE UNCHANGED entries
    /\ Become(r, i, IF job[r][i] = "finishing" THEN "storing" ELSE "failed")
    /\ UNCHANGED <<phase, batch, cached, lost>>

\* The finally clause, on return and on error alike.
FinishJob(r, i) ==
    /\ job[r][i] \in {"finishing", "failing"}
    /\ Finish(KeyOf(r, i))
    /\ Become(r, i, IF job[r][i] = "finishing" THEN "storing" ELSE "failed")
    /\ UNCHANGED <<phase, batch, cached, lost>>

\* app_cache.set, and the thread is free again.
Store(r, i) ==
    /\ job[r][i] = "storing"
    /\ cached' = cached \cup {KeyOf(r, i)}
    /\ Become(r, i, "done")
    /\ UNCHANGED <<entries, phase, batch, lost>>

-----------------------------------------------------------------------------
(* Everyone else.                                                          *)

\* The cache loses a key: it expired (at once when the expiration is 0), or
\* diskcache made room.
Evict(k) ==
    /\ k \in cached
    /\ cached' = cached \ {k}
    /\ lost' = [r \in Requests |-> lost[r] \cup {k}]
    /\ UNCHANGED <<entries, phase, batch, job>>

\* DELETE /cache.
ClearCache ==
    /\ cached # {}
    /\ cached' = {}
    /\ lost' = [r \in Requests |-> lost[r] \cup cached]
    /\ UNCHANGED <<entries, phase, batch, job>>

AgeEntry(k) == Age(k) /\ UNCHANGED searchVars

\* A progress poll reads the key, and drops its entry when it is aged.
GetEntry(k) == DropAged(k) /\ UNCHANGED searchVars
-----------------------------------------------------------------------------
JobStep(r, i) ==
    \/ LookUp(r, i)
    \/ StartJob(r, i)
    \/ SearchStart(r, i)
    \/ Poll(r, i)
    \/ TimeOut(r, i)
    \/ Fetch(r, i)
    \/ Fail(r, i)
    \/ FinishJob(r, i)
    \/ Store(r, i)

RequestStep(r) ==
    \/ Begin(r)
    \/ Unavailable(r)
    \/ NextBatch(r)
    \/ Answer(r)
    \/ Raise(r)
    \/ GiveUp(r)
    \/ \E i \in Used(r) : JobStep(r, i)

EnvironmentStep ==
    \/ \E k \in Keys : Evict(k) \/ AgeEntry(k) \/ GetEntry(k)
    \/ ClearCache

Next == (\E r \in Requests : RequestStep(r)) \/ EnvironmentStep

Spec == Init /\ [][Next]_vars

(* Threads run: a request thread goes on when it can, and a job goes on     *)
(* because every call of the qBittorrent client returns or raises and the  *)
(* poll loop is cut by the timeout.  Nobody has to begin a search, poll its *)
(* progress or clear the cache.                                            *)
JobProgress(r, i) ==
    \/ LookUp(r, i)
    \/ StartJob(r, i)
    \/ SearchStart(r, i)
    \/ TimeOut(r, i)
    \/ Fetch(r, i)
    \/ FinishJob(r, i)
    \/ Store(r, i)

RequestProgress(r) == NextBatch(r) \/ Answer(r) \/ Raise(r) \/ GiveUp(r)

Fairness ==
    \A r \in Requests :
        /\ WF_vars(RequestProgress(r))
        /\ \A i \in Slots : WF_vars(i \in Used(r) /\ JobProgress(r, i))

FairSpec == Spec /\ Fairness
-----------------------------------------------------------------------------
(* Properties.                                                             *)

(* Every variable keeps its type; a request's batch number is one of its   *)
(* batches.                                                                *)
TypeOK ==
    /\ RegistryTypeOK
    /\ phase \in [Requests -> Phase]
    /\ batch \in [Requests -> Nat]
    /\ \A r \in Requests : batch[r] \in DOMAIN Batches[r]
    /\ job \in [Requests -> [Slots -> JobState]]
    /\ cached \in SUBSET Keys
    /\ lost \in [Requests -> SUBSET Keys]

(* A progress bar is never stuck: an entry that reads as running has a job *)
(* in flight for its key, whatever failed, timed out or was searched twice *)
(* at once (execute_plugin_search finishes its entry in a finally clause). *)
RunningEntryIsSearched ==
    \A k \in Keys : entries[k].status = "running" => Searching(k)

(* What the prefetch is for: once a request is past it, a pass runs a      *)
(* pattern again only when the cache lost its key since the request began. *)
(* (Not so for a request with a timeout override: SequentialPassesHit.)    *)
PassMissIsEviction ==
    \A r \in Requests \ Overrides :
        phase[r] = "running" /\ batch[r] > 1 =>
            \A i \in Used(r) :
                job[r][i] \notin {"unread", "hit"} => KeyOf(r, i) \in lost[r]

(* After the answer the progress endpoint reports DONE for the same        *)
(* parameters, as long as the cache lost none of the keys and nobody is    *)
(* searching one of them again: not IDLE because an entry aged, not RUNNING*)
(* because one was left behind.                                            *)
AnsweredReportsDone ==
    \A r \in Requests :
        /\ phase[r] = "answered"
        /\ KeysOf(r) \cap lost[r] = {}
        /\ \A k \in KeysOf(r) : ~Searching(k)
        => Aggregate(KeysOf(r), cached) = "DONE"

(* No thread is left behind: a job on a thread stays on it until it is done*)
(* or failed, even when another pattern's error ends the request (the with *)
(* block of run_pattern_searches waits for the pool).                      *)
NoJobAbandoned ==
    [][\A r \in Requests : \A i \in Slots :
        job[r][i] \in OnThread => job'[r][i] \in OnThread \cup {"done", "failed"}]_vars

(* Every search ends: no request waits for a pool for ever.                *)
RequestEnds == \A r \in Requests : ~Ended(r) ~> Ended(r)

(* An error of one pattern's search is never swallowed: the request fails. *)
FailureSurfaces ==
    \A r \in Requests :
        (\E i \in Slots : job[r][i] = "failed") ~> phase[r] = "failed"

(* Every progress bar stops: a running entry is finished sooner or later.  *)
RunningEntryFinishes ==
    \A k \in Keys : entries[k].status = "running" ~> entries[k].status # "running"

-----------------------------------------------------------------------------
(* What the code's own words say of the system, and a run refutes.         *)

(* routers/search.py:322-323: the prefetch runs every pattern "so the      *)
(* sequential passes below all hit the cache".                             *)
SequentialPassesHit ==
    \A r \in Requests :
        batch[r] > 1 => \A i \in Used(r) : job[r][i] \in {"unread", "hit"}
=============================================================================
