# A TLA+ verification of torrent-downloader

torrent-downloader is a FastAPI service between an orchestrator (a web
dispatcher, a completion hook) and two upstreams: the WebUI of a qBittorrent
client and the TMDB API. One uvicorn worker runs it; every endpoint is a plain
`def`, so each request runs on a thread of its own and all of them share one
process: a result cache on disk (`app_cache`, a diskcache), a progress registry,
a settings object and its JSON document, and a credential tracker. Nothing is
held across a call of the qBittorrent client, so whatever the code does in two
calls other requests, people at the WebUI and qBittorrent itself come between.

This directory models that part of the service: what it keeps, in which order
it changes it, and what it promises. Paths below are relative to
`src/torrent_downloader/` of the repository.

- [Inventory](#inventory)
- [What is modelled](#what-is-modelled)
- [The runs](#the-runs)
- [Disagreements between the code and its words](#disagreements-between-the-code-and-its-words)
- [What is proved](#what-is-proved)
- [Bounds, fairness, abstractions](#bounds-fairness-abstractions)
- [Plan](#plan)

## Inventory

| Component | Code | State it keeps | Operations | What is hard | What makes it correct |
|---|---|---|---|---|---|
| Progress registry | `services/search_progress.py` | a dictionary of entries per (folded pattern, category), behind a lock | `start`, `update`, `finish`, `get`, `aggregate` | two searches of one key; entries dropped by reading only | a running entry has a search in flight; an answered search reads as done |
| Plugin searches | `services/qbittorrent.py` `run_pattern_searches`, `execute_plugin_search`; `routers/search.py` `_search_grouped` | a pool of threads per batch; the result cache; the timeout override in a context variable | look up, search, poll, stop at the timeout, fetch, store; prefetch, then passes | a pattern's failure among others, eviction between prefetch and pass, override, two searches of one key | no thread left behind, no failure swallowed, no needless second plugin run, every search ends |
| Search patterns | `build_search_patterns`, `request_patterns`, `search_queries` | none | which strings are searched for, twice computed | two functions that have to agree | the prefetch covers exactly what the passes ask for |
| Pick rule and filters | `pick_best`, `filter_*`, `union_by_url`, `group_by_resolution` | none | filter, group, choose | fallbacks, ties, bounds | the pick is the best release that qualifies |
| Download submission | `routers/transfers.py` `api_trigger_download`, `services/source.py` | the metadata per hash, in the cache without an expiry | VPN check, scrape, snapshot, add, resolve the hash, store | the hash of a `.torrent` URL is guessed from two listings; crash, clear, remove | metadata is found under its own torrent's hash |
| Transfer control | `routers/transfers.py` | none (the torrents are qBittorrent's) | stop-seeding, resume, remove | list, then act call by call | what seeded is stopped, downloads are left alone |
| Runtime settings | `core/settings.py`, `routers/settings.py` | overrides in memory, the live configuration, one JSON document | `set`, `reset`, load at import | no lock, failing save, crash in the write | memory, document and configuration agree, a restart keeps the overrides |
| Credential health | `core/credentials.py`, `services/credential_probe.py`, `get_torrent_client`, `_get_or_unavailable`, `GET /health` | a state per credential, behind a lock | mark ok, invalid, unreachable; snapshot; probe loop | late answers of overlapping calls, a loop that must survive | `/health` shows nothing older than itself; a steady upstream is in the end reported as it is |
| TMDB client | `services/tmdb.py`, `routers/discover.py` | memoized answers, explicit caches | search, details, discover, episodes, numbering | keys that leave out the language, the language read twice in one call, answers made of several requests, failures that are cached | no half of an answer is kept, an answer is in a language of its call |
| Episode numbering | `services/numbering.py` | none | build, select | duplicates, gaps, unaired tails, group orders | release and absolute numbers are unique and complete |
| Language annotation | `services/language.py` | none | classify names, apply the policy | string classification | no result of another language passes the policy |
| Glue | `main.py`, `core/auth.py`, `core/limiter.py`, `core/middleware.py`, `core/errors.py`, `core/config.py`, `services/storage.py`, `schemas/` | none of its own | - | - | - |

How they interact: a search request takes a client (which records the health of
the qBittorrent key), computes its patterns, runs them as jobs on a pool whose
threads write the registry and the result cache, and reads the cache again pass
by pass; a progress request reads registry and cache for the same patterns; the
settings change the timeouts, the expiry and the allowlist of interfaces that
those requests read, and the language that TMDB is asked in; `DELETE /cache`
empties what searches, downloads and the TMDB client left. Every call of either
upstream, and a loop of its own on the event loop of the process, writes the
credential tracker that `GET /health` reads.

## What is modelled

| Module | Models | Correspondence |
|---|---|---|
| `SearchProgress` | the registry | `entries` is the dictionary. The clock is reduced to the comparison the code makes: `Age` is the moment an entry's finish lies further back than the retention. `DropAged` is `get` when it deletes. |
| `PluginSearch` | requests, pools, cache; EXTENDS `SearchProgress` | `phase` is where the request thread stands, `batch` the call of `run_pattern_searches` it is at (1 is the prefetch), `job` what became of each pattern of that batch: `unread`, `hit`, `queued`, on a thread (`starting` to `storing`), or over. `StartJob` to `Store` are the lines of `execute_plugin_search`, `_run_plugin_search` and the closure `run`. `Raise` is the error of the first failed pattern leaving `pool.map`, which cancels what no thread has taken; `GiveUp` the end of the `with` block. `lost` is a history variable. |
| `SearchPatterns` | the pure functions that make the batches | a query is [title, spelling, year]; a pattern is a query with a form (season tag, episode tag, ...) and a category; folding forgets the spelling. |
| `PickRule` | the filters, unions and groups of `_search_grouped`, and `pick_best`; EXTENDS `SearchPatterns` | one operator per function, over listings whose name stands for what is parsed out of it. `IsBestPick` is the declarative definition: the best of the listings the plugins found, with no pass, filter or bucket in it. |
| `Numbering` | `services/numbering.py` | one operator per function, over keys `<<season, episode>>`. `IsComplete`, `IsOrdered`, `IsWithoutGaps` say what a numbering is for. |
| `Lists` | Python's `sorted` and comprehensions with a condition | external. An order of places gives every place the set of the places before it; `InOrder` counts the places off, so neither needs recursion. |
| `Requests` | what the service computes without a state of its own; EXTENDS `PickRule`, `Numbering` | a state is one input, reached from the state in which nothing is asked: what is searched for, what is picked from which listings of the plugins, which groups a show has. `AbsoluteOf`, `PatternsOf`, `Request` are the arguments the handlers pass on, `Seasons` and `Built` what the client of the numbering calls. |
| `Credentials` | the tracker, the calls that classify, the probe loop, `/health` | a call has two moments, `Ask` (the upstream answers) and `Mark`, `PassBy` or `Raised` (what the thread makes of the answer); between them others ask and mark. `at = "snapshot"` is the `/health` handler between its client and its snapshot. `fresh` is a history variable: the verdicts a `/health` call may show. |
| `TmdbCache` | the reads of `services/tmdb.py` and their caches | `todo` is the rest of a handler as a list of steps: look a read up, get a part of it, store it, consider a group. A miss puts the requests of the read and its store in front of what is left, so reads nest as their functions do. `failed`, `spoke` and the `raced` mark of an entry are history. |
| `QBittorrent` | the torrents of the client | external: written from the calls the service makes and the answers it is written for. |
| `Downloads` | `POST /download`; EXTENDS `QBittorrent` | one action per call of the client or the page; `before` and `found` are the local variables of the handler, `metadata` the cache entries under `media_type:`, keyed by the text of the hash; `Cull` is the culling of the cache they share with the searches and the TMDB client. `wasBound`, `foreign` and `answered` are history variables; a key leaves `answered` when the cache drops its entry, or when a request whose comparison was disturbed stores under it. |
| `TransferControl` | stop-seeding, resume, remove; EXTENDS `QBittorrent` | `target` is what the handler still has to act on: the rest of the listing, or the one hash it looked up. `listed` and `started` are history variables. |
| `SettingsRegister` | the promise of the settings | a map that changes one key at a time and survives restarts. |
| `RuntimeSettings` | `set`, `reset`, `save`, `load`, restart | one action per statement that others can see: the override in memory, the dump, the truncating open, the write, the `setattr`. `length` is the length of the file: a text written over a longer one, which another caller wrote since the file was opened, leaves the rest of that behind it, and the document does not parse. `TextLength` gives every map of overrides the length of its text. |
| `MC...` | the constants of the runs | see below. |
| `..._proofs` | theorems and proofs | see below. |

The definitions marked `Mutant` are not behaviours of the code. Each is a
plausible mistake in the definition that follows it; with it in place of that
definition the property it is listed for in `PROJECT.json` is violated, which
shows that the property depends on the code being as it is.

## The runs

`tlc -config X.cfg M`, with the module and the configuration below.

| Run | Module / cfg | Checks | Shows |
|---|---|---|---|
| searches | `MCPluginSearch` | `TypeOK`, `RunningEntryIsSearched`, `PassMissIsEviction`, `AnsweredReportsDone`, `NoJobAbandoned` | two callers that share a pattern, one of them with a timeout override, again and again: whatever fails, times out, expires or is cleared, no progress bar is left running without a search, no pass searches again what the cache kept, an answered search reads as done until it is evicted or searched again, no pool thread is dropped |
| searches_end | `MCPluginSearch` / `MCPluginSearchLive.cfg` | `RequestEnds`, `FailureSurfaces`, `RunningEntryFinishes` | under fairness, every search ends, a failed pattern fails its request, every running entry is finished |
| requests | `MCRequests` | `RequestIsWellFormed`, `PrefetchIsAllUsed`, `PickIsBest`, `NumberingIsOneToOne`, `QualifiesAsDocumented` | over all inputs of a small universe: the prefetch is exactly the union of the passes (the assumption on batches that `PluginSearch` makes); the pick is the best release among all that the plugins found; a numbering has every regular episode once, under numbers that tell them apart, and groups with orders of their own are refused for the documented reasons only |
| credentials | `MCCredentials` | `TypeOK`, `HealthIsFresh`, `HealthConverges` | a request thread beside the probe loop, upstreams that accept, refuse, err, go down or raise, one restart: `/health` shows a verdict of its own time, and an upstream that keeps answering alike is in the end reported so although nobody sends a request |
| tmdb | `MCTmdbCache` | `TypeOK`, `EntryIsWhole`, `AnswerInLanguage`, `AutoIsFirstAvailable` | every read and both numberings while the language changes, requests fail, entries expire, are culled or cleared, and the process restarts: no half of an answer is kept, an older language comes only from where the code leaves it, a group that fails hides no other |
| settings | `MCRuntimeSettings` | `TypeOK`, `AppliedUnlessRaced` | two callers, failing saves, crashes anywhere: for a key without overlapping or failed calls the configuration is what the overrides say |
| one_administrator | `MCRuntimeSettings` / `OneAdministrator.cfg` | `SettledIsPersisted`, `RestartKeepsSettings`, `ImplementsRegister` | one caller, no failing save, no crash inside the write: the document is a persistent register (a refinement of `SettingsRegister`), and a restart at any step leaves every key that no call is changing its override and its configured value |
| downloads | `MCDownloads` | `TypeOK`, `AddOnlyIfBound`, `DiffIsOwnUnlessForeign`, `InfoAfterAnswer` | magnets, details pages (whose magnet has no v1 hash) and `.torrent` URLs side by side, removals, a tunnel that drops, a cache that culls, `DELETE /cache`, crashes: nothing is added unbound, a comparison of listings goes wrong only when another torrent disturbs it, and under an answered hash is the metadata of its own torrent as long as the cache keeps it |
| transfers | `MCTransferControl` | `TypeOK`, `StopsWhatSeeded`, `PausedDownloadIsNew` | two callers of the three routes while torrents are added and complete |

## Disagreements between the code and its words

Each is one run whose property states a sentence of the repository; TLC's
counterexample is a behaviour of the code.

| Run | Sentence | What happens |
|---|---|---|
| override_passes | `routers/search.py:322-323`, "so the sequential passes below all hit the cache" | with `timeout_seconds` the override is still set during the passes, and every plugin search runs twice |
| two_administrators | `settings.py:4-5`, "Overrides persist ... so a restart keeps them" | two calls at once, both answered: the older dump is written last, and a restart loads it without the other's change (or nothing, where it is the shorter text written over the longer) |
| two_torrent_urls | `transfers.py:92-93`, "Deterministic under concurrent adds" | the one new hash may be the other request's |

More are not worth a run of their own, because a run above shows them, a
property is stated around them, or reading does:

- `search_progress.py:91-92`, "running ... when in flight": two searches of one
  key share an entry, and the first to end marks it done for both.
- `README.md:81`, the metadata the orchestrator reads at completion: a magnet
  with a base32 hash is stored under that text, and the hook asks with the
  hexadecimal form.
- `credential_probe.py:3-4`, "Refusals on live calls already flip a credential to
  invalid": only the call that makes a client, and TMDB's 401, are classified; a
  refusal of a later call of the same client is not.
- `settings.py:41-46` offers `target_language` for the next search, but the
  memoized TMDB reads have no language in their keys, and a value under way when
  the language changes is stored in the new language under the old one's key.
  `AnswerInLanguage` states that these two are the only ways.
- `routers/search.py:82`, "TMDB unconfigured or unavailable" is a 503: a memoized
  read without a key, or one that TMDB refuses, is an empty answer with status
  200, and stays in the cache. `EntryIsWhole` allows that and no more.
- `numbering.py:17-18`, "must split the show into at least this many release
  seasons", with `:37-38`, a group's "`order` is the release season": groups are
  counted (`:97-98`), not orders. Two groups of order 1 that hold an episode each
  are accepted, make one release season, and give both episodes the number 1 of
  it. TMDB orders its groups, and the code relies on that unchecked:
  `QualifiesAsDocumented` and `NumberingIsOneToOne` are stated for groups with
  orders of their own.
- `numbering.py:94-95`, "Canonical episodes after the group's last one": an
  unaired episode that is not grouped is numbered at the end wherever it stands.
- `qbittorrent.py:402-404`, "every query that shares a pattern ... reuses one
  plugin run": duplicates are removed by exact text while keys are case-folded,
  so the bare title of "Dune 2021" and the alternate spelling "dune" are one key
  and two jobs side by side. The batch of searches_end is that request.
- `search_progress.py:8-9`, "finished entries expire so it never grows": only a
  read of the same key drops an entry (`DropAged` has no other caller).
- `settings.py:4-5` again: a process that dies after `write_text` truncated the
  document loses every override. `RestartKeepsSettings` is checked with
  `CrashMidWrite` FALSE and does not hold with TRUE.
- `README.md:84`, "Never touches in-progress downloads": a torrent removed and
  added again between the listing and its pause is paused while it downloads.
  `PausedDownloadIsNew` says that this is the only way.

## What is proved

`tlapm M_proofs.tla` proves, for every value of the constants of `M` that
satisfies its named assumptions (`...Assumption`, stated in `M` and evaluated by
TLC in the runs), every safety invariant and action property that a passing run
checks, and the refinement of the register. Three assumptions are about the
upstream's data: TMDB's group ids are unique (`GroupsAssumption` of `TmdbCache`),
it lists an episode of a season once (`CanonicalsAssumption` of `Requests`), and
the groups and entries it sends are ordered by numbers (`EpisodeGroupsAssumption`).
`RulesAssumption` is what `routers/search.py:236` refuses otherwise;
`PicksAssumption` says that a query without a trailing year is its own bare title,
as `split_trailing_year` has it. The others give the constants their types,
keep the values that stand for "none" apart from the rest, and say how batches
are made; that the code makes them so is `SearchesAreWellFormed`.

| Module | Theorem | States |
|---|---|---|
| `PluginSearch_proofs` | `TypeCorrect`, `Tidy`, `NoJobIsAbandoned`, `RunningIsSearched`, `ResultsAreKept`, `AnsweredIsDone`, `PassMissesOnlyEvicted` | `TypeOK`, `SlotsAreTidy`, `NoJobAbandoned`, `RunningEntryIsSearched`, `ResultsKept`, `AnsweredReportsDone`, `PassMissIsEviction` |
| `RuntimeSettings_proofs` | `TypeCorrect`, `AppliedBetweenCalls`; for callers that take turns `PersistedWhenSettled`, `RestartKeeps`, `DocumentIsRegister` | `TypeOK`, `AppliedUnlessRaced`; `SettledIsPersisted`, `RestartKeepsSettings`, `ImplementsRegister` |
| `TransferControl_proofs` | `TypeCorrect`, `RunningAccounted`, `StopsAllThatSeeded`, `PausesNewDownloadsOnly` | `TypeOK`, `RunningIsAccounted`, `StopsWhatSeeded`, `PausedDownloadIsNew` |
| `Downloads_proofs` | `TypeCorrect`, `AddsOnlyIfBound`, `DiffIsOwn`, `InfoFollowsAnswer`; without `.torrent` URLs `MagnetsKeepTheirMetadata` | `TypeOK`, `AddOnlyIfBound`, `DiffIsOwnUnlessForeign`, `InfoAfterAnswer`; `MetadataIsOfItsTorrent` |
| `Credentials_proofs` | `TypeCorrect`, `HealthFresh` | `TypeOK`, `HealthIsFresh` |
| `TmdbCache_proofs` | `TypeCorrect`, `EntriesAreWhole`, `AutomaticIsFirst`, `AnswersInLanguage` | `TypeOK`, `EntryIsWhole`, `AutoIsFirstAvailable`, `AnswerInLanguage` |
| `Requests_proofs` | `RequestsAreWellFormed`, `PrefetchesAreUsed`, `PicksAreBest`, `NumberingsAreOneToOne`, `GroupsQualifyAsDocumented` | `RequestIsWellFormed`, `PrefetchIsAllUsed`, `PickIsBest`, `NumberingIsOneToOne`, `QualifiesAsDocumented` |
| | `SearchesAreWellFormed`, `BestIsPicked`, `SelectionsAreComplete` | the same of the operators, for any arguments: any query and scope, any number of listings, any number of candidate groups |

`QBittorrent_proofs` holds the lemmas about the client that `Downloads_proofs`
and `TransferControl_proofs` share: what each event at the client does to the
torrents and to the listing. The arguments:

- `PluginSearch_proofs`. The inductive invariant is built in layers:
  1. `TypeOK` (theorem `TypeCorrect`).
  2. `SlotsAreTidy`: a request that is not in a batch has no jobs, and the jobs
     of a batch sit in its slots only (`Tidy`). Without it a job left over from
     an earlier batch could be read under another pattern's key.
  3. `NoJobAbandoned`, an action property, from the two (`NoJobIsAbandoned`).
  4. `RunningEntryIsSearched`: by `FinishJob`, which is the only step that takes
     a job out of flight, and by 3, which says there is no other way out
     (`RunningIsSearched`).
  5. `ResultsKept`: every key a request's finished jobs were for is in the cache
     or in `lost` (`ResultsAreKept`). It is what `AnsweredReportsDone` and
     `PassMissIsEviction` lack to be inductive: both speak of results of an
     earlier batch, whose jobs are gone.
  6. `AnsweredReportsDone` (`AnsweredIsDone`) and `PassMissIsEviction`
     (`PassMissesOnlyEvicted`).
- `RuntimeSettings_proofs`. `AppliedUnlessRaced` holds with any number of callers
  at once, failing saves and crashes. Alone it is not inductive: the `setattr`
  that ends a call says nothing of the override set at its beginning.
  `UnracedAgrees` adds that callers at one key make it a raced one, and that a
  caller alone at its key carries the override's value. The three promises of
  the document need `Dependable` (no save that raises, no crash inside the
  write) and that no two calls are under way at once (`TakeTurns`, an assumption
  about behaviours: callers may be many). `DocumentFollows` says what the
  document holds at each point of the one call. `NobodyRaced` says that callers
  that take turns race at no key, so that `AppliedUnlessRaced` gives
  `RestartKeepsSettings` its half about the configuration. In the refinement
  `Open` is a `Put` or a `Delete`, because from there on the text that is being
  written counts as the document (`Durable`), and every other step a stutter. The run
  two_administrators shows that the turns cannot go, and one_administrator with
  `CrashMidWrite` TRUE that the whole write cannot.
- `TransferControl_proofs`. Both promises of stop-seeding are about the time
  between its listing and its calls. `RunningIsAccounted` carries them over it:
  of what was listed, whatever downloads was started since, and whatever seeds
  was started since or is still to pause. At the answer nothing is left to pause.
- `Downloads_proofs`. `BoundIsRemembered`: past the VPN check a request has seen
  the VPN bound. `DiffIsAccounted`: from the snapshot to the comparison nothing is
  listed newly but the request's own torrent, or the request is marked `foreign`;
  and what it found is its torrent then. `MagnetsTellTheirHash`: what a magnet's
  request found is the hash in its text. `InfoFollowsAnswer` puts the two together:
  whoever stores under an answered hash
  stores the metadata of that torrent, or its comparison was disturbed.
- `Credentials_proofs`. `OpenIsFresh`: an answer that is not marked yet while a
  `/health` request is under way is one it may show, and so is the state of the
  key once it has marked its own. Whatever thread marks next, the state stays
  fresh. `ClassifiedOrRaised` says that every answer under way is marked or raised.
- `TmdbCache_proofs` is about scripts, the steps a thread has still to take.
  1. `CacheIsSound`: the cache is within its capacity and its entries are whole,
     and every script is `Sound`: either it asks for nothing more and every value
     it has to store is all there (`Complete`), or it begins with requests that
     go to its first store, as many as that store still lacks (`Awaits`). There
     is a lemma for what each kind of step makes of a script (`MissIs`,
     `ReceivedIs`, `UnavailableIs`, ...). `TypeOK` and `EntryIsWhole` follow.
  2. `ChoiceIsAhead`: a script that will choose a numbering has the groups after
     the first n ahead of it, in order (`Remaining`), and the first n either do
     not qualify or failed, and no other failed (`Passed`). The other steps only
     shift such a script (`Shifted`). It makes `AutoIsFirstAvailable` inductive,
     and it is where the ids have to be unique: a failed group is one of those
     passed, so the one considered next has not failed.
  3. `CallersSpeak` and `CacheSpeaks`: a value under way is in languages of its
     call and, if it is not raced, in that of its key, which is the language set
     now; the entries of the cache are in the language of their key, unless raced.
- `Requests_proofs` is about operators on lists of any length; the invariant of
  the specification (`InputIsAsked`, theorem `InputsAreAsked`) says only that an
  input is made of what the constants offer.
  1. Lists. In an order of finitely many places the number of places before one
     grows (`CountGrows`), so the places are counted off without a gap: there is
     no first place that has no number (`CountedOff`, a least counterexample, as
     the induction theorems of the library are out of the provers' reach). Hence
     what sorting and selecting keep (`SortedElements`, `SelectedElements`): all
     the elements, in the order; some of them, in theirs. `FlattenSpells` says
     place by place what concatenating lists gives, again by a least length.
  2. Searches. The prefetch and the passes are both the patterns of `AllPasses`
     (`PrefetchElements`, `PassesElements`), although they are computed in two
     modules.
  3. Picks. Of every stage, the set of its results (`UnionByUrlElements`,
     `FilterByScopeElements`, `PipelineElements`, ... `GroupedElements`); of
     `PickBest`, that it takes a highest rank of the first bucket with a
     candidate (`PickBestOfBuckets`). `KeptAreListings` is the step from the
     passes to the declarative definition: what some pass keeps is what the
     plugins listed for a pattern of its query, where the bare title of a movie
     has to have the movie's year. A target is in scope (`TargetsAreInScope`), so the
     scope filter cannot lose it.
  4. Numberings. The keys of a numbering are those that the groups hold, in
     release order, and then the rest (`GroupOrderShape`, `BuiltShape`). With a
     key once only, the release numbers of groups of different orders differ
     (`ReleasesAreDistinct`), the last one taken is the last place of its group
     (`LastIsLastPlace`), and the tail is behind it: `BuiltIsOrdered`,
     `BuiltIsWithoutGaps`. `QualifyingGroups` carries the refusal from the sorted
     and filtered groups back to what TMDB sent, by a one-to-one correspondence
     of the groups and of their places (`GroupsCorrespond`, `PlacesCorrespond`);
     with orders of their own there are as many release seasons as groups.

Only model-checked: liveness (`RequestEnds`, `FailureSurfaces`,
`RunningEntryFinishes`, `HealthConverges`: the provers have none under fairness).

## Bounds, fairness, abstractions

**Bounds.** `searches`: two callers, two patterns, batches of at most two,
a pool of two, counts 0 and 1. Two callers are what the registry and the cache
can be shared by; a batch of two is the least in which one pattern's failure
meets another's success; a count matters only by being written into an entry.
`searches_end`: one caller with a batch of three, so that one job may be queued
behind a failed one. `settings`: two callers, two keys, two values: a lost
change needs two callers, a foreign key needs two keys, and texts of different
lengths (`MCTextLength`) are what makes a write over another one leave a rest. `downloads`
and `transfers`: two callers and two torrents, with symmetry (no
liveness is checked there); two torrents are what the comparison of listings
confuses. No counter is unbounded: time is abstracted, result counts are
bounded by `MaxResults`. `requests`: two offers (`MaxListings`) at any two of the
places a request searches, alone and with another spelling, each differing from
a plain match in one respect (a filter, the bucket, a rank), because a pick goes
wrong by preferring one listing to another; three regular episodes and a special in two groups (`MaxGroups`) of at most two,
which is the least with a repeat, a gap, a tail and a group too many.
`credentials`: one request thread beside the probe (an older answer marked last
needs two threads), one restart (`MaxCrashes`). `tmdb`: one request thread:
threads meet only in the cache, and all that another could do to an entry,
`Evict`, `ClearCache` and `SetLanguage` do at any step, except to fill a key
under way, which `Store` overwrites with a value made by the same rules. Two
requests for the episodes (`MaxParts`), three groups with the first not
qualifying, so that a failure may hide the second or the third; a cache of two
entries (`Capacity`), so that it culls.

**Fairness** (`PluginSearch.FairSpec`). Weak fairness for each request
(`RequestProgress`) and each job (`JobProgress`): threads run, every call of the
qBittorrent client returns or raises (the client library has a request timeout),
and the polling loop is cut by the timeout (`TimeOut` is among the steps a
polling job must take, `Poll` is not). Nobody is
made to begin a search, to poll progress or to clear the cache.
`Credentials.FairSpec`: weak fairness for what each thread does with an answer
(both clients have timeouts) and for the two probes of the loop, which sleeps a
bounded interval and catches every exception; no request is made to come.

**Abstractions.** A registry read of several patterns is one step. The setting
`search_concurrency` does not change during a search. Errors of the cache's own
disk are not modelled. Result lists are a count. The text of names, hashes and
paths is a value. Values of settings are valid ones. In `TransferControl` a
torrent's downloads complete and are added; a recheck is not modelled.
A listing's name is the record of what PTN and the service's own patterns find
in it, its language the set they recognise; listings of one URL agree in all
but the place they were found at. A TMDB answer is the language it was asked
for; an answer of status 200 that is not what TMDB documents is not modelled,
nor is the time of an expiry. The tracker's details and times of a check are
left out.

**Not modelled.** Authentication, rate limits, request ids, error envelopes and
the OpenAPI schema (comparisons and framework glue without a state of this
code), the storage report (one system call), the configuration's declarations,
the recognition of languages in a name, and the formatting and sorting of TMDB
payloads: none of them orders steps or shares state. Of the TMDB client the
content of an answer beyond its language is left out, so that a numbering
built from two ages of TMDB's data is not told from another.

## Plan

Done: the registry and the searches with their patterns, the pick rule, the
settings with their register, the downloads, the transfer control, the
credentials, the TMDB caches, the numbering; proofs of every safety invariant
and action property that a passing run checks.

Left:

1. The progress endpoint's read split into its steps. It would need a promise
   that relates two patterns of one reading; the code makes none beyond
   `AnsweredReportsDone`.
2. The content of the TMDB answers, so that a numbering built from two ages of
   TMDB's data can be told from another.
