------------------------------ MODULE PickRule ------------------------------
(***************************************************************************)
(* From the listings of the plugins to the results of a search and to the  *)
(* one release of a pick: the passes of _search_grouped with their filters *)
(* (services/qbittorrent.py, services/language.py, routers/search.py), and *)
(* pick_best.                                                              *)
(*                                                                         *)
(* A listing is a record [url, addable, seeders, size, name]; its name     *)
(* stands for what is parsed out of it, a record [seasons, episode,        *)
(* absolute, year, resolution, pre, languages, multi].  A request is       *)
(* [query, alt, scope, absolute, resolution, minSeeders, preferMulti], the *)
(* configuration [minimumSeeders, target, policy, fallback]: target is a   *)
(* language, or NoTarget when target_language has no name.                 *)
(***************************************************************************)
EXTENDS SearchPatterns

CONSTANTS NoTarget, NoPick

\* PICK_RESOLUTION_ORDER, highest first, and the bucket no pick draws from.
PickResolutions == <<"4K", "1080p", "720p">>

Other == "Other"

\* union_by_url: the first listing of every URL.
UnionByUrl(batches) ==
    LET all == FlattenSeq(batches)
    IN  Selected(all, {i \in DOMAIN all : \A j \in DOMAIN all : j < i => all[j].url # all[i].url})

\* filter_and_sort_results: most seeders first.
FilterAndSort(results, minimum) ==
    Sorted(Filtered(results, LAMBDA l : l.seeders >= minimum /\ l.addable),
           LAMBDA l, m : l.seeders > m.seeders)

\* is_allowed, for a target language that has a name.
IsAllowed(name, target, policy) ==
    \/ policy = "off"
    \/ name.languages = {} /\ policy = "lenient"
    \/ name.languages # {} /\ (name.multi \/ target \in name.languages)

\* annotate_and_filter: an unknown target turns the policy off.
AnnotateAndFilter(results, config) ==
    Filtered(results, LAMBDA l :
        config.target = NoTarget \/ IsAllowed(l.name, config.target, config.policy))

\* filter_by_year: releases without a year are dropped too.
FilterByYear(results, year) == Filtered(results, LAMBDA l : l.name.year = year)

IsPrimary(name, scope) ==
    /\ name.seasons = <<scope.season>>
    /\ scope.episode = NoNumber \/ name.episode = scope.episode

IsFallback(name, scope) ==
    \/ name.seasons = <<>>
    \/ Len(name.seasons) > 1 /\ scope.season \in ToSet(name.seasons)
    \/ name.seasons = <<scope.season>> /\ scope.episode # NoNumber /\ name.episode = NoNumber

\* Mutant: a name without a season is no match for a season.
FilterByScopeOfSeasons(results, scope) ==
    IF scope.season = NoNumber THEN results
    ELSE Filtered(results, LAMBDA l : IsPrimary(l.name, scope))
         \o Filtered(results, LAMBDA l : l.name.seasons # <<>> /\ IsFallback(l.name, scope))

\* filter_by_scope: what is asked for first, then the packs that contain it.
FilterByScope(results, scope) ==
    IF scope.season = NoNumber THEN results
    ELSE Filtered(results, LAMBDA l : IsPrimary(l.name, scope))
         \o Filtered(results, LAMBDA l : IsFallback(l.name, scope))

\* _search_pipeline, over what the plugins found for every pattern.
SearchPipeline(found, patterns, scope, config) ==
    LET raw == UnionByUrl([i \in DOMAIN patterns |-> found[patterns[i]]])
    IN  FilterByScope(AnnotateAndFilter(FilterAndSort(raw, config.minimumSeeders), config), scope)

\* The passes of _search_grouped for one query: its pipeline, and for a movie
\* with a trailing year the bare title's.
QueryPasses(found, q, scope, absolute, config) ==
    <<SearchPipeline(found, BuildSearchPatterns(q, scope, absolute), scope, config)>>
    \o IF HasBareTitlePass(q, scope)
       THEN LET bare == BuildSearchPatterns(BareTitle(q), scope, NoNumber)
            IN  <<FilterByYear(SearchPipeline(found, bare, scope, config), q.year)>>
       ELSE <<>>

\* group_by_resolution: the bucket of each result.
GroupByResolution(results) ==
    [b \in ToSet(PickResolutions) \cup {Other} |->
        Filtered(results, LAMBDA l : l.name.resolution = b)]

\* _search_grouped; a pick has an absolute number with an episode only.
Grouped(found, request, config) ==
    LET queries == SearchQueries(request.query, request.alt)
        absolute == IF request.scope.episode = NoNumber THEN NoNumber ELSE request.absolute
        passes == [n \in DOMAIN queries |->
                      QueryPasses(found, queries[n], request.scope, absolute, config)]
    IN  GroupByResolution(UnionByUrl(FlattenSeq(passes)))

IsMovieRelease(name) == name.seasons = <<>> /\ name.episode = NoNumber

IsExactSeasonPack(name, season) == name.seasons = <<season>> /\ name.episode = NoNumber

IsExactEpisode(name, season, episode) == name.seasons = <<season>> /\ name.episode = episode

IsAbsoluteEpisode(name, absolute) == name.seasons = <<>> /\ name.absolute = absolute

\* targets: the release is exactly what the request is for.
Targets(name, request) ==
    LET scope == request.scope
    IN  CASE scope.season = NoNumber -> IsMovieRelease(name)
          [] scope.season # NoNumber /\ scope.episode = NoNumber ->
                IsExactSeasonPack(name, scope.season)
          [] OTHER ->
                \/ IsExactEpisode(name, scope.season, scope.episode)
                \/ request.absolute # NoNumber /\ IsAbsoluteEpisode(name, request.absolute)

\* rank: multi audio if it is preferred, then seeders, then size.
RanksBelow(l, m, request) ==
    LET Rank(x) == <<IF request.preferMulti /\ x.name.multi THEN 1 ELSE 0, x.seeders>>
    IN  \/ PairBefore(Rank(l), Rank(m))
        \/ Rank(l) = Rank(m) /\ l.size < m.size

\* The buckets a pick draws from, the best one first.
PickBuckets(request, config) ==
    LET start == CHOOSE i \in DOMAIN PickResolutions : PickResolutions[i] = request.resolution
    IN  IF config.fallback THEN SubSeq(PickResolutions, start, Len(PickResolutions))
        ELSE <<request.resolution>>

Candidates(results, request) ==
    Filtered(results, LAMBDA l :
        l.seeders >= request.minSeeders /\ Targets(l.name, request) /\ ~l.name.pre)

\* pick_best: in the first bucket with candidates, the first of the highest rank.
PickBest(grouped, request, config) ==
    LET buckets == PickBuckets(request, config)
        candidates == [i \in DOMAIN buckets |-> Candidates(grouped[buckets[i]], request)]
        full == SelectInSeq(candidates, LAMBDA s : s # <<>>)
    IN  IF full = 0 THEN NoPick
        ELSE candidates[full][SelectInSeq(candidates[full], LAMBDA l :
                \A i \in DOMAIN candidates[full] : ~RanksBelow(l, candidates[full][i], request))]

\* api_pick_torrent.
Pick(found, request, config) == PickBest(Grouped(found, request, config), request, config)

-----------------------------------------------------------------------------
(* What a pick promises, of the listings themselves: those the plugins     *)
(* found for a query of the request, or under the bare title of one if     *)
(* they are of its year, that it may take at all ...                       *)
Listings(found, request) ==
    LET queries == ToSet(SearchQueries(request.query, request.alt))
        Counts(p, l) ==
            \/ p.query \in queries
            \/ \E q \in queries : p.query = BareTitle(q) /\ l.name.year = q.year
    IN  UNION {{l \in ToSet(found[p]) : Counts(p, l)} : p \in DOMAIN found}

MayPick(l, request, config) ==
    /\ l.addable
    /\ l.seeders >= config.minimumSeeders /\ l.seeders >= request.minSeeders
    /\ l.name.resolution \in ToSet(PickBuckets(request, config))
    /\ Targets(l.name, request) /\ ~l.name.pre
    /\ config.target # NoTarget => IsAllowed(l.name, config.target, config.policy)

(* ... no other of which is in a better bucket, or in the same bucket of a *)
(* higher rank.                                                            *)
IsBestPick(pick, found, request, config) ==
    LET eligible == {l \in Listings(found, request) : MayPick(l, request, config)}
        buckets == PickBuckets(request, config)
        Bucket(l) == CHOOSE i \in DOMAIN buckets : buckets[i] = l.name.resolution
    IN  IF eligible = {} THEN pick = NoPick
        ELSE /\ pick \in eligible
             /\ \A l \in eligible :
                   /\ Bucket(pick) <= Bucket(l)
                   /\ Bucket(pick) = Bucket(l) => ~RanksBelow(pick, l, request)
=============================================================================
