--------------------------- MODULE SearchPatterns ---------------------------
(***************************************************************************)
(* The plugin patterns of a search: which strings a request searches for,  *)
(* in which order, first all at once (the prefetch) and then pass by pass. *)
(*                                                                         *)
(* A query is a record [title, spelling, year]: two queries case-fold to   *)
(* the same string when they differ in their spelling only, and the year   *)
(* is the one that trails the title, or NoYear.  A pattern is a record     *)
(* [query, form, category]: a query with the tag that its form stands for. *)
(* A scope is [media, season, episode], with NoNumber for what is not set. *)
(***************************************************************************)
EXTENDS Lists

CONSTANTS NoYear, NoNumber, NoQuery

Movie == "movie"
Show == "show"

Pattern(q, form, media) == [query |-> q, form |-> form, category |-> media]

\* What casefold keeps of a query.
FoldedQuery(q) == [title |-> q.title, year |-> q.year]

\* The key of the registry and of the result cache.
FoldedPattern(p) == [query |-> FoldedQuery(p.query), form |-> p.form, category |-> p.category]

\* dict.fromkeys: the first occurrence of every element, in order.
FirstOccurrences(s) ==
    Selected(s, {i \in DOMAIN s : \A j \in DOMAIN s : j < i => s[j] # s[i]})

\* build_search_patterns: the most specific form first.
BuildSearchPatterns(q, scope, absolute) ==
    LET SeasonTag == <<"season tag", scope.season>>
        EpisodeTag == <<"episode tag", scope.season, scope.episode>>
        Forms ==
          CASE scope.season = NoNumber -> << <<"bare">> >>
            [] scope.season # NoNumber /\ scope.episode = NoNumber ->
                  << SeasonTag, <<"season word", scope.season>>, <<"bare">> >>
            [] scope.season # NoNumber /\ scope.episode # NoNumber /\ absolute = NoNumber ->
                  << EpisodeTag, SeasonTag >>
            [] OTHER -> << EpisodeTag, <<"absolute tag", absolute>>, SeasonTag >>
    IN  [i \in DOMAIN Forms |-> Pattern(q, Forms[i], scope.media)]

\* split_trailing_year, for a query that has one.
BareTitle(q) == [q EXCEPT !.year = NoYear]

\* search_queries: the alternate spelling when it differs by more than case.
SearchQueries(q, alt) ==
    IF alt # NoQuery /\ FoldedQuery(alt) # FoldedQuery(q) THEN <<q, alt>> ELSE <<q>>

HasBareTitlePass(q, scope) == scope.media = Movie /\ q.year # NoYear

\* Mutant: only the first query of a request gets its bare title prefetched.
RequestPatternsOfFirst(queries, scope, absolute) ==
    LET Of(n) == BuildSearchPatterns(queries[n], scope, absolute)
                 \o (IF n = 1 /\ HasBareTitlePass(queries[n], scope)
                     THEN BuildSearchPatterns(BareTitle(queries[n]), scope, NoNumber)
                     ELSE <<>>)
    IN  FirstOccurrences(FlattenSeq([n \in DOMAIN queries |-> Of(n)]))

\* request_patterns: everything the prefetch runs.
RequestPatterns(queries, scope, absolute) ==
    LET Of(q) == BuildSearchPatterns(q, scope, absolute)
                 \o (IF HasBareTitlePass(q, scope)
                     THEN BuildSearchPatterns(BareTitle(q), scope, NoNumber)
                     ELSE <<>>)
    IN  FirstOccurrences(FlattenSeq([n \in DOMAIN queries |-> Of(queries[n])]))

\* Mutant: the pipeline of a query drops the absolute number.
PassesWithoutAbsolute(queries, scope, absolute) ==
    LET Of(q) == << BuildSearchPatterns(q, scope, NoNumber) >>
                 \o (IF HasBareTitlePass(q, scope)
                     THEN << BuildSearchPatterns(BareTitle(q), scope, NoNumber) >>
                     ELSE <<>>)
    IN  FlattenSeq([n \in DOMAIN queries |-> Of(queries[n])])

\* The sequential passes of _search_grouped: per query its pipeline, then
\* for a movie with a trailing year the bare title's.
SequentialPasses(queries, scope, absolute) ==
    LET Of(q) == << BuildSearchPatterns(q, scope, absolute) >>
                 \o (IF HasBareTitlePass(q, scope)
                     THEN << BuildSearchPatterns(BareTitle(q), scope, NoNumber) >>
                     ELSE <<>>)
    IN  FlattenSeq([n \in DOMAIN queries |-> Of(queries[n])])

\* One request: the prefetch, then the passes.
SearchGrouped(q, alt, scope, absolute) ==
    LET queries == SearchQueries(q, alt)
    IN  << RequestPatterns(queries, scope, absolute) >>
        \o SequentialPasses(queries, scope, absolute)

-----------------------------------------------------------------------------
(* What the rest of the search relies on.                                  *)

(* Every pass asks for patterns of the prefetch only, although the two     *)
(* lists are built by different functions of different modules.            *)
PrefetchCoversPasses(batches) ==
    \A b \in 2 .. Len(batches) : ToSet(batches[b]) \subseteq ToSet(batches[1])

(* No pattern is prefetched that no pass reads: a plugin search whose      *)
(* results the response ignores.                                           *)
PassesUsePrefetch(batches) ==
    ToSet(batches[1]) \subseteq UNION {ToSet(batches[b]) : b \in 2 .. Len(batches)}
=============================================================================
