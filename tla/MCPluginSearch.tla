--------------------------- MODULE MCPluginSearch ---------------------------
(***************************************************************************)
(* PluginSearch with the requests that SearchPatterns makes of a few       *)
(* queries for movies and shows.                                           *)
(***************************************************************************)
EXTENDS PluginSearch, SearchPatterns

Query(spelling, year) == [title |-> "dune", spelling |-> spelling, year |-> year]

MovieScope == [media |-> Movie, season |-> NoNumber, episode |-> NoNumber]
EpisodeScope == [media |-> Show, season |-> 1, episode |-> 1]

\* The web's search for a movie and a pick for the same title without the
\* year: they share the pattern "Dune".
WebMovie == SearchGrouped(Query("Dune", 2021), NoQuery, MovieScope, NoNumber)
PickMovie == SearchGrouped(Query("Dune", NoYear), NoQuery, MovieScope, NoNumber)

\* One request whose two spellings fold to the same bare title.
TwoSpellings == SearchGrouped(Query("Dune", 2021), Query("dune", NoYear), MovieScope, NoNumber)

\* A pick of one episode: its tag and its season's.
PickEpisode == SearchGrouped(Query("Dune", NoYear), NoQuery, EpisodeScope, NoNumber)

PatternsOf(batches) ==
    UNION {ToSet(batches[r][b]) : <<r, b>> \in
            {<<r, b>> \in (DOMAIN batches) \X (1 .. 8) : b <= Len(batches[r])}}

TwoRequests == [r \in {"web", "pick"} |-> IF r = "web" THEN WebMovie ELSE PickMovie]
OneRequest == [r \in {"web"} |-> TwoSpellings]
OneEpisode == [r \in {"pick"} |-> PickEpisode]

TwoPatterns == PatternsOf(TwoRequests)
OnePatterns == PatternsOf(OneRequest)
EpisodePatterns == PatternsOf(OneEpisode)

TwoKeys == {FoldedPattern(p) : p \in TwoPatterns}
OneKeys == {FoldedPattern(p) : p \in OnePatterns}
EpisodeKeys == {FoldedPattern(p) : p \in EpisodePatterns}

TwoFold == [p \in TwoPatterns |-> FoldedPattern(p)]
OneFold == [p \in OnePatterns |-> FoldedPattern(p)]
EpisodeFold == [p \in EpisodePatterns |-> FoldedPattern(p)]
=============================================================================
