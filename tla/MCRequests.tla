----------------------------- MODULE MCRequests -----------------------------
(***************************************************************************)
(* Requests over small universes of inputs.                                *)
(***************************************************************************)
EXTENDS Requests

\* Two titles, two spellings, one year, every scope the API accepts.
Queries == [title : {"dune", "storks"}, spelling : {"typed", "canonical"}, year : {NoYear, 2021}]

MovieScope == [media |-> Movie, season |-> NoNumber, episode |-> NoNumber]

ShowScope == [media |-> Show, season |-> NoNumber, episode |-> NoNumber]

SeasonScope == [media |-> Show, season |-> 1, episode |-> NoNumber]

EpisodeScope == [media |-> Show, season |-> 1, episode |-> 2]

MCSearches ==
    [query : Queries, alt : Queries \cup {NoQuery},
     scope : {MovieScope, ShowScope, SeasonScope, EpisodeScope}, absolute : {NoNumber, 26}]

-----------------------------------------------------------------------------
\* A movie with its year, alone, with another spelling and with its bare title;
\* a season and an episode.
Titled(name, year) == [title |-> name, spelling |-> "typed", year |-> year]

MCPicks ==
    {[query |-> Titled("dune", 2021), alt |-> a, scope |-> MovieScope, absolute |-> NoNumber] :
        a \in {NoQuery, Titled("storks", 2021), Titled("dune", NoYear)}}
    \cup {[query |-> Titled("dune", NoYear), alt |-> NoQuery, scope |-> s, absolute |-> 26] :
             s \in {SeasonScope, EpisodeScope}}

MCRules ==
    LET Rule(bucket, seeders, multi, target, policy, fallback) ==
          [resolution |-> bucket, minSeeders |-> seeders, preferMulti |-> multi,
           config |-> [minimumSeeders |-> 2, target |-> target, policy |-> policy,
                       fallback |-> fallback]]
    IN  {Rule("1080p", 0, TRUE, "English", "strict", TRUE),
         Rule("4K", 4, FALSE, "English", "lenient", TRUE),
         Rule("1080p", 6, FALSE, "English", "off", FALSE),
         Rule("4K", 0, TRUE, NoTarget, "strict", TRUE)}

\* A plain release, or one that differs from it in what one of the filters or
\* the rank looks at.
PlainName == [seasons |-> <<>>, episode |-> NoNumber, absolute |-> NoNumber, year |-> 2021,
              resolution |-> "1080p", pre |-> FALSE, languages |-> {"English"}, multi |-> FALSE]

\* What a name may be a release of.
Subjects ==
    {[PlainName EXCEPT !.seasons = s, !.episode = e] :
        s \in {<<>>, <<1>>, <<2>>, <<1, 2>>}, e \in {NoNumber, 2, 3}}
    \cup {[PlainName EXCEPT !.absolute = 26, !.seasons = s] : s \in {<<>>, <<1>>}}
    \cup {[PlainName EXCEPT !.year = y] : y \in {NoYear, 1984}}

\* How else two releases of one thing differ.
Variants(name) ==
    {name}
    \cup {[name EXCEPT !.resolution = b] : b \in {"4K", "720p", Other}}
    \cup {[name EXCEPT !.languages = l, !.multi = m] :
             l \in {{}, {"French"}}, m \in BOOLEAN}
    \cup {[name EXCEPT !.multi = TRUE], [name EXCEPT !.pre = TRUE]}

Offer(name, seeders, size, addable) ==
    [name |-> name, seeders |-> seeders, size |-> size, addable |-> addable]

Subject(scope) ==
    CASE scope = MovieScope -> PlainName
      [] scope = SeasonScope -> [PlainName EXCEPT !.seasons = <<1>>]
      [] scope = EpisodeScope -> [PlainName EXCEPT !.absolute = 26]

MCOffers ==
    [scope \in {MovieScope, SeasonScope, EpisodeScope} |->
        {Offer(n, 5, 1, TRUE) : n \in Subjects \cup Variants(Subject(scope))}
        \cup {Offer(Subject(scope), s, z, TRUE) : s \in {1, 3, 7}, z \in {1, 2}}
        \cup {Offer(Subject(scope), 9, 1, FALSE)}]

-----------------------------------------------------------------------------
\* A special and three regular episodes, and groups of at most two of them.
EpisodeKeys == {<<0, 1>>, <<1, 1>>, <<1, 2>>, <<1, 3>>}

MCCanonicals ==
    {<<[key |-> <<1, 2>>, aired |-> b], [key |-> <<1, 1>>, aired |-> TRUE],
       [key |-> <<0, 1>>, aired |-> TRUE], [key |-> <<1, 3>>, aired |-> c]>> :
        b \in BOOLEAN, c \in BOOLEAN}

EpisodeGroup(order, keys, reversed) ==
    [order |-> order,
     entries |-> [i \in DOMAIN keys |->
                    [order |-> IF reversed THEN Len(keys) - i ELSE i, key |-> keys[i]]]]

MCEpisodeGroups ==
    {EpisodeGroup(o, k, r) : o \in 0 .. 2, k \in BoundedSeq(EpisodeKeys, 2), r \in BOOLEAN}
=============================================================================
