------------------------------ MODULE Requests ------------------------------
(***************************************************************************)
(* What the service computes without a state of its own: the patterns of a *)
(* search, the release of a pick and the numbering of a show.  A state is  *)
(* one input, reached from the state in which nothing is asked.            *)
(***************************************************************************)
EXTENDS PickRule, Numbering

CONSTANTS
    Searches,       \* [query, alt, scope, absolute]: what can be searched for
    Picks,          \* the same for what can be picked
    Rules,          \* [resolution, minSeeders, preferMulti, config]: the rest of a pick
    Offers,         \* for every scope, the listings of the plugins, without a URL
    MaxListings,    \* a pick finds so many at most
    Canonicals,     \* the episodes of a show: sequences of [key, aired]
    EpisodeGroups,  \* the groups of an episode group, as TMDB sends them
    MaxGroups,      \* which has so many at most
    NoInput

Keys == Nat \X Nat

(* A pick's resolution is one of the buckets (routers/search.py:236).      *)
ASSUME RulesAssumption ==
    \A rule \in Rules : rule.resolution \in ToSet(PickResolutions)

(* A query without a year is its own bare title.                           *)
ASSUME PicksAssumption ==
    \A pick \in Picks : \A q \in ToSet(SearchQueries(pick.query, pick.alt)) :
        q.year = NoYear => BareTitle(q) = q

ASSUME OffersAssumption ==
    \A pick \in Picks : \A offer \in Offers[pick.scope] :
        offer.seeders \in Int /\ offer.size \in Int

(* TMDB lists an episode of a season once.                                 *)
ASSUME CanonicalsAssumption ==
    \A canonical \in Canonicals :
        /\ canonical \in Seq([key : Keys, aired : BOOLEAN])
        /\ \A i, j \in DOMAIN canonical : canonical[i].key = canonical[j].key => i = j

ASSUME EpisodeGroupsAssumption ==
    \A group \in EpisodeGroups :
        group.order \in Nat /\ group.entries \in Seq([order : Nat, key : Keys])

ASSUME BoundsAssumption == MaxListings \in Nat /\ MaxGroups \in Nat

ASSUME NoNumberingAssumption == NoNumbering \notin Seq([key : Keys, release : Keys, absolute : Nat])

VARIABLE input

Asked(kind) == input # NoInput /\ input.kind = kind

-----------------------------------------------------------------------------
\* _search_grouped has an absolute number with an episode only.
AbsoluteOf(ask) == IF ask.scope.episode = NoNumber THEN NoNumber ELSE ask.absolute

PatternsOf(ask) ==
    RequestPatterns(SearchQueries(ask.query, ask.alt), ask.scope, AbsoluteOf(ask))

\* The prefetch and the passes of what is asked.
Search == SearchGrouped(input.ask.query, input.ask.alt, input.ask.scope, AbsoluteOf(input.ask))

\* What pick_best is asked.
Request ==
    [query |-> input.ask.query, alt |-> input.ask.alt, scope |-> input.ask.scope,
     absolute |-> input.ask.absolute, resolution |-> input.rule.resolution,
     minSeeders |-> input.rule.minSeeders, preferMulti |-> input.rule.preferMulti]

\* What the plugins found for every pattern, in the order of the offers.  The
\* URL of a listing tells it apart: equal offers are one torrent, found twice.
Found ==
    LET patterns == PatternsOf(input.ask)
        Listing(offer) == [url |-> offer, addable |-> offer.addable, seeders |-> offer.seeders,
                           size |-> offer.size, name |-> offer.name]
        listings == [n \in DOMAIN input.offers |-> Listing(input.offers[n])]
    IN  [p \in ToSet(patterns) |->
            Selected(listings, {n \in DOMAIN listings : patterns[input.places[n]] = p})]

\* What the groups give, with the specials' group left aside.
Seasons == ParseGroupSeasons(input.groups)

Built == BuildNumbering(input.canonical, Seasons)

-----------------------------------------------------------------------------
AskPatterns ==
    /\ input = NoInput
    /\ \E ask \in Searches : input' = [kind |-> "search", ask |-> ask]

AskPick ==
    /\ input = NoInput
    /\ \E ask \in Picks, rule \in Rules, n \in 0 .. MaxListings :
       \E offers \in [1 .. n -> Offers[ask.scope]], places \in [1 .. n -> DOMAIN PatternsOf(ask)] :
          input' = [kind |-> "pick", ask |-> ask, rule |-> rule,
                    offers |-> offers, places |-> places]

AskNumbering ==
    /\ input = NoInput
    /\ \E canonical \in Canonicals, n \in 0 .. MaxGroups :
       \E groups \in [1 .. n -> EpisodeGroups] :
          input' = [kind |-> "numbering", canonical |-> canonical, groups |-> groups]

Forget == input # NoInput /\ input' = NoInput

Init == input = NoInput

Next == AskPatterns \/ AskPick \/ AskNumbering \/ Forget

Spec == Init /\ [][Next]_input

-----------------------------------------------------------------------------
(* What PluginSearch assumes of a request: a prefetch and a pass at least, *)
(* no batch that repeats a pattern, and no pass outside the prefetch.      *)
RequestIsWellFormed ==
    Asked("search") =>
        /\ Len(Search) >= 2
        /\ Search[1] # <<>>
        /\ \A b \in DOMAIN Search : Cardinality(ToSet(Search[b])) = Len(Search[b])
        /\ PrefetchCoversPasses(Search)

(* The prefetch runs no plugin search whose results the passes ignore.     *)
PrefetchIsAllUsed == Asked("search") => PassesUsePrefetch(Search)

(* pick_best's docstring, end to end: whatever the passes filter, union    *)
(* and group, the release picked is the best of those the plugins found.   *)
PickIsBest ==
    Asked("pick") =>
        IsBestPick(Pick(Found, Request, input.rule.config), Found, Request, input.rule.config)

(* The numbering that is used - a group's or the canonical one - has every *)
(* regular episode once, and numbers that tell the episodes apart.  Groups *)
(* that share an order number their episodes twice over; TMDB orders them. *)
NumberingIsOneToOne ==
    LET regular == {g \in DOMAIN Seasons : Seasons[g].order # Specials}
    IN  Asked("numbering") /\ (\A g, h \in regular : Seasons[g].order = Seasons[h].order => g = h)
        => LET n == SelectAuto(input.canonical, <<Seasons>>)
           IN  /\ IsComplete(n, input.canonical)
               /\ IsOrdered(n)
               /\ Built # NoNumbering /\ n = Built => IsWithoutGaps(n)

\* The groups that divide the show: the specials' group and empty ones do not.
DividingGroups ==
    {g \in DOMAIN input.groups : input.groups[g].order # Specials /\ input.groups[g].entries # <<>>}

\* The release seasons they number: a group's order is its release season
\* (numbering.py:37-38).
ReleaseSeasons == {input.groups[g].order : g \in DividingGroups}

(* build_numbering's docstring: groups with orders of their own are        *)
(* refused exactly when they are not a division of the aired episodes into *)
(* MinReleaseSeasons release seasons or more (numbering.py:17-18, 92-95).  *)
(* Two groups that share an order are one release season, which            *)
(* build_numbering counts as two (numbering.py:97-98).                     *)
QualifiesAsDocumented ==
    Asked("numbering")
    /\ (\A g, h \in DividingGroups : input.groups[g].order = input.groups[h].order => g = h)
    => LET regular == {e \in ToSet(input.canonical) : e.key[1] # Specials}
           places == UNION {{g} \X DOMAIN input.groups[g].entries : g \in DividingGroups}
           KeyOfPlace(p) == input.groups[p[1]].entries[p[2]].key
           keys == {KeyOfPlace(p) : p \in places}
       IN  (Built # NoNumbering) <=>
               /\ Cardinality(ReleaseSeasons) >= MinReleaseSeasons
               /\ keys \subseteq {e.key : e \in regular}
               /\ \A p, q \in places : KeyOfPlace(p) = KeyOfPlace(q) => p = q
               /\ {e.key : e \in {e \in regular : e.aired}} \subseteq keys
=============================================================================
