----------------------------- MODULE Numbering -----------------------------
(***************************************************************************)
(* Episode numbering (services/numbering.py): from the canonical episodes  *)
(* of a show and one episode group of TMDB, the release season, release    *)
(* episode and absolute number of every regular episode.                   *)
(*                                                                         *)
(* A key is a pair <<season, episode>>.  A canonical episode is a record   *)
(* [key, aired]; a group of an episode group is [order, episodes] with its *)
(* keys in order, and as TMDB sends it [order, entries] with entries       *)
(* [order, key].  A numbering is a sequence of [key, release, absolute].   *)
(***************************************************************************)
EXTENDS Lists

CONSTANT NoNumbering

Specials == 0

MinReleaseSeasons == 2

\* parse_group_seasons: groups by order, their episodes by order.
ParseGroupSeasons(raw) ==
    LET ByOrder(a, b) == a.order < b.order
        Keys(g) == LET entries == Sorted(g.entries, ByOrder)
                   IN  [i \in DOMAIN entries |-> entries[i].key]
    IN  Sorted([i \in DOMAIN raw |-> [order |-> raw[i].order, episodes |-> Keys(raw[i])]],
               ByOrder)

\* _regular: the canonical episodes without the specials, in order.
Regular(canonical) ==
    Sorted(Filtered(canonical, LAMBDA e : e.key[1] # Specials),
           LAMBDA a, b : PairBefore(a.key, b.key))

KeysOf(episodes) == [i \in DOMAIN episodes |-> episodes[i].key]

\* identity_numbering: release numbers equal canonical ones.
IdentityNumbering(canonical) ==
    LET keys == KeysOf(Regular(canonical))
    IN  [i \in DOMAIN keys |-> [key |-> keys[i], release |-> keys[i], absolute |-> i]]

RegularGroups(groups) ==
    Filtered(groups, LAMBDA g : g.order # Specials /\ g.episodes # <<>>)

\* The places of a show's groups: <<group, position>>.
Slots(groups) == UNION {{g} \X DOMAIN groups[g].episodes : g \in DOMAIN groups}

KeyAt(groups, slot) == groups[slot[1]].episodes[slot[2]]

\* The keys the groups hold.
GroupedKeys(groups) == {KeyAt(groups, slot) : slot \in Slots(groups)}

\* Mutant: an episode listed twice is no reason to refuse the group.
QualifiesWithRepeats(canonical, groups) ==
    /\ Len(groups) >= MinReleaseSeasons
    /\ GroupedKeys(groups) \subseteq ToSet(KeysOf(Regular(canonical)))
    /\ \A e \in ToSet(Regular(canonical)) : e.aired => e.key \in GroupedKeys(groups)

\* The reasons for which build_numbering returns None.
Qualifies(canonical, groups) ==
    /\ Len(groups) >= MinReleaseSeasons
    /\ GroupedKeys(groups) \subseteq ToSet(KeysOf(Regular(canonical)))
    /\ \A s, t \in Slots(groups) : KeyAt(groups, s) = KeyAt(groups, t) => s = t
    /\ \A e \in ToSet(Regular(canonical)) : e.aired => e.key \in GroupedKeys(groups)

\* mapped: the release number a group gives to each of its keys.
Mapped(groups) ==
    [k \in GroupedKeys(groups) |->
        LET slot == CHOOSE s \in Slots(groups) : KeyAt(groups, s) = k
        IN  <<groups[slot[1]].order, slot[2]>>]

\* _group_order: what is grouped in release order, then the rest as it is.
GroupOrder(keys, groups) ==
    LET mapped == Mapped(groups)
    IN  Sorted(FlattenSeq([g \in DOMAIN groups |-> groups[g].episodes]),
               LAMBDA k, l : PairBefore(mapped[k], mapped[l]))
        \o Filtered(keys, LAMBDA k : k \notin DOMAIN mapped)

\* max(mapped.values()).
LastRelease(groups) ==
    LET numbers == {Mapped(groups)[k] : k \in GroupedKeys(groups)}
    IN  CHOOSE n \in numbers : \A m \in numbers : ~PairBefore(n, m)

\* Mutant: the tail starts on the last number that is taken.
TailFromLast(groups, n) == <<LastRelease(groups)[1], LastRelease(groups)[2] + n - 1>>

\* The n-th episode that is not grouped yet continues the last season.
TailNumber(groups, n) == <<LastRelease(groups)[1], LastRelease(groups)[2] + n>>

\* build_numbering, for groups as parse_group_seasons returns them.
BuildNumbering(canonical, seasons) ==
    LET groups == RegularGroups(seasons)
        keys == GroupOrder(KeysOf(Regular(canonical)), groups)
        Release(i) == IF keys[i] \in GroupedKeys(groups) THEN Mapped(groups)[keys[i]]
                      ELSE TailNumber(groups, i - Cardinality(GroupedKeys(groups)))
    IN  IF Qualifies(canonical, groups)
        THEN [i \in DOMAIN keys |-> [key |-> keys[i], release |-> Release(i), absolute |-> i]]
        ELSE NoNumbering

\* _differs.
Differs(numbering) == \E i \in DOMAIN numbering : numbering[i].release # numbering[i].key

\* select_auto: the first candidate that qualifies and differs, else identity.
SelectAuto(canonical, candidates) ==
    LET numberings == [i \in DOMAIN candidates |-> BuildNumbering(canonical, candidates[i])]
        usable == Filtered(numberings, LAMBDA n : n # NoNumbering /\ Differs(n))
    IN  IF usable = <<>> THEN IdentityNumbering(canonical) ELSE usable[1]

-----------------------------------------------------------------------------
(* What a numbering is for: every regular episode is in it once, under     *)
(* absolute numbers 1, 2, ... without a gap.                               *)
IsComplete(numbering, canonical) ==
    /\ \A i \in DOMAIN numbering : numbering[i].absolute = i
    /\ ToSet(KeysOf(numbering)) = {e.key : e \in {e \in ToSet(canonical) : e.key[1] # Specials}}
    /\ \A i, j \in DOMAIN numbering : numbering[i].key = numbering[j].key => i = j

(* A release name finds one episode by either number: the release numbers  *)
(* grow with the absolute ones, so none is given twice.                    *)
IsOrdered(numbering) ==
    \A i, j \in DOMAIN numbering :
        i < j => PairBefore(numbering[i].release, numbering[j].release)

(* Every release season of a group counts its episodes 1, 2, ... .         *)
IsWithoutGaps(numbering) ==
    \A i \in DOMAIN numbering :
        LET s == numbering[i].release[1]
            taken == {numbering[j].release[2] :
                        j \in {j \in DOMAIN numbering : numbering[j].release[1] = s}}
        IN  taken = 1 .. Cardinality(taken)
=============================================================================
