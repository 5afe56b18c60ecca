----------------------------- MODULE TmdbCache -----------------------------
(***************************************************************************)
(* The TMDB client and its caches (services/tmdb.py) under a language      *)
(* setting that changes, answers that fail, and a cache that forgets.      *)
(*                                                                         *)
(* A read is one cached function.  Searches and details are memoized by    *)
(* their arguments; the others build a key - most of them with the         *)
(* language - look it up, ask TMDB, and store what they made of it.  A     *)
(* call of the API is a list of steps a request thread has still to take:  *)
(* to look a read up, to get a part of it from TMDB, to store it, and for  *)
(* the automatic numbering to consider a group it has read.  Reads nest:   *)
(* recommendations look up release dates before they are stored.           *)
(***************************************************************************)
EXTENDS Naturals, Sequences, FiniteSets, SequencesExt

CONSTANTS
    Callers,    \* the request threads
    Languages,  \* values of target_language
    NoLanguage, \* in the key of a read that leaves the language out
    Groups,     \* a sequence: the TV episode groups of a show, in TMDB's order
    Qualifying, \* the groups that build_numbering accepts
    Titles,     \* a sequence: the recommended titles
    Nothing,    \* no entry, no answer, no choice
    MaxParts,   \* bound: the requests that the episodes of a show take
    Capacity    \* bound: the entries the cache holds before it culls one

ASSUME LanguageAssumption == Languages # {} /\ NoLanguage \notin Languages

\* TMDB's group ids are unique.
ASSUME GroupsAssumption ==
    Groups \in Seq(STRING) /\ IsInjective(Groups) /\ Qualifying \subseteq ToSet(Groups)

ASSUME TitlesAssumption == Titles \in Seq(STRING)

ASSUME BoundsAssumption == MaxParts \in Nat \ {0} /\ Capacity \in Nat \ {0}

VARIABLES
    language,   \* config.target_language
    configured, \* config.tmdb_api_key is set
    cache,      \* app_cache: [Keys -> an entry or Nothing]
    todo,       \* [Callers -> the steps a thread has still to take]
    answer,     \* [Callers -> the read it finished last, with its value]
    failed,     \* [Callers -> groups TMDB failed to return in this call]
    chosen,     \* [Callers -> the automatic choice of a call]
    spoke       \* history: [Callers -> languages set at some time of its call]

vars == <<language, configured, cache, todo, answer, failed, chosen, spoke>>

GroupRead(g) == <<"group", g>>

DatesRead(t) == <<"dates", t>>

\* search_tmdb_multi, which stands for the details of a movie or a show too.
Memoized == {<<"search">>}

\* The reads whose keys leave the language out.
Unlocalised == Memoized \cup {DatesRead(t) : t \in ToSet(Titles)}

\* "discover" stands for get_genres and get_videos too.
Localised == {<<"discover">>, <<"episodes">>, <<"recommendations">>, <<"groups">>}
             \cup {GroupRead(g) : g \in ToSet(Groups)}

Reads == Unlocalised \cup Localised

Keys == (Unlocalised \X {NoLanguage}) \cup (Localised \X Languages)

\* Mutant: one key for all languages.
KeyOfArguments(r, l) == IF r \in Unlocalised THEN <<r, NoLanguage>>
                        ELSE <<r, CHOOSE m \in Languages : TRUE>>

\* The key a read builds, with the language it finds set.
KeyOf(r, l) == IF r \in Unlocalised THEN <<r, NoLanguage>> ELSE <<r, l>>

Look(r) == [do |-> "look", read |-> r]

Get(r) == [do |-> "get", read |-> r]

\* value: the languages of the parts TMDB has returned, raced: the language
\* changed since the key was built.
StoreOf(r, k, n) ==
    [do |-> "store", read |-> r, key |-> k, parts |-> n, value |-> <<>>, raced |-> FALSE]

Consider(g) == [do |-> "consider", group |-> g]

Settle == [do |-> "settle"]

\* The ways a read goes when the cache does not have it: a show without
\* seasons, with its seasons in one request, or with one request for each;
\* a list of recommendations that is full, or not, before its last title.
Bodies(r) ==
    CASE r = <<"episodes">> ->
            {[i \in 1 .. n |-> Get(r)] : n \in 1 .. MaxParts}
      [] r = <<"recommendations">> ->
            {<<Get(r)>> \o [i \in 1 .. n |-> Look(DatesRead(Titles[i]))] : n \in 0 .. Len(Titles)}
      [] OTHER -> {<<Get(r)>>}

\* _auto_candidates and select_auto: each group is read and considered in turn.
Candidates == [i \in 1 .. 2 * Len(Groups) |->
    IF i % 2 = 1 THEN Look(GroupRead(Groups[(i + 1) \div 2])) ELSE Consider(Groups[i \div 2])]

\* get_show_numbering: the canonical list, then the groups, one by one.
AutoNumbering == <<Look(<<"episodes">>), Look(<<"groups">>)>> \o Candidates \o <<Settle>>

NamedNumbering(g) == <<Look(<<"episodes">>), Look(<<"groups">>), Look(GroupRead(g))>>

\* The calls of the API, as the reads they make; an unknown group ends its
\* call once the groups are read.
Calls ==
    {<<Look(r)>> : r \in Memoized \cup {<<"discover">>, <<"episodes">>, <<"recommendations">>}}
    \cup {AutoNumbering, <<Look(<<"groups">>)>> \o AutoNumbering}
    \cup {NamedNumbering(g) : g \in ToSet(Groups)}
    \cup {<<Look(<<"episodes">>), Look(<<"groups">>)>>}

NoAnswer == [read |-> Nothing, value |-> <<>>, hit |-> FALSE, raced |-> FALSE]

Init ==
    /\ language \in Languages
    /\ configured \in BOOLEAN
    /\ cache = [k \in Keys |-> Nothing]
    /\ todo = [c \in Callers |-> <<>>]
    /\ answer = [c \in Callers |-> NoAnswer]
    /\ failed = [c \in Callers |-> {}]
    /\ chosen = [c \in Callers |-> Nothing]
    /\ spoke = [c \in Callers |-> {}]

-----------------------------------------------------------------------------
\* The next step of a thread is to do something.
Does(c, what) == todo[c] # <<>> /\ Head(todo[c]).do = what

Then(c, steps) == todo' = [todo EXCEPT ![c] = steps]

Finish(c, r, v, hit, raced) ==
    answer' = [answer EXCEPT ![c] = [read |-> r, value |-> v, hit |-> hit, raced |-> raced]]

\* The exception leaves the handler, which answers 503.
Raise(c) ==
    /\ Then(c, <<>>)
    /\ answer' = [answer EXCEPT ![c] = NoAnswer]
    /\ UNCHANGED failed

Begin(c, steps) ==
    /\ todo[c] = <<>>
    /\ Then(c, steps)
    /\ answer' = [answer EXCEPT ![c] = NoAnswer]
    /\ failed' = [failed EXCEPT ![c] = {}]
    /\ chosen' = [chosen EXCEPT ![c] = Nothing]
    /\ spoke' = [spoke EXCEPT ![c] = {language}]
    /\ UNCHANGED <<language, configured, cache>>

\* The key is built and the cache has it.
Hit(c) ==
    /\ Does(c, "look")
    /\ LET r == Head(todo[c]).read
           e == cache[KeyOf(r, language)]
       IN  /\ e # Nothing
           /\ Finish(c, r, e.value, TRUE, e.raced)
    /\ Then(c, Tail(todo[c]))
    /\ UNCHANGED <<language, configured, cache, failed, chosen, spoke>>

\* The cache does not have it: its parts are to be asked for and stored.  A
\* memoized read asks nobody when there is no key.
Miss(c) ==
    /\ Does(c, "look")
    /\ LET r == Head(todo[c]).read
           k == KeyOf(r, language)
       IN  /\ cache[k] = Nothing
           /\ \E body \in IF r \in Memoized /\ ~configured THEN {<<>>} ELSE Bodies(r) :
                Then(c, body
                        \o <<StoreOf(r, k, Cardinality({i \in DOMAIN body : body[i].do = "get"}))>>
                        \o Tail(todo[c]))
    /\ UNCHANGED <<language, configured, cache, answer, failed, chosen, spoke>>

\* The store of the read that the next GET is for.
StoreIndex(steps) == SelectInSeq(steps, LAMBDA s : s.do = "store")

\* Mutant: a part that was answered is asked for again.
ReceivedAndAskedAgain(c) ==
    /\ Does(c, "get")
    /\ configured
    /\ Then(c, [todo[c] EXCEPT ![StoreIndex(todo[c])].value = Append(@, language)])
    /\ UNCHANGED <<language, configured, cache, answer, failed, chosen, spoke>>

\* TMDB answers 200, in the language the request found set.  Nothing another
\* thread sees happens between the request and the answer: they are one step.
Received(c) ==
    /\ Does(c, "get")
    /\ configured
    /\ Then(c, Tail([todo[c] EXCEPT ![StoreIndex(todo[c])].value = Append(@, language)]))
    /\ UNCHANGED <<language, configured, cache, answer, failed, chosen, spoke>>

\* TMDB answers another status.  A memoized read takes it for an empty answer.
Refused(c) ==
    /\ Does(c, "get")
    /\ configured
    /\ Head(todo[c]).read \in Memoized
    /\ Then(c, Tail(todo[c]))
    /\ UNCHANGED <<language, configured, cache, answer, failed, chosen, spoke>>

\* Mutant: an error ends the read as if it had been its last part.
UnavailableMeansEmpty(c) ==
    /\ Does(c, "get")
    /\ Then(c, SubSeq(todo[c], StoreIndex(todo[c]), Len(todo[c])))
    /\ UNCHANGED <<language, configured, cache, answer, failed, chosen, spoke>>

\* Mutant: the candidates end with the first group TMDB does not return.
UnavailableEndsCandidates(c) ==
    /\ Does(c, "get")
    /\ LET rest == SubSeq(todo[c], StoreIndex(todo[c]) + 1, Len(todo[c]))
       IN  IF rest # <<>> /\ Head(rest).do = "consider"
           THEN /\ Then(c, <<Settle>>)
                /\ failed' = [failed EXCEPT ![c] = @ \cup {Head(rest).group}]
                /\ UNCHANGED answer
           ELSE Raise(c)
    /\ UNCHANGED <<language, configured, cache, chosen, spoke>>

\* TmdbUnavailableError: a transport failure, or for the reads that are not
\* memoized another status or a missing key.  _auto_candidates catches it for
\* a group and goes on with the next one.
Unavailable(c) ==
    /\ Does(c, "get")
    /\ LET rest == SubSeq(todo[c], StoreIndex(todo[c]) + 1, Len(todo[c]))
       IN  IF rest # <<>> /\ Head(rest).do = "consider"
           THEN /\ Then(c, Tail(rest))
                /\ failed' = [failed EXCEPT ![c] = @ \cup {Head(rest).group}]
                /\ UNCHANGED answer
           ELSE Raise(c)
    /\ UNCHANGED <<language, configured, cache, chosen, spoke>>

Held(map) == {k \in Keys : map[k] # Nothing}

\* The value goes into the cache, which culls another entry when it is full.
Store(c) ==
    /\ Does(c, "store")
    /\ LET s == Head(todo[c])
           put == [cache EXCEPT ![s.key] =
                     [value |-> s.value, parts |-> s.parts, raced |-> s.raced]]
       IN  /\ IF Cardinality(Held(put)) <= Capacity
              THEN cache' = put
              ELSE \E k \in Held(put) \ {s.key} : cache' = [put EXCEPT ![k] = Nothing]
           /\ Finish(c, s.read, s.value, FALSE, s.raced)
    /\ Then(c, Tail(todo[c]))
    /\ UNCHANGED <<language, configured, failed, chosen, spoke>>

\* select_auto: the first group that qualifies is taken, no other is read.
Take(c) ==
    /\ Does(c, "consider")
    /\ LET g == Head(todo[c]).group
       IN  IF g \in Qualifying
           THEN chosen' = [chosen EXCEPT ![c] = g] /\ Then(c, <<>>)
           ELSE UNCHANGED chosen /\ Then(c, Tail(todo[c]))
    /\ UNCHANGED <<language, configured, cache, answer, failed, spoke>>

\* No candidate is left: the canonical numbering.
Identity(c) ==
    /\ Does(c, "settle")
    /\ chosen' = [chosen EXCEPT ![c] = "canonical"]
    /\ Then(c, <<>>)
    /\ UNCHANGED <<language, configured, cache, answer, failed, spoke>>

\* An entry expires, or the cache culls it for entries of other services.
Evict(k) ==
    /\ cache[k] # Nothing
    /\ cache' = [cache EXCEPT ![k] = Nothing]
    /\ UNCHANGED <<language, configured, todo, answer, failed, chosen, spoke>>

\* DELETE /cache.
ClearCache ==
    /\ cache' = [k \in Keys |-> Nothing]
    /\ UNCHANGED <<language, configured, todo, answer, failed, chosen, spoke>>

\* An administrator sets target_language, while reads are under way.
SetLanguage(l) ==
    /\ l # language
    /\ language' = l
    /\ spoke' = [c \in Callers |-> IF todo[c] = <<>> THEN spoke[c] ELSE spoke[c] \cup {l}]
    /\ todo' = [c \in Callers |-> [i \in DOMAIN todo[c] |->
                    IF todo[c][i].do = "store" THEN [todo[c][i] EXCEPT !.raced = TRUE]
                    ELSE todo[c][i]]]
    /\ UNCHANGED <<configured, cache, answer, failed, chosen>>

\* The process starts again, with or without a key; the cache is on disk.
Restart ==
    /\ configured' \in BOOLEAN
    /\ todo' = [c \in Callers |-> <<>>]
    /\ answer' = [c \in Callers |-> NoAnswer]
    /\ failed' = [c \in Callers |-> {}]
    /\ chosen' = [c \in Callers |-> Nothing]
    /\ spoke' = [c \in Callers |-> {}]
    /\ UNCHANGED <<language, cache>>

CallStep(c) ==
    \/ \E steps \in Calls : Begin(c, steps)
    \/ Hit(c)
    \/ Miss(c)
    \/ Received(c)
    \/ Refused(c)
    \/ Unavailable(c)
    \/ Store(c)
    \/ Take(c)
    \/ Identity(c)

Next ==
    \/ \E c \in Callers : CallStep(c)
    \/ \E k \in Keys : Evict(k)
    \/ ClearCache
    \/ \E l \in Languages : SetLanguage(l)
    \/ Restart

Spec == Init /\ [][Next]_vars

-----------------------------------------------------------------------------
Value == BoundedSeq(Languages, MaxParts)

Entry == [value : Value, parts : 0 .. MaxParts, raced : BOOLEAN]

Steps ==
    [do : {"look", "get"}, read : Reads]
    \cup [do : {"store"}, read : Reads, key : Keys, parts : 0 .. MaxParts,
          value : Value, raced : BOOLEAN]
    \cup [do : {"consider"}, group : ToSet(Groups)]
    \cup [do : {"settle"}]

TypeOK ==
    /\ language \in Languages
    /\ configured \in BOOLEAN
    /\ cache \in [Keys -> Entry \cup {Nothing}]
    /\ Cardinality(Held(cache)) <= Capacity
    /\ todo \in [Callers -> Seq(Steps)]
    /\ answer \in [Callers -> [read : Reads \cup {Nothing}, value : Value,
                               hit : BOOLEAN, raced : BOOLEAN]]
    /\ failed \in [Callers -> SUBSET ToSet(Groups)]
    /\ chosen \in [Callers -> ToSet(Groups) \cup {"canonical", Nothing}]
    /\ spoke \in [Callers -> SUBSET Languages]

(* "Never silently an empty result" (tmdb.py:53-54): an entry of a read     *)
(* that is not memoized has every part of it, whatever failed in between;   *)
(* a memoized one is empty at worst.                                        *)
EntryIsWhole ==
    \A k \in Held(cache) :
        \/ Len(cache[k].value) = cache[k].parts
        \/ k[1] \in Memoized /\ cache[k].value = <<>>

(* target_language applies to the "next search" (settings.py:41-46): what a *)
(* call is answered is in a language that was set during the call - but for *)
(* a memoized read that the cache still had in an older language, and for a *)
(* value that was under way when the language changed, which is stored in   *)
(* the new language under the old one's key.                                *)
AnswerInLanguage ==
    \A c \in Callers :
        \/ ToSet(answer[c].value) \subseteq spoke[c]
        \/ answer[c].hit /\ (answer[c].read \in Unlocalised \/ answer[c].raced)

(* A group TMDB fails to return "is skipped so it cannot hide a later one   *)
(* that qualifies" (tmdb.py:573-574): the automatic choice is the first     *)
(* group that qualifies among those that did not fail during the call.      *)
AutoIsFirstAvailable ==
    \A c \in Callers :
        LET Available(i) == Groups[i] \in Qualifying \ failed[c]
        IN  chosen[c] # Nothing =>
                \/ chosen[c] = "canonical" /\ \A i \in DOMAIN Groups : ~Available(i)
                \/ \E i \in DOMAIN Groups :
                      /\ chosen[c] = Groups[i]
                      /\ Available(i)
                      /\ \A j \in 1 .. i - 1 : ~Available(j)
=============================================================================
