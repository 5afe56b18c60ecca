--------------------------- MODULE TmdbCache_proofs ---------------------------
(***************************************************************************)
(* Theorems about TmdbCache, for any callers, languages, groups and titles.*)
(*                                                                         *)
(* A call is a script: a sequence of steps still to take.  The proofs are  *)
(* about what scripts look like.  A script either asks TMDB for nothing    *)
(* more - and then every value it has still to store is all there - or it  *)
(* begins with the requests whose answers go to its first store.           *)
(***************************************************************************)
EXTENDS TmdbCache, SequenceTheorems, FiniteSetTheorems, TLAPS

Scripts == Seq(Steps)

(* A store that waits for n more parts.  The parts a memoized read is      *)
(* refused are missing, but then it has none.                              *)
Lacks(step, n) ==
    /\ step.key[1] = step.read
    /\ step.read \in Memoized => step.parts <= 1
    /\ \/ Len(step.value) + n = step.parts
       \/ step.read \in Memoized /\ step.value = <<>> /\ n = 0

(* Nothing is asked for any more.                                          *)
Complete(s) ==
    \A i \in 1 .. Len(s) : s[i].do # "get" /\ (s[i].do = "store" => Lacks(s[i], 0))

(* The first m steps are requests, for the store at p, which is the first. *)
Awaits(s, m, p) ==
    /\ m \in Nat \ {0} /\ p \in 1 .. Len(s) /\ m < p
    /\ \A i \in 1 .. Len(s) : s[i].do = "get" <=> i <= m
    /\ \A i \in 1 .. p - 1 : s[i].do \in {"get", "look"}
    /\ s[p].do = "store"
    /\ \A i \in 1 .. m : s[i].read = s[p].read
    /\ Lacks(s[p], m)
    /\ \A i \in p + 1 .. Len(s) : s[i].do = "store" => Lacks(s[i], 0)

Sound(s) == Complete(s) \/ \E m \in Nat, p \in Nat : Awaits(s, m, p)

-----------------------------------------------------------------------------
(* Scripts.                                                                *)

LEMMA StepTypes ==
    ASSUME NEW e \in Steps
    PROVE  /\ e.do \in {"look", "get", "store", "consider", "settle"}
           /\ e.do \in {"look", "get"} => e.read \in Reads
           /\ e.do = "store" =>
                e \in [do : {"store"}, read : Reads, key : Keys, parts : 0 .. MaxParts,
                       value : Value, raced : BOOLEAN]
           /\ e.do = "consider" => e.group \in ToSet(Groups)
BY DEF Steps

LEMMA TailScript ==
    ASSUME NEW s \in Scripts, s # <<>>
    PROVE  /\ Tail(s) \in Scripts
           /\ Len(s) \in Nat \ {0} /\ Len(Tail(s)) = Len(s) - 1
           /\ \A i \in 1 .. Len(Tail(s)) : Tail(s)[i] = s[i + 1] /\ i + 1 \in 1 .. Len(s)
           /\ Head(s) = s[1]
BY HeadTailProperties DEF Scripts

LEMMA RestScript ==
    ASSUME NEW s \in Scripts, NEW p \in 1 .. Len(s)
    PROVE  /\ SubSeq(s, p + 1, Len(s)) \in Scripts
           /\ Len(SubSeq(s, p + 1, Len(s))) = Len(s) - p
           /\ \A i \in 1 .. Len(s) - p :
                SubSeq(s, p + 1, Len(s))[i] = s[p + i] /\ p + i \in 1 .. Len(s)
<1>1. Len(s) \in Nat /\ \A i \in 1 .. Len(s) : s[i] \in Steps
  BY DEF Scripts
<1>2. \A i \in p + 1 .. Len(s) : s[i] \in Steps
  BY <1>1
<1> QED
  BY <1>1, <1>2, SubSeqProperties DEF Scripts

LEMMA ConcatScript ==
    ASSUME NEW s \in Scripts, NEW t \in Scripts
    PROVE  /\ s \o t \in Scripts
           /\ Len(s) \in Nat /\ Len(t) \in Nat /\ Len(s \o t) = Len(s) + Len(t)
           /\ \A i \in 1 .. Len(s) : (s \o t)[i] = s[i]
           /\ \A i \in 1 .. Len(t) : (s \o t)[Len(s) + i] = t[i]
           /\ \A i \in Len(s) + 1 .. Len(s \o t) : (s \o t)[i] = t[i - Len(s)]
<1>1. Len(s) \in Nat /\ Len(t) \in Nat
  BY DEF Scripts
<1>2. /\ s \o t \in Scripts /\ Len(s \o t) = Len(s) + Len(t)
      /\ \A i \in 1 .. Len(s) + Len(t) :
            (s \o t)[i] = IF i <= Len(s) THEN s[i] ELSE t[i - Len(s)]
  BY ConcatProperties DEF Scripts
<1> QED
  BY <1>1, <1>2

LEMMA ValueType ==
    ASSUME NEW v \in Value
    PROVE  /\ v \in Seq(Languages) /\ Len(v) \in 0 .. MaxParts
           /\ \A l \in Languages : Len(v) < MaxParts => Append(v, l) \in Value
<1>1. Value = UNION {[1 .. n -> Languages] : n \in 0 .. MaxParts}
  BY DEF Value, BoundedSeq, SeqOf
<1>2. PICK n \in 0 .. MaxParts : v \in [1 .. n -> Languages]
  BY <1>1
<1>3. MaxParts \in Nat
  BY BoundsAssumption
<1>4. v \in Seq(Languages) /\ Len(v) = n
  BY <1>2, <1>3
<1>5. ASSUME NEW l \in Languages, n < MaxParts
      PROVE  Append(v, l) \in Value
  <2>1. Append(v, l) \in Seq(Languages) /\ Len(Append(v, l)) = n + 1
    BY <1>4, AppendProperties
  <2>2. Append(v, l) \in [1 .. n + 1 -> Languages]
    BY <2>1, LenProperties
  <2> QED
    BY <1>1, <1>3, <1>5, <2>2
<1> QED
  BY <1>3, <1>4, <1>5

LEMMA CompleteTail ==
    ASSUME NEW s \in Scripts, s # <<>>, Complete(s)
    PROVE  Complete(Tail(s))
BY TailScript DEF Complete

LEMMA NotAsking ==
    ASSUME NEW s \in Scripts, s # <<>>, Sound(s), Head(s).do # "get"
    PROVE  Complete(s)
BY TailScript DEF Sound, Awaits

LEMMA Asking ==
    ASSUME NEW s \in Scripts, s # <<>>, Sound(s), Head(s).do = "get"
    PROVE  \E m \in Nat, p \in Nat : Awaits(s, m, p)
BY TailScript DEF Sound, Complete

LEMMA StoreIndexIs ==
    ASSUME NEW s \in Scripts, NEW m \in Nat, NEW p \in Nat, Awaits(s, m, p)
    PROVE  StoreIndex(s) = p
<1> DEFINE I == {i \in 1 .. Len(s) : s[i].do = "store"}
<1>1. p \in I /\ \A i \in I : p <= i
  BY DEF Awaits, Scripts
<1>2. Min(I) = p
  BY <1>1 DEF Min, Scripts
<1> QED
  BY <1>1, <1>2 DEF StoreIndex, SelectInSeq

-----------------------------------------------------------------------------
(* What a read that the cache does not have puts before its store: m       *)
(* requests, and then the reads it makes itself.                           *)
Begins(body, r, m) ==
    /\ m \in 0 .. MaxParts /\ m <= Len(body)
    /\ r \in Memoized => m <= 1
    /\ \A i \in 1 .. Len(body) :
        /\ body[i].do \in {"get", "look"}
        /\ body[i].do = "get" <=> i <= m
        /\ body[i].do = "get" => body[i].read = r

LEMMA GetsAre ==
    ASSUME NEW body \in Scripts, NEW r, NEW m, Begins(body, r, m)
    PROVE  Cardinality({i \in DOMAIN body : body[i].do = "get"}) = m
<1>1. DOMAIN body = 1 .. Len(body) /\ Len(body) \in Nat
  BY DEF Scripts
<1>2. m \in Nat /\ m <= Len(body)
  BY BoundsAssumption DEF Begins
<1>3. {i \in DOMAIN body : body[i].do = "get"} = 1 .. m
  BY <1>1, <1>2 DEF Begins
<1>4. Cardinality(1 .. m) = m
  BY <1>2, FS_Interval
<1> QED
  BY <1>3, <1>4

LEMMA ReadsAre ==
    /\ <<"recommendations">> \in Reads
    /\ \A t \in ToSet(Titles) : DatesRead(t) \in Reads
    /\ <<"episodes">> \notin Memoized /\ <<"recommendations">> \notin Memoized
BY DEF Reads, Localised, Unlocalised, Memoized

LEMMA StepsAre ==
    /\ \A r \in Reads : Look(r) \in Steps /\ Get(r) \in Steps
    /\ \A g \in ToSet(Groups) : Consider(g) \in Steps
    /\ Settle \in Steps
BY DEF Steps, Look, Get, Consider, Settle

LEMMA BodiesBegin ==
    ASSUME NEW r \in Reads, NEW body \in Bodies(r)
    PROVE  body \in Scripts /\ \E m : Begins(body, r, m)
<1>0. MaxParts \in Nat \ {0} /\ Get(r) \in Steps /\ Get(r).do = "get" /\ Get(r).read = r
  BY BoundsAssumption, StepsAre DEF Get
<1>1. CASE r = <<"episodes">>
  <2>1. PICK n \in 1 .. MaxParts : body = [i \in 1 .. n |-> Get(r)]
    BY <1>1 DEF Bodies
  <2>2. body \in Scripts /\ Len(body) = n
    BY <1>0, <2>1 DEF Scripts
  <2>3. Begins(body, r, n)
    BY <1>0, <1>1, <2>1, <2>2, ReadsAre DEF Begins
  <2> QED
    BY <2>2, <2>3
<1>2. CASE r = <<"recommendations">>
  <2>1. PICK n \in 0 .. Len(Titles) :
          body = <<Get(r)>> \o [i \in 1 .. n |-> Look(DatesRead(Titles[i]))]
    BY <1>2 DEF Bodies
  <2> DEFINE looks == [i \in 1 .. n |-> Look(DatesRead(Titles[i]))]
  <2>2. \A i \in 1 .. n : looks[i] \in Steps /\ looks[i].do = "look"
    BY TitlesAssumption, ReadsAre, StepsAre DEF Look, ToSet
  <2>3. looks \in Scripts /\ Len(looks) = n /\ n \in Nat
    BY <2>2, TitlesAssumption DEF Scripts
  <2>4. <<Get(r)>> \in Scripts /\ Len(<<Get(r)>>) = 1 /\ <<Get(r)>>[1] = Get(r)
    BY <1>0 DEF Scripts
  <2> HIDE DEF looks
  <2>5. body \in Scripts /\ Len(body) = 1 + n /\ body[1] = Get(r)
    BY <2>1, <2>3, <2>4, ConcatScript DEF looks
  <2>6. ASSUME NEW i \in 2 .. n + 1
        PROVE  body[i].do = "look"
    <3>1. body[i] = looks[i - 1]
      BY <2>1, <2>3, <2>4, <2>5, ConcatScript DEF looks
    <3> QED
      BY <2>2, <2>3, <3>1
  <2>7. Begins(body, r, 1)
    BY <1>0, <1>2, <2>3, <2>5, <2>6, ReadsAre DEF Begins
  <2> QED
    BY <2>5, <2>7
<1>3. CASE r # <<"episodes">> /\ r # <<"recommendations">>
  <2>1. body = <<Get(r)>>
    BY <1>3 DEF Bodies
  <2>2. body \in Scripts /\ Len(body) = 1 /\ body[1] = Get(r)
    BY <1>0, <2>1 DEF Scripts
  <2>3. Begins(body, r, 1)
    BY <1>0, <2>2 DEF Begins
  <2> QED
    BY <2>2, <2>3
<1> QED
  BY <1>1, <1>2, <1>3

LEMMA NoBody == <<>> \in Scripts /\ Len(<<>>) = 0 /\ \A r : Begins(<<>>, r, 0)
BY BoundsAssumption DEF Scripts, Begins

-----------------------------------------------------------------------------
(* What each step makes of a script.                                       *)

LEMMA EmptyValue == <<>> \in Value
<1>1. <<>> \in [1 .. 0 -> Languages] /\ 0 \in 0 .. MaxParts
  BY BoundsAssumption
<1> QED
  BY <1>1 DEF Value, BoundedSeq, SeqOf

LEMMA StoreOfType ==
    ASSUME NEW r \in Reads, NEW k \in Keys, NEW n \in 0 .. MaxParts
    PROVE  /\ StoreOf(r, k, n) \in Steps
           /\ StoreOf(r, k, n).do = "store" /\ StoreOf(r, k, n).read = r
           /\ StoreOf(r, k, n).key = k /\ StoreOf(r, k, n).parts = n
           /\ StoreOf(r, k, n).value = <<>> /\ StoreOf(r, k, n).raced = FALSE
BY EmptyValue DEF StoreOf, Steps

(* A step gives way to a body and a store.                                 *)
Unfolds(s, t, body, e) ==
    /\ Len(body) \in Nat /\ Len(s) \in Nat \ {0} /\ Len(t) = Len(body) + Len(s)
    /\ \A i \in 1 .. Len(body) : t[i] = body[i]
    /\ t[Len(body) + 1] = e
    /\ \A i \in Len(body) + 2 .. Len(t) : t[i] = s[i - Len(body)]

LEMMA Expanded ==
    ASSUME NEW s \in Scripts, s # <<>>, NEW body \in Scripts, NEW e \in Steps,
           NEW t, t = body \o <<e>> \o Tail(s)
    PROVE  t \in Scripts /\ Unfolds(s, t, body, e)
<1>1. <<e>> \in Scripts /\ Len(<<e>>) = 1 /\ <<e>>[1] = e
  BY DEF Scripts
<1>2. /\ body \o <<e>> \in Scripts /\ Len(body \o <<e>>) = Len(body) + 1 /\ Len(body) \in Nat
      /\ \A i \in 1 .. Len(body) : (body \o <<e>>)[i] = body[i]
      /\ (body \o <<e>>)[Len(body) + 1] = e
  BY <1>1, ConcatScript
<1>3. /\ Tail(s) \in Scripts /\ Len(Tail(s)) = Len(s) - 1 /\ Len(s) \in Nat \ {0}
      /\ \A i \in 1 .. Len(s) - 1 : Tail(s)[i] = s[i + 1]
  BY TailScript
<1>4. PICK front \in Scripts, rest \in Scripts : front = body \o <<e>> /\ rest = Tail(s)
  BY <1>2, <1>3
<1>5. /\ front \o rest \in Scripts /\ Len(front \o rest) = Len(front) + Len(rest)
      /\ \A i \in 1 .. Len(front) : (front \o rest)[i] = front[i]
      /\ \A i \in Len(front) + 1 .. Len(front \o rest) :
            (front \o rest)[i] = rest[i - Len(front)]
  BY ConcatScript
<1>6. t = front \o rest
  BY <1>4
<1>7. /\ t \in Scripts /\ Len(t) = Len(body) + Len(s)
      /\ \A i \in 1 .. Len(body) : t[i] = body[i]
      /\ t[Len(body) + 1] = e
  BY <1>2, <1>3, <1>4, <1>5, <1>6
<1>8. ASSUME NEW i \in Len(body) + 2 .. Len(t)
      PROVE  t[i] = s[i - Len(body)]
  <2>1. t[i] = rest[i - Len(body) - 1]
    BY <1>2, <1>3, <1>4, <1>5, <1>6, <1>7
  <2> QED
    BY <1>2, <1>3, <1>4, <1>7, <2>1
<1> QED
  BY <1>2, <1>3, <1>7, <1>8 DEF Unfolds

LEMMA MissIsSound ==
    ASSUME NEW s \in Scripts, Complete(s), NEW r \in Reads,
           NEW body \in Scripts, NEW m, Begins(body, r, m),
           NEW e \in Steps, e.do = "store", e.read = r, e.key[1] = r, e.parts = m, e.value = <<>>,
           NEW t \in Scripts, Len(t) = Len(body) + Len(s), Len(s) \in Nat \ {0},
           \A i \in 1 .. Len(body) : t[i] = body[i],
           t[Len(body) + 1] = e,
           \A i \in Len(body) + 2 .. Len(t) : t[i] = s[i - Len(body)]
    PROVE  Sound(t)
<1> DEFINE p == Len(body) + 1
<1>0. m \in 0 .. MaxParts /\ m \in Nat /\ m <= Len(body) /\ (r \in Memoized => m <= 1)
  BY BoundsAssumption DEF Begins
<1>1. Lacks(e, m)
  BY <1>0 DEF Lacks
<1>2. /\ Len(body) \in Nat /\ p \in 1 .. Len(t)
      /\ \A i \in p + 1 .. Len(t) : t[i] = s[i - Len(body)] /\ i - Len(body) \in 1 .. Len(s)
  BY DEF Scripts
<1>3. ASSUME NEW i \in p + 1 .. Len(t)
      PROVE  t[i].do # "get" /\ (t[i].do = "store" => Lacks(t[i], 0))
  BY <1>2 DEF Complete
<1>4. ASSUME NEW i \in 1 .. Len(body)
      PROVE  /\ t[i].do \in {"get", "look"}
             /\ t[i].do = "get" <=> i <= m
             /\ t[i].do = "get" => t[i].read = r
  BY DEF Begins
<1>5. CASE m = 0
  <2> SUFFICES ASSUME NEW i \in 1 .. Len(t)
               PROVE  t[i].do # "get" /\ (t[i].do = "store" => Lacks(t[i], 0))
    BY DEF Sound, Complete
  <2>1. CASE i \in 1 .. Len(body)
    BY <1>4, <1>5, <2>1
  <2>2. CASE i = p
    BY <1>1, <1>5, <2>2
  <2>3. CASE i \in p + 1 .. Len(t)
    BY <1>3, <2>3
  <2> QED
    BY <1>2, <2>1, <2>2, <2>3
<1>6. CASE m # 0
  <2>1. m \in Nat \ {0} /\ m < p
    BY <1>0, <1>2, <1>6
  <2>2. ASSUME NEW i \in 1 .. Len(t)
        PROVE  t[i].do = "get" <=> i <= m
    <3>1. CASE i \in 1 .. Len(body)
      BY <1>4, <3>1
    <3>2. CASE i = p
      BY <2>1, <3>2
    <3>3. CASE i \in p + 1 .. Len(t)
      BY <1>2, <1>3, <2>1, <3>3
    <3>4. i \in 1 .. Len(body) \/ i = p \/ i \in p + 1 .. Len(t)
      BY <1>2
    <3> QED
      BY <3>1, <3>2, <3>3, <3>4
  <2>3. \A i \in 1 .. p - 1 : t[i].do \in {"get", "look"}
    BY <1>2, <1>4
  <2>4. \A i \in 1 .. m : t[i].read = t[p].read
    BY <1>0, <1>2, <1>4
  <2>5. \A i \in p + 1 .. Len(t) : t[i].do = "store" => Lacks(t[i], 0)
    BY <1>3
  <2>6. Awaits(t, m, p)
    BY <1>1, <1>2, <2>1, <2>2, <2>3, <2>4, <2>5 DEF Awaits
  <2> QED
    BY <1>2, <2>1, <2>6 DEF Sound
<1> QED
  BY <1>5, <1>6, <1>0

(* An answer goes to the first store, and its request is done.             *)
Filled(step, l) == [step EXCEPT !.value = Append(@, l)]

LEMMA FilledType ==
    ASSUME NEW e \in Steps, e.do = "store", Len(e.value) < e.parts, NEW l \in Languages
    PROVE  /\ Filled(e, l) \in Steps
           /\ Filled(e, l).do = "store" /\ Filled(e, l).read = e.read
           /\ Filled(e, l).key = e.key /\ Filled(e, l).parts = e.parts
           /\ Filled(e, l).raced = e.raced /\ Filled(e, l).value = Append(e.value, l)
<1>1. e \in [do : {"store"}, read : Reads, key : Keys, parts : 0 .. MaxParts,
             value : Value, raced : BOOLEAN]
  BY StepTypes
<1>2. Append(e.value, l) \in Value
  BY <1>1, ValueType, BoundsAssumption
<1>3. Filled(e, l) \in [do : {"store"}, read : Reads, key : Keys, parts : 0 .. MaxParts,
                        value : Value, raced : BOOLEAN]
  BY <1>1, <1>2 DEF Filled
<1> QED
  BY <1>1, <1>3 DEF Filled, Steps

LEMMA TailReplaced ==
    ASSUME NEW s \in Scripts, NEW p \in 2 .. Len(s), NEW e \in Steps
    PROVE  /\ Tail([s EXCEPT ![p] = e]) \in Scripts
           /\ Len(s) \in Nat /\ Len(Tail([s EXCEPT ![p] = e])) = Len(s) - 1
           /\ Tail([s EXCEPT ![p] = e])[p - 1] = e
           /\ \A i \in 1 .. Len(s) - 1 :
                i + 1 # p => Tail([s EXCEPT ![p] = e])[i] = s[i + 1]
<1>0. Len(s) \in Nat
  BY DEF Scripts
<1>1. PICK u : u = [s EXCEPT ![p] = e]
  OBVIOUS
<1>2. p \in 1 .. Len(s)
  BY <1>0
<1>3. /\ u \in Scripts /\ Len(u) = Len(s)
      /\ \A j \in 1 .. Len(s) : u[j] = IF j = p THEN e ELSE s[j]
  BY <1>1, <1>2, ExceptSeq DEF Scripts
<1>4. u # <<>>
  BY <1>2, <1>3
<1>5. /\ Tail(u) \in Scripts /\ Len(Tail(u)) = Len(s) - 1
      /\ \A i \in 1 .. Len(s) - 1 : Tail(u)[i] = u[i + 1]
  BY <1>3, <1>4, TailScript
<1>6. Tail(u)[p - 1] = e
  BY <1>0, <1>2, <1>3, <1>5
<1>7. \A i \in 1 .. Len(s) - 1 : i + 1 # p => Tail(u)[i] = s[i + 1]
  BY <1>0, <1>3, <1>5
<1> QED
  BY <1>0, <1>1, <1>5, <1>6, <1>7

LEMMA Answered ==
    ASSUME NEW s \in Scripts, NEW m \in Nat, NEW p \in Nat, Awaits(s, m, p), NEW l \in Languages
    PROVE  /\ p \in 2 .. Len(s) /\ s[p] \in Steps /\ s[p].do = "store"
           /\ Len(s[p].value) < s[p].parts
           /\ Filled(s[p], l) \in Steps
<1>1. s[p] \in Steps /\ p \in 2 .. Len(s) /\ s[p].do = "store"
  BY DEF Awaits, Scripts
<1>2. Len(s[p].value) < s[p].parts
  <2>1. Len(s[p].value) \in Nat /\ Len(s[p].value) + m = s[p].parts /\ m > 0
    BY <1>1, StepTypes, ValueType DEF Awaits, Lacks
  <2> QED
    BY <2>1
<1>3. Filled(s[p], l) \in Steps
  BY <1>1, <1>2, FilledType
<1> QED
  BY <1>1, <1>2, <1>3

LEMMA ReceivedIsSound ==
    ASSUME NEW s \in Scripts, NEW m \in Nat, NEW p \in Nat, Awaits(s, m, p),
           NEW e \in Steps, NEW l \in Languages, e = Filled(s[p], l),
           NEW t \in Scripts, Len(s) \in Nat, Len(t) = Len(s) - 1, p \in 2 .. Len(s),
           t[p - 1] = e, \A i \in 1 .. Len(s) - 1 : i + 1 # p => t[i] = s[i + 1]
    PROVE  Sound(t)
<1>1. s[p] \in Steps /\ s[p].do = "store" /\ Len(s[p].value) < s[p].parts
  BY Answered
<1>2. /\ e.do = "store" /\ e.read = s[p].read /\ e.key = s[p].key /\ e.parts = s[p].parts
      /\ e.value = Append(s[p].value, l)
  BY <1>1, FilledType
<1>3. s[p].value \in Seq(Languages) /\ Len(s[p].value) \in Nat
  BY <1>1, StepTypes, ValueType
<1>4. Len(e.value) = Len(s[p].value) + 1
  BY <1>2, <1>3
<1>5. Len(s[p].value) + m = s[p].parts /\ m > 0
  BY DEF Awaits, Lacks
<1>6. Lacks(e, m - 1)
  BY <1>2, <1>3, <1>4, <1>5 DEF Lacks, Awaits
<1>7. ASSUME NEW i \in p .. Len(t)
      PROVE  t[i].do # "get" /\ (t[i].do = "store" => Lacks(t[i], 0))
  <2>1. t[i] = s[i + 1] /\ i + 1 \in p + 1 .. Len(s) /\ i + 1 > m
    BY DEF Awaits
  <2> QED
    BY <2>1 DEF Awaits
<1>8. ASSUME NEW i \in 1 .. p - 2
      PROVE  t[i].do \in {"get", "look"} /\ (t[i].do = "get" <=> i <= m - 1)
  <2>1. t[i] = s[i + 1] /\ i + 1 \in 1 .. p - 1
    OBVIOUS
  <2> QED
    BY <2>1 DEF Awaits
<1>9. CASE m = 1
  <2> SUFFICES ASSUME NEW i \in 1 .. Len(t)
               PROVE  t[i].do # "get" /\ (t[i].do = "store" => Lacks(t[i], 0))
    BY DEF Sound, Complete
  <2>1. CASE i \in 1 .. p - 2
    BY <1>8, <1>9, <2>1
  <2>2. CASE i = p - 1
    BY <1>2, <1>6, <1>9, <2>2
  <2>3. CASE i \in p .. Len(t)
    BY <1>7, <2>3
  <2> QED
    BY <2>1, <2>2, <2>3
<1>10. CASE m > 1
  <2>1. ASSUME NEW i \in 1 .. Len(t)
        PROVE  t[i].do = "get" <=> i <= m - 1
    <3>1. CASE i \in 1 .. p - 2
      BY <1>8, <3>1
    <3>2. CASE i = p - 1
      BY <1>2, <3>2 DEF Awaits
    <3>3. CASE i \in p .. Len(t)
      BY <1>7, <3>3 DEF Awaits
    <3>4. i \in 1 .. p - 2 \/ i = p - 1 \/ i \in p .. Len(t)
      OBVIOUS
    <3> QED
      BY <3>1, <3>2, <3>3, <3>4
  <2>2. ASSUME NEW i \in 1 .. m - 1
        PROVE  t[i].read = t[p - 1].read
    <3>1. t[i] = s[i + 1] /\ i + 1 \in 1 .. m
      BY DEF Awaits
    <3> QED
      BY <1>2, <3>1 DEF Awaits
  <2>3. m - 1 \in Nat \ {0} /\ p - 1 \in 1 .. Len(t) /\ m - 1 < p - 1
    BY <1>10 DEF Awaits
  <2>4. Awaits(t, m - 1, p - 1)
    BY <1>2, <1>6, <1>7, <1>8, <2>1, <2>2, <2>3 DEF Awaits
  <2> QED
    BY <2>3, <2>4 DEF Sound
<1> QED
  BY <1>5, <1>9, <1>10

(* A memoized read that is refused has nothing but its store left.         *)
LEMMA RefusedIsComplete ==
    ASSUME NEW s \in Scripts, NEW m \in Nat, NEW p \in Nat, Awaits(s, m, p),
           s[1].read \in Memoized, NEW t \in Scripts, Len(s) \in Nat, Len(t) = Len(s) - 1,
           \A i \in 1 .. Len(t) : t[i] = s[i + 1] /\ i + 1 \in 1 .. Len(s)
    PROVE  Complete(t)
<1>1. s[p] \in Steps /\ s[p].do = "store" /\ p \in 2 .. Len(s) /\ s[p].read = s[1].read
  BY DEF Awaits, Scripts
<1>2. s[p].value \in Seq(Languages) /\ Len(s[p].value) \in Nat /\ s[p].parts <= 1
  BY <1>1, StepTypes, ValueType DEF Awaits, Lacks
<1>3. Len(s[p].value) + m = s[p].parts /\ m > 0
  BY DEF Awaits, Lacks
<1>4. m = 1 /\ s[p].value = <<>>
  <2>1. s[p].parts \in 0 .. MaxParts
    BY <1>1, StepTypes
  <2> QED
    BY <1>2, <1>3, <2>1, BoundsAssumption
<1>5. Lacks(s[p], 0)
  BY <1>1, <1>4 DEF Awaits, Lacks
<1> SUFFICES ASSUME NEW i \in 1 .. Len(t)
             PROVE  t[i].do # "get" /\ (t[i].do = "store" => Lacks(t[i], 0))
  BY DEF Complete
<1>6. t[i] = s[i + 1] /\ i + 1 \in 2 .. Len(s)
  OBVIOUS
<1>7. s[i + 1].do # "get"
  BY <1>4, <1>6 DEF Awaits
<1>8. i + 1 \in 1 .. p - 1 \/ i + 1 = p \/ i + 1 \in p + 1 .. Len(s)
  BY <1>1, <1>6
<1> QED
  BY <1>5, <1>6, <1>7, <1>8 DEF Awaits

LEMMA RestIsComplete ==
    ASSUME NEW s \in Scripts, NEW m \in Nat, NEW p \in Nat, Awaits(s, m, p)
    PROVE  /\ SubSeq(s, StoreIndex(s) + 1, Len(s)) \in Scripts
           /\ Complete(SubSeq(s, StoreIndex(s) + 1, Len(s)))
<1>1. StoreIndex(s) = p /\ p \in 1 .. Len(s) /\ Len(s) \in Nat
  BY StoreIndexIs DEF Awaits, Scripts
<1>2. PICK t : t = SubSeq(s, p + 1, Len(s))
  OBVIOUS
<1>3. /\ t \in Scripts /\ Len(t) = Len(s) - p
      /\ \A i \in 1 .. Len(t) : t[i] = s[p + i] /\ p + i \in p + 1 .. Len(s)
  BY <1>1, <1>2, RestScript
<1>4. ASSUME NEW i \in 1 .. Len(t)
      PROVE  t[i].do # "get" /\ (t[i].do = "store" => Lacks(t[i], 0))
  <2>1. t[i] = s[p + i] /\ p + i \in p + 1 .. Len(s)
    BY <1>3
  <2> QED
    BY <1>1, <2>1 DEF Awaits
<1> QED
  BY <1>1, <1>2, <1>3, <1>4 DEF Complete

(* The language changes while a script is under way.                       *)
Overtaken(s) ==
    [i \in DOMAIN s |-> IF s[i].do = "store" THEN [s[i] EXCEPT !.raced = TRUE] ELSE s[i]]

LEMMA OvertakenSteps ==
    ASSUME NEW s \in Scripts
    PROVE  /\ Overtaken(s) \in Scripts /\ Len(Overtaken(s)) = Len(s)
           /\ \A i \in 1 .. Len(s) :
                /\ Overtaken(s)[i].do = s[i].do
                /\ s[i].do # "store" => Overtaken(s)[i] = s[i]
                /\ s[i].do = "store" =>
                     /\ Overtaken(s)[i].read = s[i].read /\ Overtaken(s)[i].key = s[i].key
                     /\ Overtaken(s)[i].parts = s[i].parts /\ Overtaken(s)[i].value = s[i].value
                     /\ Overtaken(s)[i].raced = TRUE
<1> DEFINE e(i) == IF s[i].do = "store" THEN [s[i] EXCEPT !.raced = TRUE] ELSE s[i]
<1>1. DOMAIN s = 1 .. Len(s) /\ Len(s) \in Nat
  BY DEF Scripts
<1>2. ASSUME NEW i \in 1 .. Len(s)
      PROVE  /\ e(i) \in Steps /\ e(i).do = s[i].do
             /\ s[i].do # "store" => e(i) = s[i]
             /\ s[i].do = "store" =>
                  /\ e(i).read = s[i].read /\ e(i).key = s[i].key
                  /\ e(i).parts = s[i].parts /\ e(i).value = s[i].value /\ e(i).raced = TRUE
  <2>1. s[i] \in Steps
    BY <1>1 DEF Scripts
  <2>2. CASE s[i].do = "store"
    <3>1. s[i] \in [do : {"store"}, read : Reads, key : Keys, parts : 0 .. MaxParts,
                    value : Value, raced : BOOLEAN]
      BY <2>1, <2>2, StepTypes
    <3>2. [s[i] EXCEPT !.raced = TRUE] \in
            [do : {"store"}, read : Reads, key : Keys, parts : 0 .. MaxParts,
             value : Value, raced : BOOLEAN]
      BY <3>1
    <3> QED
      BY <2>2, <3>1, <3>2 DEF Steps
  <2>3. CASE s[i].do # "store"
    BY <2>1, <2>3
  <2> QED
    BY <2>2, <2>3
<1>3. Overtaken(s) = [i \in 1 .. Len(s) |-> e(i)]
  BY <1>1 DEF Overtaken
<1> HIDE DEF e
<1>4. \A i \in 1 .. Len(s) : Overtaken(s)[i] = e(i) /\ Overtaken(s)[i] \in Steps
  BY <1>2, <1>3
<1>5. Overtaken(s) = [i \in 1 .. Len(s) |-> Overtaken(s)[i]]
  BY <1>3, <1>4
<1>6. PICK t : t = Overtaken(s)
  OBVIOUS
<1>7. t \in Scripts /\ Len(t) = Len(s)
  BY <1>1, <1>4, <1>5, <1>6 DEF Scripts
<1> QED
  BY <1>2, <1>4, <1>6, <1>7

LEMMA OvertakenIsSound ==
    ASSUME NEW s \in Scripts, Sound(s)
    PROVE  Sound(Overtaken(s))
<1>1. PICK t \in Scripts : t = Overtaken(s)
  BY OvertakenSteps
<1>2. /\ Len(t) = Len(s) /\ Len(s) \in Nat
      /\ \A i \in 1 .. Len(s) :
            /\ t[i].do = s[i].do
            /\ s[i].do # "store" => t[i] = s[i]
            /\ s[i].do = "store" => /\ t[i].read = s[i].read /\ t[i].key = s[i].key
                                   /\ t[i].parts = s[i].parts /\ t[i].value = s[i].value
  <2>1. Len(s) \in Nat
    BY DEF Scripts
  <2> QED
    BY <1>1, <2>1, OvertakenSteps
<1>3. ASSUME NEW i \in 1 .. Len(s), NEW n, s[i].do = "store", Lacks(s[i], n)
      PROVE  Lacks(t[i], n)
  BY <1>2, <1>3 DEF Lacks
<1>4. CASE Complete(s)
  BY <1>1, <1>2, <1>3, <1>4 DEF Complete, Sound
<1>5. ASSUME NEW m \in Nat, NEW p \in Nat, Awaits(s, m, p)
      PROVE  Sound(t)
  <2>1. p \in 1 .. Len(s) /\ s[p].do = "store"
    BY <1>5 DEF Awaits
  <2>2. /\ m \in Nat \ {0} /\ p \in 1 .. Len(t) /\ m < p /\ t[p].do = "store"
        /\ \A i \in 1 .. Len(t) : t[i].do = "get" <=> i <= m
        /\ \A i \in 1 .. p - 1 : t[i].do \in {"get", "look"}
    BY <1>2, <1>5 DEF Awaits
  <2>3. ASSUME NEW i \in 1 .. m
        PROVE  t[i].read = t[p].read
    <3>1. i \in 1 .. Len(s) /\ s[i].do = "get"
      BY <1>2, <1>5 DEF Awaits
    <3> QED
      BY <1>2, <1>5, <2>1, <3>1 DEF Awaits
  <2>4. Lacks(t[p], m)
    BY <1>3, <1>5, <2>1 DEF Awaits
  <2>5. ASSUME NEW i \in p + 1 .. Len(t), t[i].do = "store"
        PROVE  Lacks(t[i], 0)
    <3>1. i \in 1 .. Len(s) /\ s[i].do = "store"
      BY <1>2, <2>1, <2>5
    <3> QED
      BY <1>2, <1>3, <1>5, <3>1, <2>5 DEF Awaits
  <2>6. Awaits(t, m, p)
    BY <2>2, <2>3, <2>4, <2>5 DEF Awaits
  <2> QED
    BY <2>6 DEF Sound
<1> QED
  BY <1>1, <1>4, <1>5 DEF Sound

-----------------------------------------------------------------------------
(* The calls of the API.                                                   *)

LEMMA CandidatesAre ==
    /\ Candidates \in Scripts /\ Len(Candidates) = 2 * Len(Groups) /\ Len(Groups) \in Nat
    /\ \A j \in 1 .. Len(Groups) :
        /\ Groups[j] \in ToSet(Groups)
        /\ Candidates[2 * j - 1] = Look(GroupRead(Groups[j]))
        /\ Candidates[2 * j] = Consider(Groups[j])
    /\ \A i \in 1 .. 2 * Len(Groups) :
        \E j \in 1 .. Len(Groups) : i = 2 * j - 1 \/ i = 2 * j
<1>1. Len(Groups) \in Nat /\ \A j \in 1 .. Len(Groups) : Groups[j] \in ToSet(Groups)
  BY GroupsAssumption DEF ToSet
<1>2. ASSUME NEW i \in 1 .. 2 * Len(Groups)
      PROVE  \E j \in 1 .. Len(Groups) : i = 2 * j - 1 \/ i = 2 * j
  <2>1. CASE i % 2 = 1
    <3>1. (i + 1) \div 2 \in 1 .. Len(Groups) /\ i = 2 * ((i + 1) \div 2) - 1
      BY <1>1, <2>1
    <3> QED
      BY <3>1
  <2>2. CASE i % 2 = 0
    <3>1. i \div 2 \in 1 .. Len(Groups) /\ i = 2 * (i \div 2)
      BY <1>1, <2>2
    <3> QED
      BY <3>1
  <2> QED
    BY <1>1, <2>1, <2>2
<1>3. ASSUME NEW j \in 1 .. Len(Groups)
      PROVE  /\ Candidates[2 * j - 1] = Look(GroupRead(Groups[j]))
             /\ Candidates[2 * j] = Consider(Groups[j])
  <2>1. /\ 2 * j - 1 \in 1 .. 2 * Len(Groups) /\ 2 * j \in 1 .. 2 * Len(Groups)
        /\ (2 * j - 1) % 2 = 1 /\ (2 * j) % 2 = 0
        /\ ((2 * j - 1) + 1) \div 2 = j /\ (2 * j) \div 2 = j
    BY <1>1
  <2> QED
    BY <2>1 DEF Candidates
<1>4. ASSUME NEW j \in 1 .. Len(Groups)
      PROVE  Look(GroupRead(Groups[j])) \in Steps /\ Consider(Groups[j]) \in Steps
  BY <1>1, StepsAre DEF Reads, Localised
<1>5. \A i \in 1 .. 2 * Len(Groups) : Candidates[i] \in Steps
  BY <1>2, <1>3, <1>4
<1>6. Candidates = [i \in 1 .. 2 * Len(Groups) |-> Candidates[i]]
  BY DEF Candidates
<1>7. Candidates \in Scripts /\ Len(Candidates) = 2 * Len(Groups)
  BY <1>1, <1>5, <1>6 DEF Scripts
<1> QED
  BY <1>1, <1>2, <1>3, <1>7

(* No request and no store, before the call has looked anything up.        *)
Fresh(s) ==
    /\ s \in Scripts
    /\ \A i \in 1 .. Len(s) : s[i].do \in {"look", "consider", "settle"}

LEMMA FreshConcat ==
    ASSUME NEW s, NEW t, Fresh(s), Fresh(t)
    PROVE  Fresh(s \o t)
<1>1. PICK u : u = s \o t
  OBVIOUS
<1>2. /\ u \in Scripts /\ Len(u) = Len(s) + Len(t) /\ Len(s) \in Nat /\ Len(t) \in Nat
      /\ \A i \in 1 .. Len(s) : u[i] = s[i]
      /\ \A i \in Len(s) + 1 .. Len(u) : u[i] = t[i - Len(s)]
  BY <1>1, ConcatScript DEF Fresh
<1>3. ASSUME NEW i \in 1 .. Len(u)
      PROVE  u[i].do \in {"look", "consider", "settle"}
  <2>1. CASE i \in 1 .. Len(s)
    BY <1>2, <2>1 DEF Fresh
  <2>2. CASE i \in Len(s) + 1 .. Len(u)
    <3>1. i - Len(s) \in 1 .. Len(t) /\ u[i] = t[i - Len(s)]
      BY <1>2, <2>2
    <3> QED
      BY <3>1 DEF Fresh
  <2> QED
    BY <1>2, <2>1, <2>2
<1> QED
  BY <1>1, <1>2, <1>3 DEF Fresh

LEMMA FreshOnes ==
    /\ \A r \in Reads : Fresh(<<Look(r)>>)
    /\ \A r \in Reads, q \in Reads : Fresh(<<Look(r), Look(q)>>)
    /\ \A r \in Reads, q \in Reads, u \in Reads : Fresh(<<Look(r), Look(q), Look(u)>>)
    /\ Fresh(<<Settle>>)
<1>1. \A r \in Reads : Look(r) \in Steps /\ Look(r).do = "look"
  BY StepsAre DEF Look
<1>2. Settle \in Steps /\ Settle.do = "settle"
  BY StepsAre DEF Settle
<1>3. ASSUME NEW r \in Reads
      PROVE  Fresh(<<Look(r)>>)
  BY <1>1 DEF Fresh, Scripts
<1>4. ASSUME NEW r \in Reads, NEW q \in Reads
      PROVE  Fresh(<<Look(r), Look(q)>>)
  BY <1>1 DEF Fresh, Scripts
<1>5. ASSUME NEW r \in Reads, NEW q \in Reads, NEW u \in Reads
      PROVE  Fresh(<<Look(r), Look(q), Look(u)>>)
  BY <1>1 DEF Fresh, Scripts
<1>6. Fresh(<<Settle>>)
  BY <1>2 DEF Fresh, Scripts
<1> QED
  BY <1>3, <1>4, <1>5, <1>6

LEMMA CallsAreFresh ==
    ASSUME NEW s \in Calls
    PROVE  Fresh(s)
<1>1. /\ <<"episodes">> \in Reads /\ <<"groups">> \in Reads
      /\ \A r \in Memoized \cup {<<"discover">>, <<"episodes">>, <<"recommendations">>} :
            r \in Reads
      /\ \A g \in ToSet(Groups) : GroupRead(g) \in Reads
  BY DEF Reads, Localised, Unlocalised
<1>2. Fresh(Candidates)
  <2>1. ASSUME NEW i \in 1 .. 2 * Len(Groups)
        PROVE  Candidates[i].do \in {"look", "consider", "settle"}
    <3>1. PICK j \in 1 .. Len(Groups) : i = 2 * j - 1 \/ i = 2 * j
      BY CandidatesAre
    <3>2. /\ Candidates[2 * j - 1] = Look(GroupRead(Groups[j]))
          /\ Candidates[2 * j] = Consider(Groups[j])
      BY CandidatesAre
    <3> QED
      BY <3>1, <3>2 DEF Look, Consider
  <2> QED
    BY <2>1, CandidatesAre DEF Fresh
<1>3. PICK head, body, end : /\ head = <<Look(<<"episodes">>), Look(<<"groups">>)>>
                             /\ body = Candidates /\ end = <<Settle>>
  OBVIOUS
<1>4. Fresh(head) /\ Fresh(body) /\ Fresh(end)
  BY <1>1, <1>2, <1>3, FreshOnes
<1>5. Fresh(head \o body \o end)
  BY <1>4, FreshConcat
<1>6. Fresh(AutoNumbering)
  BY <1>3, <1>5 DEF AutoNumbering
<1>7. Fresh(<<Look(<<"groups">>)>> \o AutoNumbering)
  BY <1>1, <1>6, FreshOnes, FreshConcat
<1>8. \A g \in ToSet(Groups) : Fresh(NamedNumbering(g))
  BY <1>1, FreshOnes DEF NamedNumbering
<1>9. \A r \in Memoized \cup {<<"discover">>, <<"episodes">>, <<"recommendations">>} :
        Fresh(<<Look(r)>>)
  BY <1>1, FreshOnes
<1>10. Fresh(<<Look(<<"episodes">>), Look(<<"groups">>)>>)
  BY <1>1, FreshOnes
<1> QED
  BY <1>6, <1>7, <1>8, <1>9, <1>10 DEF Calls

LEMMA FreshIsSound ==
    ASSUME NEW s, Fresh(s)
    PROVE  s \in Scripts /\ Sound(s)
BY DEF Fresh, Sound, Complete

-----------------------------------------------------------------------------
(* The cache.                                                              *)

Whole(k, e) ==
    \/ Len(e.value) = e.parts
    \/ k[1] \in Memoized /\ e.value = <<>>

WholeCache(map) ==
    /\ map \in [Keys -> Entry \cup {Nothing}]
    /\ IsFiniteSet(Held(map)) /\ Cardinality(Held(map)) <= Capacity
    /\ \A k \in Held(map) : Whole(k, map[k])

LEMMA EmptyCache == WholeCache([k \in Keys |-> Nothing])
<1>1. Held([k \in Keys |-> Nothing]) = {}
  BY DEF Held
<1> QED
  BY <1>1, FS_EmptySet, BoundsAssumption DEF WholeCache

LEMMA Forgets ==
    ASSUME NEW map, WholeCache(map), NEW less \in [Keys -> Entry \cup {Nothing}],
           \A k \in Keys : less[k] = map[k] \/ less[k] = Nothing
    PROVE  WholeCache(less)
<1>1. Held(less) \subseteq Held(map) /\ \A k \in Held(less) : less[k] = map[k]
  BY DEF Held
<1>2. /\ IsFiniteSet(Held(less)) /\ Cardinality(Held(less)) \in Nat
      /\ Cardinality(Held(map)) \in Nat /\ Cardinality(Held(less)) <= Cardinality(Held(map))
  BY <1>1, FS_Subset, FS_CardinalityType DEF WholeCache
<1> QED
  BY <1>1, <1>2, BoundsAssumption DEF WholeCache

LEMMA Puts ==
    ASSUME NEW map, WholeCache(map), NEW k \in Keys, NEW e \in Entry, Whole(k, e),
           NEW put, put = [map EXCEPT ![k] = e]
    PROVE  /\ put \in [Keys -> Entry \cup {Nothing}]
           /\ IsFiniteSet(Held(put)) /\ Cardinality(Held(put)) \in Nat
           /\ Cardinality(Held(put)) <= Capacity + 1
           /\ \A j \in Held(put) : Whole(j, put[j])
<1>1. put \in [Keys -> Entry \cup {Nothing}]
  BY DEF WholeCache
<1>2. Held(put) \subseteq Held(map) \cup {k}
  BY DEF Held, WholeCache
<1>3. /\ IsFiniteSet(Held(map) \cup {k}) /\ Cardinality(Held(map)) \in Nat
      /\ Cardinality(Held(map) \cup {k}) <= Cardinality(Held(map)) + 1
      /\ Cardinality(Held(map) \cup {k}) \in Nat
  <2>1. IsFiniteSet(Held(map)) /\ Cardinality(Held(map)) \in Nat
    BY FS_CardinalityType DEF WholeCache
  <2>2. /\ IsFiniteSet(Held(map) \cup {k})
        /\ \/ Cardinality(Held(map) \cup {k}) = Cardinality(Held(map))
           \/ Cardinality(Held(map) \cup {k}) = Cardinality(Held(map)) + 1
    BY <2>1, FS_AddElement
  <2> QED
    BY <2>1, <2>2
<1>4. /\ IsFiniteSet(Held(put)) /\ Cardinality(Held(put)) \in Nat
      /\ Cardinality(Held(put)) <= Cardinality(Held(map) \cup {k})
  BY <1>2, <1>3, FS_Subset, FS_CardinalityType
<1>5. ASSUME NEW j \in Held(put)
      PROVE  Whole(j, put[j])
  <2>1. CASE j = k
    BY <2>1 DEF WholeCache
  <2>2. CASE j # k
    <3>1. j \in Held(map) /\ put[j] = map[j]
      BY <1>2, <2>2 DEF WholeCache, Held
    <3> QED
      BY <3>1 DEF WholeCache
  <2> QED
    BY <2>1, <2>2
<1>6. Cardinality(Held(put)) <= Capacity + 1
  <2>1. Cardinality(Held(map)) <= Capacity /\ Capacity \in Nat
    BY BoundsAssumption DEF WholeCache
  <2> QED
    BY <1>3, <1>4, <2>1
<1> QED
  BY <1>1, <1>4, <1>5, <1>6

LEMMA Culls ==
    ASSUME NEW put \in [Keys -> Entry \cup {Nothing}], IsFiniteSet(Held(put)),
           Cardinality(Held(put)) \in Nat, Cardinality(Held(put)) <= Capacity + 1,
           \A j \in Held(put) : Whole(j, put[j]), NEW k \in Held(put)
    PROVE  WholeCache([put EXCEPT ![k] = Nothing])
<1> DEFINE less == [put EXCEPT ![k] = Nothing]
<1>1. less \in [Keys -> Entry \cup {Nothing}] /\ \A j \in Keys \ {k} : less[j] = put[j]
  OBVIOUS
<1>2. Held(less) = Held(put) \ {k}
  BY DEF Held
<1>3. IsFiniteSet(Held(less)) /\ Cardinality(Held(less)) = Cardinality(Held(put)) - 1
  BY <1>2, FS_RemoveElement
<1>4. Cardinality(Held(less)) <= Capacity
  BY <1>3, BoundsAssumption
<1>5. \A j \in Held(less) : Whole(j, less[j])
  BY <1>1, <1>2 DEF Held
<1> QED
  BY <1>1, <1>3, <1>4, <1>5 DEF WholeCache

-----------------------------------------------------------------------------
(* The inductive invariant: the cache is whole and within its capacity,    *)
(* every script asks for the parts that its stores still lack.             *)

ScriptsOK == todo \in [Callers -> Scripts] /\ \A c \in Callers : Sound(todo[c])

RestOK ==
    /\ language \in Languages
    /\ configured \in BOOLEAN
    /\ answer \in [Callers -> [read : Reads \cup {Nothing}, value : Value,
                               hit : BOOLEAN, raced : BOOLEAN]]
    /\ failed \in [Callers -> SUBSET ToSet(Groups)]
    /\ chosen \in [Callers -> ToSet(Groups) \cup {"canonical", Nothing}]
    /\ spoke \in [Callers -> SUBSET Languages]

CacheIsSound == WholeCache(cache) /\ ScriptsOK /\ RestOK

LEMMA SoundImplies == CacheIsSound => TypeOK /\ EntryIsWhole
BY DEF CacheIsSound, WholeCache, Whole, ScriptsOK, RestOK, Scripts, TypeOK, EntryIsWhole

LEMMA NoScript == <<>> \in Scripts /\ Sound(<<>>)
BY DEF Scripts, Sound, Complete

LEMMA ScriptsKept ==
    ASSUME ScriptsOK, NEW c \in Callers, NEW t \in Scripts, Sound(t), Then(c, t)
    PROVE  ScriptsOK'
BY DEF ScriptsOK, Then

LEMMA FinishType ==
    ASSUME RestOK, NEW c \in Callers, NEW r \in Reads, NEW v \in Value,
           NEW hit \in BOOLEAN, NEW raced \in BOOLEAN, Finish(c, r, v, hit, raced)
    PROVE  answer' \in [Callers -> [read : Reads \cup {Nothing}, value : Value,
                                    hit : BOOLEAN, raced : BOOLEAN]]
BY DEF RestOK, Finish

LEMMA NoAnswerType ==
    NoAnswer \in [read : Reads \cup {Nothing}, value : Value, hit : BOOLEAN, raced : BOOLEAN]
BY EmptyValue DEF NoAnswer

LEMMA EntryType ==
    ASSUME NEW e \in Entry
    PROVE  e.value \in Value /\ e.parts \in 0 .. MaxParts /\ e.raced \in BOOLEAN
BY DEF Entry

LEMMA KeyType ==
    ASSUME NEW r \in Reads, NEW l \in Languages
    PROVE  KeyOf(r, l) \in Keys /\ KeyOf(r, l)[1] = r
BY DEF KeyOf, Keys, Reads

(* The head of a script says what its thread does.                         *)
LEMMA Doing ==
    ASSUME ScriptsOK, NEW c \in Callers, NEW what, Does(c, what)
    PROVE  /\ todo[c] \in Scripts /\ todo[c] # <<>> /\ Sound(todo[c])
           /\ Head(todo[c]) = todo[c][1] /\ todo[c][1] \in Steps /\ todo[c][1].do = what
           /\ Len(todo[c]) \in Nat \ {0}
<1>1. todo[c] \in Scripts /\ todo[c] # <<>> /\ Sound(todo[c]) /\ Head(todo[c]).do = what
  BY DEF ScriptsOK, Does
<1>2. Head(todo[c]) = todo[c][1] /\ Len(todo[c]) \in Nat \ {0}
  BY <1>1, TailScript
<1>3. todo[c][1] \in Steps
  BY <1>1, <1>2 DEF Scripts
<1> QED
  BY <1>1, <1>2, <1>3

LEMMA NextScripts ==
    ASSUME ScriptsOK, NEW c \in Callers, NEW what, Does(c, what), what # "get",
           Then(c, Tail(todo[c]))
    PROVE  ScriptsOK'
<1>1. todo[c] \in Scripts /\ todo[c] # <<>> /\ Sound(todo[c]) /\ Head(todo[c]).do # "get"
  BY Doing
<1>2. Complete(todo[c])
  BY <1>1, NotAsking
<1>3. Tail(todo[c]) \in Scripts /\ Complete(Tail(todo[c]))
  BY <1>1, <1>2, CompleteTail, TailScript
<1> QED
  BY <1>3, ScriptsKept DEF Sound

Empty(e, r, k, n) ==
    /\ e.do = "store" /\ e.read = r /\ e.key = k /\ e.parts = n
    /\ e.value = <<>> /\ e.raced = FALSE

LEMMA MissMakes ==
    ASSUME NEW s \in Scripts, s # <<>>, NEW body \in Scripts,
           NEW r \in Reads, NEW k \in Keys, NEW n \in 0 .. MaxParts
    PROVE  \E e \in Steps, t \in Scripts :
              /\ t = body \o <<StoreOf(r, k, n)>> \o Tail(s)
              /\ Empty(e, r, k, n) /\ Unfolds(s, t, body, e)
<1>1. PICK e \in Steps : e = StoreOf(r, k, n)
  BY StoreOfType
<1>2. Empty(e, r, k, n)
  BY <1>1 DEF StoreOf, Empty
<1>3. PICK t : t = body \o <<e>> \o Tail(s)
  OBVIOUS
<1>4. t \in Scripts /\ Unfolds(s, t, body, e)
  BY <1>3, Expanded
<1> QED
  BY <1>1, <1>2, <1>3, <1>4

LEMMA MissIs ==
    ASSUME ScriptsOK, RestOK, NEW c \in Callers, Miss(c)
    PROVE  LET r == todo[c][1].read
               k == KeyOf(r, language)
           IN  /\ r \in Reads /\ k \in Keys /\ k[1] = r
               /\ \E body \in Scripts, m \in 0 .. MaxParts, e \in Steps, t \in Scripts :
                    /\ Begins(body, r, m)
                    /\ Empty(e, r, k, m) /\ Unfolds(todo[c], t, body, e)
                    /\ Then(c, t)
<1> DEFINE r == todo[c][1].read
           k == KeyOf(r, language)
<1>1. /\ todo[c] \in Scripts /\ todo[c] # <<>> /\ todo[c][1] \in Steps
      /\ todo[c][1].do = "look" /\ Head(todo[c]) = todo[c][1]
  BY Doing DEF Miss
<1>2. r \in Reads
  BY <1>1, StepTypes
<1>3. k \in Keys /\ k[1] = r
  BY <1>2, KeyType DEF RestOK
<1>4. PICK body \in IF r \in Memoized /\ ~configured THEN {<<>>} ELSE Bodies(r) :
        Then(c, body
                \o <<StoreOf(r, k, Cardinality({i \in DOMAIN body : body[i].do = "get"}))>>
                \o Tail(todo[c]))
  BY <1>1 DEF Miss
<1>5. body \in Scripts /\ \E m : Begins(body, r, m)
  <2>1. body \in Bodies(r) \/ body = <<>>
    BY <1>4
  <2> QED
    BY <2>1, <1>2, BodiesBegin, NoBody
<1>6. PICK m : Begins(body, r, m)
  BY <1>5
<1>7. m \in 0 .. MaxParts
  BY <1>6 DEF Begins
<1>8. Cardinality({i \in DOMAIN body : body[i].do = "get"}) = m
  BY <1>5, <1>6, GetsAre
<1> HIDE DEF r, k
<1>9. PICK e \in Steps, t \in Scripts :
        /\ t = body \o <<StoreOf(r, k, m)>> \o Tail(todo[c])
        /\ Empty(e, r, k, m) /\ Unfolds(todo[c], t, body, e)
  BY <1>1, <1>2, <1>3, <1>5, <1>7, MissMakes
<1>10. Then(c, t)
  BY <1>4, <1>8, <1>9
<1>11. \E bo \in Scripts, n \in 0 .. MaxParts, ee \in Steps, tt \in Scripts :
         /\ Begins(bo, r, n) /\ Empty(ee, r, k, n) /\ Unfolds(todo[c], tt, bo, ee)
         /\ Then(c, tt)
  BY <1>5, <1>6, <1>7, <1>9, <1>10
<1> QED
  BY <1>2, <1>3, <1>11 DEF r, k

LEMMA UnfoldedIsSound ==
    ASSUME NEW s \in Scripts, Complete(s), NEW r \in Reads, NEW k, k[1] = r,
           NEW body \in Scripts, NEW m, Begins(body, r, m),
           NEW e \in Steps, Empty(e, r, k, m), NEW t \in Scripts, Unfolds(s, t, body, e)
    PROVE  Sound(t)
BY MissIsSound DEF Empty, Unfolds

LEMMA MissScripts ==
    ASSUME ScriptsOK, RestOK, NEW c \in Callers, Miss(c)
    PROVE  ScriptsOK'
<1>1. PICK r, k : /\ r \in Reads /\ k \in Keys /\ k[1] = r
                  /\ \E body \in Scripts, m \in 0 .. MaxParts, e \in Steps, t \in Scripts :
                        /\ Begins(body, r, m)
                        /\ Empty(e, r, k, m) /\ Unfolds(todo[c], t, body, e)
                        /\ Then(c, t)
  BY MissIs
<1>2. PICK body \in Scripts, m \in 0 .. MaxParts, e \in Steps, t \in Scripts :
        /\ Begins(body, r, m) /\ Empty(e, r, k, m) /\ Unfolds(todo[c], t, body, e)
        /\ Then(c, t)
  BY <1>1
<1>3. todo[c] \in Scripts /\ Complete(todo[c])
  BY Doing, NotAsking DEF Miss
<1>4. Sound(t)
  BY <1>1, <1>2, <1>3, UnfoldedIsSound
<1> QED
  BY <1>2, <1>4, ScriptsKept

(* What an answer makes of a script: the first store has one part more.    *)
LEMMA ReceivedIs ==
    ASSUME ScriptsOK, RestOK, NEW c \in Callers, Received(c)
    PROVE  \E m \in Nat, p \in Nat, t \in Scripts :
              /\ Awaits(todo[c], m, p) /\ p \in 2 .. Len(todo[c])
              /\ todo[c][p] \in Steps /\ todo[c][p].do = "store"
              /\ Len(todo[c][p].value) < todo[c][p].parts
              /\ Filled(todo[c][p], language) \in Steps
              /\ Len(t) = Len(todo[c]) - 1
              /\ t[p - 1] = Filled(todo[c][p], language)
              /\ \A i \in 1 .. Len(todo[c]) - 1 : i + 1 # p => t[i] = todo[c][i + 1]
              /\ Then(c, t)
<1>1. /\ todo[c] \in Scripts /\ todo[c] # <<>> /\ Sound(todo[c]) /\ Head(todo[c]).do = "get"
      /\ language \in Languages
  BY Doing DEF Received, RestOK
<1>2. PICK m \in Nat, p \in Nat : Awaits(todo[c], m, p)
  BY <1>1, Asking
<1>3. /\ p \in 2 .. Len(todo[c]) /\ todo[c][p] \in Steps /\ todo[c][p].do = "store"
      /\ Len(todo[c][p].value) < todo[c][p].parts
      /\ Filled(todo[c][p], language) \in Steps
  BY <1>1, <1>2, Answered
<1>4. PICK e \in Steps : e = Filled(todo[c][p], language)
  BY <1>3
<1>5. PICK t : t = Tail([todo[c] EXCEPT ![p] = e])
  OBVIOUS
<1>6. /\ t \in Scripts /\ Len(t) = Len(todo[c]) - 1 /\ t[p - 1] = e
      /\ \A i \in 1 .. Len(todo[c]) - 1 : i + 1 # p => t[i] = todo[c][i + 1]
  BY <1>1, <1>3, <1>5, TailReplaced
<1>7. Then(c, t)
  <2>1. StoreIndex(todo[c]) = p
    BY <1>1, <1>2, StoreIndexIs
  <2>2. Then(c, Tail([todo[c] EXCEPT ![p].value = Append(@, language)]))
    BY <2>1 DEF Received
  <2> QED
    BY <1>4, <1>5, <2>2 DEF Filled
<1> QED
  BY <1>2, <1>3, <1>4, <1>6, <1>7

LEMMA ReceivedScripts ==
    ASSUME ScriptsOK, RestOK, NEW c \in Callers, Received(c)
    PROVE  ScriptsOK'
<1>1. PICK m \in Nat, p \in Nat, t \in Scripts :
        /\ Awaits(todo[c], m, p) /\ p \in 2 .. Len(todo[c])
        /\ Filled(todo[c][p], language) \in Steps
        /\ Len(t) = Len(todo[c]) - 1
        /\ t[p - 1] = Filled(todo[c][p], language)
        /\ \A i \in 1 .. Len(todo[c]) - 1 : i + 1 # p => t[i] = todo[c][i + 1]
        /\ Then(c, t)
  BY ReceivedIs
<1>2. todo[c] \in Scripts /\ Len(todo[c]) \in Nat /\ language \in Languages
  BY DEF ScriptsOK, Scripts, RestOK
<1>3. PICK s \in Scripts : s = todo[c]
  BY <1>2
<1>4. PICK e \in Steps : e = Filled(s[p], language)
  BY <1>1, <1>3
<1>5. Sound(t)
  BY <1>1, <1>2, <1>3, <1>4, ReceivedIsSound
<1> QED
  BY <1>1, <1>5, ScriptsKept

LEMMA RefusedScripts ==
    ASSUME ScriptsOK, RestOK, NEW c \in Callers, Refused(c)
    PROVE  ScriptsOK'
<1>1. /\ todo[c] \in Scripts /\ todo[c] # <<>> /\ Sound(todo[c]) /\ Head(todo[c]).do = "get"
      /\ Head(todo[c]) = todo[c][1] /\ todo[c][1].read \in Memoized
  BY Doing DEF Refused
<1>2. PICK m \in Nat, p \in Nat : Awaits(todo[c], m, p)
  BY <1>1, Asking
<1>3. PICK t \in Scripts : t = Tail(todo[c])
  BY <1>1, TailScript
<1>4. /\ Len(todo[c]) \in Nat /\ Len(t) = Len(todo[c]) - 1
      /\ \A i \in 1 .. Len(t) : t[i] = todo[c][i + 1] /\ i + 1 \in 1 .. Len(todo[c])
  BY <1>1, <1>3, TailScript
<1>5. Sound(t)
  BY <1>1, <1>2, <1>4, RefusedIsComplete DEF Sound
<1>6. Then(c, t)
  BY <1>3 DEF Refused
<1> QED
  BY <1>5, <1>6, ScriptsKept

(* What is left of a script when TMDB is not available: what follows the   *)
(* store, if that is to consider a group, or nothing.                      *)
LEMMA UnavailableIs ==
    ASSUME ScriptsOK, NEW c \in Callers, Unavailable(c)
    PROVE  \E m \in Nat, p \in Nat, rest \in Scripts :
              /\ Awaits(todo[c], m, p) /\ p \in 2 .. Len(todo[c]) /\ Complete(rest)
              /\ Len(rest) = Len(todo[c]) - p
              /\ \A i \in 1 .. Len(todo[c]) - p :
                    rest[i] = todo[c][p + i] /\ p + i \in 1 .. Len(todo[c])
              /\ \/ /\ rest # <<>> /\ Head(rest) = rest[1] /\ rest[1].do = "consider"
                    /\ rest[1].group \in ToSet(Groups)
                    /\ Then(c, Tail(rest))
                    /\ failed' = [failed EXCEPT ![c] = @ \cup {rest[1].group}]
                    /\ UNCHANGED answer
                 \/ Raise(c)
<1>1. /\ todo[c] \in Scripts /\ todo[c] # <<>> /\ Sound(todo[c]) /\ Head(todo[c]).do = "get"
      /\ Len(todo[c]) \in Nat
  BY Doing DEF Unavailable
<1>2. PICK m \in Nat, p \in Nat : Awaits(todo[c], m, p)
  BY <1>1, Asking
<1>3. StoreIndex(todo[c]) = p /\ p \in 1 .. Len(todo[c]) /\ p \in 2 .. Len(todo[c])
  BY <1>1, <1>2, StoreIndexIs DEF Awaits
<1>4. PICK rest \in Scripts : rest = SubSeq(todo[c], p + 1, Len(todo[c])) /\ Complete(rest)
  BY <1>1, <1>2, <1>3, RestIsComplete
<1>5. /\ Len(rest) = Len(todo[c]) - p
      /\ \A i \in 1 .. Len(todo[c]) - p :
            rest[i] = todo[c][p + i] /\ p + i \in 1 .. Len(todo[c])
  BY <1>1, <1>3, <1>4, RestScript
<1>6. \/ /\ rest # <<>> /\ Head(rest).do = "consider"
         /\ Then(c, Tail(rest))
         /\ failed' = [failed EXCEPT ![c] = @ \cup {Head(rest).group}]
         /\ UNCHANGED answer
      \/ Raise(c)
  BY <1>3, <1>4 DEF Unavailable
<1>7. rest # <<>> => Head(rest) = rest[1] /\ rest[1] \in Steps
  <2>1. rest # <<>> => Head(rest) = rest[1] /\ Len(rest) \in Nat \ {0}
    BY TailScript
  <2> QED
    BY <2>1 DEF Scripts
<1>8. rest # <<>> /\ rest[1].do = "consider" => rest[1].group \in ToSet(Groups)
  BY <1>7, StepTypes
<1> QED
  BY <1>2, <1>3, <1>4, <1>5, <1>6, <1>7, <1>8

LEMMA UnavailableScripts ==
    ASSUME ScriptsOK, RestOK, NEW c \in Callers, Unavailable(c)
    PROVE  ScriptsOK'
<1>1. PICK rest \in Scripts :
        /\ Complete(rest)
        /\ (rest # <<>> /\ Then(c, Tail(rest))) \/ Raise(c)
  BY UnavailableIs
<1>2. CASE rest # <<>> /\ Then(c, Tail(rest))
  <2>1. Tail(rest) \in Scripts /\ Sound(Tail(rest))
    BY <1>1, <1>2, TailScript, CompleteTail DEF Sound
  <2> QED
    BY <1>2, <2>1, ScriptsKept
<1>3. CASE Raise(c)
  BY <1>3, NoScript, ScriptsKept DEF Raise
<1> QED
  BY <1>1, <1>2, <1>3

LEMMA SetLanguageScripts ==
    ASSUME ScriptsOK, NEW l \in Languages, SetLanguage(l)
    PROVE  /\ ScriptsOK'
           /\ \A c \in Callers : todo'[c] = Overtaken(todo[c])
<1>1. todo' = [c \in Callers |-> Overtaken(todo[c])]
  BY DEF SetLanguage, Overtaken
<1>2. \A c \in Callers : Overtaken(todo[c]) \in Scripts /\ Sound(Overtaken(todo[c]))
  BY OvertakenSteps, OvertakenIsSound DEF ScriptsOK
<1> QED
  BY <1>1, <1>2 DEF ScriptsOK

-----------------------------------------------------------------------------
(* The value a store has ready is a value, and it is whole.                *)
LEMMA StoreIs ==
    ASSUME ScriptsOK, NEW c \in Callers, Store(c)
    PROVE  LET s == todo[c][1]
           IN  /\ s.key \in Keys /\ s.key[1] = s.read /\ s.read \in Reads
               /\ [value |-> s.value, parts |-> s.parts, raced |-> s.raced] \in Entry
               /\ Whole(s.key, [value |-> s.value, parts |-> s.parts, raced |-> s.raced])
               /\ s.value \in Value /\ s.raced \in BOOLEAN
<1> DEFINE s == todo[c][1]
<1>1. /\ todo[c] \in Scripts /\ todo[c] # <<>> /\ Sound(todo[c]) /\ Head(todo[c]).do = "store"
      /\ s \in Steps /\ s.do = "store" /\ Len(todo[c]) \in Nat \ {0}
  BY Doing DEF Store
<1>2. Complete(todo[c])
  BY <1>1, NotAsking
<1>3. Lacks(s, 0)
  BY <1>1, <1>2 DEF Complete
<1>4. s \in [do : {"store"}, read : Reads, key : Keys, parts : 0 .. MaxParts,
             value : Value, raced : BOOLEAN]
  BY <1>1, StepTypes
<1>5. Len(s.value) \in Nat
  BY <1>4, ValueType, BoundsAssumption
<1> QED
  BY <1>3, <1>4, <1>5 DEF Lacks, Whole, Entry

LEMMA StoreCache ==
    ASSUME ScriptsOK, WholeCache(cache), NEW c \in Callers, Store(c)
    PROVE  WholeCache(cache')
<1> DEFINE k == todo[c][1].key
           e == [value |-> todo[c][1].value, parts |-> todo[c][1].parts,
                 raced |-> todo[c][1].raced]
<1>1. k \in Keys /\ e \in Entry /\ Whole(k, e)
  BY StoreIs
<1>2. PICK put : put = [cache EXCEPT ![k] = e]
  OBVIOUS
<1>3. \/ Cardinality(Held(put)) <= Capacity /\ cache' = put
      \/ \E j \in Held(put) : cache' = [put EXCEPT ![j] = Nothing]
  <2>1. Head(todo[c]) = todo[c][1]
    BY Doing DEF Store
  <2> QED
    BY <1>2, <2>1 DEF Store
<1> HIDE DEF k, e
<1>4. /\ put \in [Keys -> Entry \cup {Nothing}]
      /\ IsFiniteSet(Held(put)) /\ Cardinality(Held(put)) \in Nat
      /\ Cardinality(Held(put)) <= Capacity + 1
      /\ \A j \in Held(put) : Whole(j, put[j])
  BY <1>1, <1>2, Puts
<1>5. CASE Cardinality(Held(put)) <= Capacity /\ cache' = put
  BY <1>4, <1>5 DEF WholeCache
<1>6. CASE \E j \in Held(put) : cache' = [put EXCEPT ![j] = Nothing]
  BY <1>4, <1>6, Culls
<1> QED
  BY <1>3, <1>5, <1>6

LEMMA CacheIsSoundInitially == Init => CacheIsSound
<1> SUFFICES ASSUME Init PROVE CacheIsSound
  OBVIOUS
<1>1. WholeCache(cache)
  BY EmptyCache DEF Init
<1>2. ScriptsOK
  BY NoScript DEF Init, ScriptsOK
<1>3. RestOK
  BY NoAnswerType DEF Init, RestOK
<1> QED
  BY <1>1, <1>2, <1>3 DEF CacheIsSound

LEMMA CacheStaysSound == CacheIsSound /\ [Next]_vars => CacheIsSound'
<1> SUFFICES ASSUME CacheIsSound, [Next]_vars PROVE CacheIsSound'
  OBVIOUS
<1>0. WholeCache(cache) /\ ScriptsOK /\ RestOK
  BY DEF CacheIsSound
<1>1. ASSUME NEW c \in Callers, NEW steps \in Calls, Begin(c, steps)
      PROVE  CacheIsSound'
  <2>1. WholeCache(cache')
    BY <1>0, <1>1 DEF Begin
  <2>2. ScriptsOK'
    BY <1>0, <1>1, CallsAreFresh, FreshIsSound, ScriptsKept DEF Begin
  <2>3. RestOK'
    BY <1>0, <1>1, NoAnswerType DEF Begin, RestOK
  <2> QED
    BY <2>1, <2>2, <2>3 DEF CacheIsSound
<1>2. ASSUME NEW c \in Callers, Hit(c)
      PROVE  CacheIsSound'
  <2>1. WholeCache(cache')
    BY <1>0, <1>2 DEF Hit
  <2>2. ScriptsOK'
    BY <1>0, <1>2, NextScripts DEF Hit
  <2>3. RestOK'
    <3> DEFINE r == Head(todo[c]).read
               e == cache[KeyOf(r, language)]
    <3>1. r \in Reads
      BY <1>0, <1>2, Doing, StepTypes DEF Hit
    <3>2. e \in Entry
      BY <1>0, <1>2, <3>1, KeyType DEF Hit, WholeCache, RestOK
    <3>3. e.value \in Value /\ e.raced \in BOOLEAN
      BY <3>2, EntryType
    <3>4. Finish(c, r, e.value, TRUE, e.raced)
      BY <1>2 DEF Hit
    <3> HIDE DEF r, e
    <3>5. answer' \in [Callers -> [read : Reads \cup {Nothing}, value : Value,
                                   hit : BOOLEAN, raced : BOOLEAN]]
      BY <1>0, <3>1, <3>3, <3>4, FinishType
    <3> QED
      BY <1>0, <1>2, <3>5 DEF Hit, RestOK
  <2> QED
    BY <2>1, <2>2, <2>3 DEF CacheIsSound
<1>3. ASSUME NEW c \in Callers, Miss(c)
      PROVE  CacheIsSound'
  <2>1. WholeCache(cache')
    BY <1>0, <1>3 DEF Miss
  <2>2. ScriptsOK'
    BY <1>0, <1>3, MissScripts
  <2>3. RestOK'
    BY <1>0, <1>3 DEF Miss, RestOK
  <2> QED
    BY <2>1, <2>2, <2>3 DEF CacheIsSound
<1>4. ASSUME NEW c \in Callers, Received(c)
      PROVE  CacheIsSound'
  <2>1. WholeCache(cache')
    BY <1>0, <1>4 DEF Received
  <2>2. ScriptsOK'
    BY <1>0, <1>4, ReceivedScripts
  <2>3. RestOK'
    BY <1>0, <1>4 DEF Received, RestOK
  <2> QED
    BY <2>1, <2>2, <2>3 DEF CacheIsSound
<1>5. ASSUME NEW c \in Callers, Refused(c)
      PROVE  CacheIsSound'
  <2>1. WholeCache(cache')
    BY <1>0, <1>5 DEF Refused
  <2>2. ScriptsOK'
    BY <1>0, <1>5, RefusedScripts
  <2>3. RestOK'
    BY <1>0, <1>5 DEF Refused, RestOK
  <2> QED
    BY <2>1, <2>2, <2>3 DEF CacheIsSound
<1>6. ASSUME NEW c \in Callers, Unavailable(c)
      PROVE  CacheIsSound'
  <2>1. WholeCache(cache')
    BY <1>0, <1>6 DEF Unavailable
  <2>2. ScriptsOK'
    BY <1>0, <1>6, UnavailableScripts
  <2>3. \/ \E g \in ToSet(Groups) :
             UNCHANGED answer /\ failed' = [failed EXCEPT ![c] = @ \cup {g}]
        \/ UNCHANGED failed /\ answer' = [answer EXCEPT ![c] = NoAnswer]
    BY <1>0, <1>6, UnavailableIs DEF Raise
  <2>4. RestOK'
    BY <1>0, <1>6, <2>3, NoAnswerType DEF Unavailable, RestOK
  <2> QED
    BY <2>1, <2>2, <2>4 DEF CacheIsSound
<1>7. ASSUME NEW c \in Callers, Store(c)
      PROVE  CacheIsSound'
  <2>1. WholeCache(cache')
    BY <1>0, <1>7, StoreCache
  <2>2. ScriptsOK'
    BY <1>0, <1>7, NextScripts DEF Store
  <2>3. RestOK'
    <3>1. /\ todo[c][1].read \in Reads /\ todo[c][1].value \in Value
          /\ todo[c][1].raced \in BOOLEAN /\ Head(todo[c]) = todo[c][1]
      BY <1>0, <1>7, StoreIs, Doing DEF Store
    <3>2. Finish(c, todo[c][1].read, todo[c][1].value, FALSE, todo[c][1].raced)
      BY <1>7, <3>1 DEF Store
    <3>3. answer' \in [Callers -> [read : Reads \cup {Nothing}, value : Value,
                                   hit : BOOLEAN, raced : BOOLEAN]]
      BY <1>0, <3>1, <3>2, FinishType
    <3> QED
      BY <1>0, <1>7, <3>3 DEF Store, RestOK
  <2> QED
    BY <2>1, <2>2, <2>3 DEF CacheIsSound
<1>8. ASSUME NEW c \in Callers, Take(c)
      PROVE  CacheIsSound'
  <2>1. WholeCache(cache')
    BY <1>0, <1>8 DEF Take
  <2>2. Then(c, <<>>) \/ Then(c, Tail(todo[c]))
    BY <1>8 DEF Take
  <2>3. ScriptsOK'
    BY <1>0, <1>8, <2>2, NoScript, ScriptsKept, NextScripts DEF Take
  <2>4. Head(todo[c]).group \in ToSet(Groups)
    BY <1>0, <1>8, Doing, StepTypes DEF Take
  <2>5. RestOK'
    BY <1>0, <1>8, <2>4 DEF Take, RestOK
  <2> QED
    BY <2>1, <2>3, <2>5 DEF CacheIsSound
<1>9. ASSUME NEW c \in Callers, Identity(c)
      PROVE  CacheIsSound'
  <2>1. WholeCache(cache')
    BY <1>0, <1>9 DEF Identity
  <2>2. ScriptsOK'
    BY <1>0, <1>9, NoScript, ScriptsKept DEF Identity
  <2>3. RestOK'
    BY <1>0, <1>9 DEF Identity, RestOK
  <2> QED
    BY <2>1, <2>2, <2>3 DEF CacheIsSound
<1>10. ASSUME NEW k \in Keys, Evict(k)
       PROVE  CacheIsSound'
  <2>1. WholeCache(cache')
    <3>1. /\ cache' \in [Keys -> Entry \cup {Nothing}]
          /\ \A j \in Keys : cache'[j] = cache[j] \/ cache'[j] = Nothing
      BY <1>0, <1>10 DEF Evict, WholeCache
    <3> QED
      BY <1>0, <3>1, Forgets
  <2>2. ScriptsOK' /\ RestOK'
    BY <1>0, <1>10 DEF Evict, ScriptsOK, RestOK
  <2> QED
    BY <2>1, <2>2 DEF CacheIsSound
<1>11. CASE ClearCache
  <2>1. WholeCache(cache')
    BY <1>11, EmptyCache DEF ClearCache
  <2>2. ScriptsOK' /\ RestOK'
    BY <1>0, <1>11 DEF ClearCache, ScriptsOK, RestOK
  <2> QED
    BY <2>1, <2>2 DEF CacheIsSound
<1>12. ASSUME NEW l \in Languages, SetLanguage(l)
       PROVE  CacheIsSound'
  <2>1. WholeCache(cache')
    BY <1>0, <1>12 DEF SetLanguage
  <2>2. ScriptsOK'
    BY <1>0, <1>12, SetLanguageScripts
  <2>3. RestOK'
    BY <1>0, <1>12 DEF SetLanguage, RestOK
  <2> QED
    BY <2>1, <2>2, <2>3 DEF CacheIsSound
<1>13. CASE Restart
  <2>1. WholeCache(cache')
    BY <1>0, <1>13 DEF Restart
  <2>2. ScriptsOK'
    BY <1>13, NoScript DEF Restart, ScriptsOK
  <2>3. RestOK'
    BY <1>0, <1>13, NoAnswerType DEF Restart, RestOK
  <2> QED
    BY <2>1, <2>2, <2>3 DEF CacheIsSound
<1>14. CASE UNCHANGED vars
  BY <1>0, <1>14 DEF vars, CacheIsSound, ScriptsOK, RestOK
<1> QED
  BY <1>1, <1>2, <1>3, <1>4, <1>5, <1>6, <1>7, <1>8, <1>9, <1>10, <1>11, <1>12, <1>13, <1>14
  DEF Next, CallStep

LEMMA CacheIsAlwaysSound == Spec => []CacheIsSound
BY CacheIsSoundInitially, CacheStaysSound, PTL DEF Spec

(* Whatever is asked, answered, refused, culled and restarted, the client  *)
(* keeps the types of its state, and the cache its capacity.               *)
THEOREM TypeCorrect == Spec => []TypeOK
<1>1. CacheIsSound => TypeOK
  BY SoundImplies
<1> QED
  BY <1>1, CacheIsAlwaysSound, PTL

(* Never silently an empty result (tmdb.py:53-54): an entry of a read that *)
(* is not memoized has every part that the read asked TMDB for, whatever   *)
(* failed in between.                                                      *)
THEOREM EntriesAreWhole == Spec => []EntryIsWhole
<1>1. CacheIsSound => EntryIsWhole
  BY SoundImplies
<1> QED
  BY <1>1, CacheIsAlwaysSound, PTL

-----------------------------------------------------------------------------
(* The automatic numbering.                                                *)

Ends(step) == step.do \in {"consider", "settle"}

Plain(s) == \A i \in 1 .. Len(s) : ~Ends(s[i])

(* The groups after the first n are still to be considered, each after it  *)
(* is read; the canonical numbering is the last step.                      *)
Remaining(s, n) ==
    /\ n \in 0 .. Len(Groups) /\ Len(s) \in Nat \ {0}
    /\ \A j \in n + 1 .. Len(Groups) :
        /\ Len(s) - 1 - 2 * Len(Groups) + 2 * j \in 1 .. Len(s) - 1
        /\ s[Len(s) - 1 - 2 * Len(Groups) + 2 * j] = Consider(Groups[j])
    /\ s[Len(s)].do = "settle"
    /\ \A i \in 1 .. Len(s) - 1 :
        Ends(s[i]) => \E j \in n + 1 .. Len(Groups) : i = Len(s) - 1 - 2 * Len(Groups) + 2 * j

(* None of the first n groups can be chosen, and no other has failed.      *)
Passed(f, n) ==
    /\ \A j \in 1 .. n : Groups[j] \notin Qualifying \ f
    /\ f \subseteq {Groups[j] : j \in 1 .. n}

Goes(s, choice, f) ==
    \/ Plain(s)
    \/ choice = Nothing /\ \E n \in 0 .. Len(Groups) : Remaining(s, n) /\ Passed(f, n)

(* t is s with other steps before, between and after which the choice      *)
(* goes on as it did in s.                                                 *)
Shifted(s, t, d) ==
    /\ Len(s) \in Nat /\ Len(t) \in Nat /\ d \in Int /\ Len(t) = Len(s) + d
    /\ \A i \in 1 .. Len(s) : Ends(s[i]) => i + d \in 1 .. Len(t) /\ t[i + d] = s[i]
    /\ \A i \in 1 .. Len(t) : Ends(t[i]) => i - d \in 1 .. Len(s) /\ Ends(s[i - d])

LEMMA RemainingShifted ==
    ASSUME NEW s, NEW t, NEW d, Shifted(s, t, d), NEW n, Remaining(s, n)
    PROVE  Remaining(t, n)
<1> DEFINE o == Len(s) - 1 - 2 * Len(Groups)
           q == Len(t) - 1 - 2 * Len(Groups)
<1>1. /\ Len(Groups) \in Nat /\ n \in Nat /\ Len(s) \in Nat \ {0} /\ Len(t) \in Nat
      /\ d \in Int /\ o \in Int /\ q \in Int /\ q = o + d /\ Len(t) = Len(s) + d
  BY CandidatesAre DEF Remaining, Shifted
<1>2. Len(t) \in 1 .. Len(t) /\ t[Len(t)].do = "settle"
  BY <1>1 DEF Remaining, Shifted, Ends
<1>3. ASSUME NEW j \in n + 1 .. Len(Groups)
      PROVE  q + 2 * j \in 1 .. Len(t) - 1 /\ t[q + 2 * j] = Consider(Groups[j])
  <2>1. o + 2 * j \in 1 .. Len(s) - 1 /\ s[o + 2 * j] = Consider(Groups[j])
    BY DEF Remaining
  <2>2. Ends(s[o + 2 * j])
    BY <2>1 DEF Consider, Ends
  <2>3. (o + 2 * j) + d \in 1 .. Len(t) /\ t[(o + 2 * j) + d] = s[o + 2 * j]
    BY <1>1, <2>1, <2>2 DEF Shifted
  <2>4. (o + 2 * j) + d = q + 2 * j /\ q + 2 * j <= Len(t) - 1
    BY <1>1, <2>1
  <2> QED
    BY <1>1, <2>1, <2>3, <2>4
<1>4. ASSUME NEW i \in 1 .. Len(t) - 1, Ends(t[i])
      PROVE  \E j \in n + 1 .. Len(Groups) : i = q + 2 * j
  <2>1. i - d \in 1 .. Len(s) - 1 /\ Ends(s[i - d])
    BY <1>1, <1>4 DEF Shifted
  <2>2. PICK j \in n + 1 .. Len(Groups) : i - d = o + 2 * j
    BY <2>1 DEF Remaining
  <2>3. i = q + 2 * j
    BY <1>1, <2>2
  <2> QED
    BY <2>3
<1> QED
  BY <1>1, <1>2, <1>3, <1>4 DEF Remaining

LEMMA GoesShifted ==
    ASSUME NEW s, NEW t, NEW d, Shifted(s, t, d), NEW ch, NEW f, Goes(s, ch, f)
    PROVE  Goes(t, ch, f)
<1>1. CASE Plain(s)
  BY <1>1 DEF Plain, Shifted, Goes
<1>2. CASE ch = Nothing /\ \E n \in 0 .. Len(Groups) : Remaining(s, n) /\ Passed(f, n)
  BY <1>2, RemainingShifted DEF Goes
<1> QED
  BY <1>1, <1>2 DEF Goes

(* The group that is considered is the next one.                           *)
LEMMA ConsidersNext ==
    ASSUME NEW s \in Scripts, NEW n, Remaining(s, n), s[1].do = "consider"
    PROVE  /\ n + 1 \in 1 .. Len(Groups) /\ n + 1 \in 0 .. Len(Groups)
           /\ s[1] = Consider(Groups[n + 1])
           /\ Remaining(Tail(s), n + 1)
<1> DEFINE o == Len(s) - 1 - 2 * Len(Groups)
<1>1. Len(Groups) \in Nat /\ n \in Nat /\ Len(s) \in Nat \ {0} /\ o \in Int
  BY CandidatesAre DEF Remaining
<1>2. 1 \in 1 .. Len(s) - 1
  BY <1>1 DEF Remaining
<1>3. PICK j \in n + 1 .. Len(Groups) : 1 = o + 2 * j
  BY <1>2 DEF Remaining, Ends
<1>4. n + 1 \in n + 1 .. Len(Groups)
  BY <1>1, <1>3
<1>5. o + 2 * (n + 1) \in 1 .. Len(s) - 1 /\ s[o + 2 * (n + 1)] = Consider(Groups[n + 1])
  BY <1>4 DEF Remaining
<1>6. j = n + 1
  BY <1>1, <1>3, <1>5
<1>7. s[1] = Consider(Groups[n + 1])
  BY <1>3, <1>5, <1>6
<1>8. PICK t : t = Tail(s)
  OBVIOUS
<1>9. /\ Len(t) = Len(s) - 1
      /\ \A i \in 1 .. Len(s) - 1 : t[i] = s[i + 1]
  BY <1>1, <1>8, TailScript
<1> DEFINE q == Len(t) - 1 - 2 * Len(Groups)
<1>10. q = o - 1 /\ q \in Int /\ Len(t) \in Nat \ {0}
  BY <1>1, <1>2, <1>9
<1>11. ASSUME NEW k \in (n + 1) + 1 .. Len(Groups)
       PROVE  q + 2 * k \in 1 .. Len(t) - 1 /\ t[q + 2 * k] = Consider(Groups[k])
  <2>1. o + 2 * k \in 1 .. Len(s) - 1 /\ s[o + 2 * k] = Consider(Groups[k])
    BY <1>1 DEF Remaining
  <2>2. q + 2 * k \in 1 .. Len(t) - 1 /\ (q + 2 * k) + 1 = o + 2 * k
    BY <1>1, <1>3, <1>6, <1>9, <1>10, <2>1
  <2> QED
    BY <1>1, <1>9, <2>1, <2>2
<1>12. t[Len(t)].do = "settle"
  <2>1. Len(t) \in 1 .. Len(s) - 1 /\ Len(t) + 1 = Len(s)
    BY <1>1, <1>9, <1>10
  <2>2. t[Len(t)] = s[Len(s)]
    BY <1>9, <2>1
  <2> QED
    BY <2>2 DEF Remaining
<1>13. ASSUME NEW i \in 1 .. Len(t) - 1, Ends(t[i])
       PROVE  \E k \in (n + 1) + 1 .. Len(Groups) : i = q + 2 * k
  <2>1. i + 1 \in 1 .. Len(s) - 1 /\ Ends(s[i + 1])
    BY <1>1, <1>9, <1>13
  <2>2. PICK k \in n + 1 .. Len(Groups) : i + 1 = o + 2 * k
    BY <2>1 DEF Remaining
  <2>3. i = q + 2 * k /\ k # n + 1
    BY <1>1, <1>3, <1>6, <1>10, <2>2
  <2> QED
    BY <1>1, <2>2, <2>3
<1>14. Remaining(t, n + 1)
  BY <1>1, <1>4, <1>10, <1>11, <1>12, <1>13 DEF Remaining
<1> QED
  BY <1>1, <1>4, <1>7, <1>8, <1>14

(* When the canonical numbering is taken, every group was considered.      *)
LEMMA SettlesLast ==
    ASSUME NEW s, NEW n, Remaining(s, n), s[1].do = "settle"
    PROVE  n = Len(Groups)
<1>1. Len(Groups) \in Nat /\ n \in 0 .. Len(Groups) /\ Len(s) \in Nat \ {0}
  BY CandidatesAre DEF Remaining
<1>2. Len(s) = 1
  <2>0. SUFFICES ASSUME Len(s) # 1 PROVE FALSE
    OBVIOUS
  <2>1. 1 \in 1 .. Len(s) - 1 /\ Ends(s[1])
    <3>1. Ends(s[1])
      BY DEF Ends
    <3> QED
      BY <1>1, <2>0, <3>1
  <2>2. PICK j \in n + 1 .. Len(Groups) : 1 = Len(s) - 1 - 2 * Len(Groups) + 2 * j
    BY <2>1 DEF Remaining
  <2>3. s[1] = Consider(Groups[j])
    BY <2>2 DEF Remaining
  <2> QED
    BY <2>3 DEF Consider
<1>3. \A j \in n + 1 .. Len(Groups) : FALSE
  BY <1>1, <1>2 DEF Remaining
<1> QED
  BY <1>1, <1>3

-----------------------------------------------------------------------------
(* What the steps of a thread do to the choice that is ahead of it.        *)

LEMMA NextIsShifted ==
    ASSUME NEW s \in Scripts, s # <<>>, ~Ends(s[1])
    PROVE  Shifted(s, Tail(s), -1)
<1>1. PICK t \in Scripts : t = Tail(s)
  BY TailScript
<1>2. /\ Len(s) \in Nat \ {0} /\ Len(t) = Len(s) - 1
      /\ \A i \in 1 .. Len(s) - 1 : t[i] = s[i + 1]
  BY <1>1, TailScript
<1>3. ASSUME NEW i \in 1 .. Len(s), Ends(s[i])
      PROVE  i + (-1) \in 1 .. Len(t) /\ t[i + (-1)] = s[i]
  <2>1. i # 1
    BY <1>3
  <2>2. i - 1 \in 1 .. Len(s) - 1 /\ (i - 1) + 1 = i /\ i + (-1) = i - 1
    BY <1>2, <2>1
  <2>3. t[i - 1] = s[i]
    BY <1>2, <2>2
  <2> QED
    BY <1>2, <2>2, <2>3
<1>4. ASSUME NEW i \in 1 .. Len(t), Ends(t[i])
      PROVE  i - (-1) \in 1 .. Len(s) /\ Ends(s[i - (-1)])
  <2>1. i - (-1) = i + 1 /\ i \in 1 .. Len(s) - 1
    BY <1>2
  <2> QED
    BY <1>2, <1>4, <2>1
<1>5. Shifted(s, t, -1)
  BY <1>2, <1>3, <1>4 DEF Shifted
<1> QED
  BY <1>1, <1>5

LEMMA UnfoldedIsShifted ==
    ASSUME NEW s \in Scripts, ~Ends(s[1]), NEW t \in Scripts, NEW body \in Scripts,
           NEW r, NEW m, Begins(body, r, m), NEW k, NEW e, Empty(e, r, k, m),
           Unfolds(s, t, body, e)
    PROVE  Shifted(s, t, Len(body))
<1>1. /\ Len(body) \in Nat /\ Len(s) \in Nat \ {0} /\ Len(t) = Len(body) + Len(s)
      /\ \A i \in 1 .. Len(body) : t[i] = body[i]
      /\ t[Len(body) + 1] = e
      /\ \A i \in Len(body) + 2 .. Len(t) : t[i] = s[i - Len(body)]
  BY DEF Unfolds
<1>2. ~Ends(e) /\ \A i \in 1 .. Len(body) : ~Ends(body[i])
  BY DEF Empty, Begins, Ends
<1>3. ASSUME NEW i \in 1 .. Len(s), Ends(s[i])
      PROVE  i + Len(body) \in 1 .. Len(t) /\ t[i + Len(body)] = s[i]
  <2>1. i # 1
    BY <1>3
  <2>2. i + Len(body) \in Len(body) + 2 .. Len(t) /\ (i + Len(body)) - Len(body) = i
    BY <1>1, <2>1
  <2>3. t[i + Len(body)] = s[i]
    BY <1>1, <2>2
  <2> QED
    BY <1>1, <2>2, <2>3
<1>4. ASSUME NEW i \in 1 .. Len(t), Ends(t[i])
      PROVE  i - Len(body) \in 1 .. Len(s) /\ Ends(s[i - Len(body)])
  <2>1. ~(i \in 1 .. Len(body)) /\ i # Len(body) + 1
    BY <1>1, <1>2, <1>4
  <2>2. i \in Len(body) + 2 .. Len(t)
    BY <1>1, <2>1
  <2>3. i - Len(body) \in 1 .. Len(s) /\ t[i] = s[i - Len(body)]
    BY <1>1, <2>2
  <2> QED
    BY <1>4, <2>3
<1> QED
  BY <1>1, <1>3, <1>4 DEF Shifted

LEMMA FilledIsShifted ==
    ASSUME NEW s \in Scripts, ~Ends(s[1]), NEW p \in 2 .. Len(s), ~Ends(s[p]),
           NEW t \in Scripts, Len(t) = Len(s) - 1, ~Ends(t[p - 1]),
           \A i \in 1 .. Len(s) - 1 : i + 1 # p => t[i] = s[i + 1]
    PROVE  Shifted(s, t, -1)
<1>1. Len(s) \in Nat /\ Len(t) \in Nat
  BY DEF Scripts
<1>2. ASSUME NEW i \in 1 .. Len(s), Ends(s[i])
      PROVE  i + (-1) \in 1 .. Len(t) /\ t[i + (-1)] = s[i]
  <2>1. i # 1 /\ i # p
    BY <1>2
  <2>2. /\ i - 1 \in 1 .. Len(s) - 1 /\ (i - 1) + 1 = i /\ i + (-1) = i - 1
        /\ (i - 1) + 1 # p
    BY <1>1, <2>1
  <2>3. t[i - 1] = s[i]
    BY <2>2
  <2> QED
    BY <2>2, <2>3
<1>3. ASSUME NEW i \in 1 .. Len(t), Ends(t[i])
      PROVE  i - (-1) \in 1 .. Len(s) /\ Ends(s[i - (-1)])
  <2>1. i # p - 1
    BY <1>3
  <2>2. i - (-1) = i + 1 /\ i \in 1 .. Len(s) - 1 /\ i + 1 # p
    BY <1>1, <2>1
  <2>3. t[i] = s[i + 1]
    BY <2>2
  <2> QED
    BY <1>1, <1>3, <2>2, <2>3
<1> QED
  BY <1>1, <1>2, <1>3 DEF Shifted

LEMMA RestIsShifted ==
    ASSUME NEW s \in Scripts, NEW m, NEW p, Awaits(s, m, p), NEW rest \in Scripts,
           Len(rest) = Len(s) - p,
           \A i \in 1 .. Len(s) - p : rest[i] = s[p + i] /\ p + i \in 1 .. Len(s)
    PROVE  Shifted(s, rest, -p)
<1>1. Len(s) \in Nat /\ Len(rest) \in Nat /\ p \in 1 .. Len(s)
  BY DEF Scripts, Awaits
<1>2. ASSUME NEW i \in 1 .. p
      PROVE  ~Ends(s[i])
  <2>1. i \in 1 .. p - 1 \/ i = p
    BY <1>1
  <2> QED
    BY <2>1 DEF Awaits, Ends
<1>3. ASSUME NEW i \in 1 .. Len(s), Ends(s[i])
      PROVE  i + (-p) \in 1 .. Len(rest) /\ rest[i + (-p)] = s[i]
  <2>1. ~(i \in 1 .. p)
    BY <1>2, <1>3
  <2>2. i - p \in 1 .. Len(s) - p /\ p + (i - p) = i /\ i + (-p) = i - p
    BY <1>1, <2>1
  <2>3. rest[i - p] = s[i]
    BY <2>2
  <2> QED
    BY <2>2, <2>3
<1>4. ASSUME NEW i \in 1 .. Len(rest), Ends(rest[i])
      PROVE  i - (-p) \in 1 .. Len(s) /\ Ends(s[i - (-p)])
  <2>1. i - (-p) = p + i /\ i \in 1 .. Len(s) - p
    BY <1>1
  <2> QED
    BY <1>4, <2>1
<1>5. -p \in Int /\ Len(rest) = Len(s) + (-p)
  <2>1. \A x \in Int, y \in Int : -x \in Int /\ y - x = y + (-x)
    OBVIOUS
  <2>2. p \in Int /\ Len(s) \in Int
    BY <1>1
  <2> QED
    BY <2>1, <2>2
<1> QED
  BY <1>1, <1>3, <1>4, <1>5 DEF Shifted

LEMMA OvertakenIsShifted ==
    ASSUME NEW s \in Scripts
    PROVE  Shifted(s, Overtaken(s), 0)
<1>1. Len(s) \in Nat
  BY DEF Scripts
<1>2. PICK t \in Scripts : t = Overtaken(s)
  BY OvertakenSteps
<1>3. /\ Len(t) = Len(s)
      /\ \A i \in 1 .. Len(s) : t[i].do = s[i].do /\ (s[i].do # "store" => t[i] = s[i])
  BY <1>2, OvertakenSteps
<1>4. \A i \in 1 .. Len(s) : i + 0 = i /\ i - 0 = i
  OBVIOUS
<1>5. Shifted(s, t, 0)
  BY <1>1, <1>3, <1>4 DEF Shifted, Ends
<1> QED
  BY <1>2, <1>5

-----------------------------------------------------------------------------
(* Every call either makes no choice or has all the groups ahead of it.    *)

LEMMA LooksArePlain ==
    /\ \A r \in Reads : Plain(<<Look(r)>>)
    /\ \A r \in Reads, q \in Reads : Plain(<<Look(r), Look(q)>>)
    /\ \A r \in Reads, q \in Reads, u \in Reads : Plain(<<Look(r), Look(q), Look(u)>>)
<1>1. \A r \in Reads : ~Ends(Look(r))
  BY DEF Look, Ends
<1>2. ASSUME NEW r \in Reads
      PROVE  Plain(<<Look(r)>>)
  BY <1>1 DEF Plain
<1>3. ASSUME NEW r \in Reads, NEW q \in Reads
      PROVE  Plain(<<Look(r), Look(q)>>)
  BY <1>1 DEF Plain
<1>4. ASSUME NEW r \in Reads, NEW q \in Reads, NEW u \in Reads
      PROVE  Plain(<<Look(r), Look(q), Look(u)>>)
  BY <1>1 DEF Plain
<1> QED
  BY <1>2, <1>3, <1>4

LEMMA PrefixIsShifted ==
    ASSUME NEW s \in Scripts, NEW t \in Scripts, Plain(s)
    PROVE  Shifted(t, s \o t, Len(s))
<1>1. PICK u \in Scripts : u = s \o t
  BY ConcatScript
<1>2. /\ Len(s) \in Nat /\ Len(t) \in Nat /\ Len(u) = Len(s) + Len(t)
      /\ \A i \in 1 .. Len(s) : u[i] = s[i]
      /\ \A i \in 1 .. Len(t) : u[Len(s) + i] = t[i]
      /\ \A i \in Len(s) + 1 .. Len(u) : u[i] = t[i - Len(s)]
  <2>1. Len(s) \in Nat /\ Len(t) \in Nat /\ Len(u) = Len(s) + Len(t)
    BY <1>1, ConcatScript
  <2>2. \A i \in 1 .. Len(s) : u[i] = s[i]
    BY <1>1, ConcatScript
  <2>3. \A i \in Len(s) + 1 .. Len(u) : u[i] = t[i - Len(s)]
    BY <1>1, ConcatScript
  <2>4. ASSUME NEW i \in 1 .. Len(t)
        PROVE  u[Len(s) + i] = t[i]
    <3>1. Len(s) + i \in Len(s) + 1 .. Len(u) /\ (Len(s) + i) - Len(s) = i
      BY <2>1
    <3> QED
      BY <2>3, <3>1
  <2> QED
    BY <2>1, <2>2, <2>3, <2>4
<1>3. ASSUME NEW i \in 1 .. Len(t), Ends(t[i])
      PROVE  i + Len(s) \in 1 .. Len(u) /\ u[i + Len(s)] = t[i]
  <2>1. i + Len(s) = Len(s) + i
    BY <1>2
  <2> QED
    BY <1>2, <2>1
<1>4. ASSUME NEW i \in 1 .. Len(u), Ends(u[i])
      PROVE  i - Len(s) \in 1 .. Len(t) /\ Ends(t[i - Len(s)])
  <2>1. ~(i \in 1 .. Len(s))
    BY <1>2, <1>4 DEF Plain
  <2>2. i \in Len(s) + 1 .. Len(u)
    BY <1>2, <2>1
  <2> QED
    BY <1>2, <1>4, <2>2
<1>5. Shifted(t, u, Len(s))
  BY <1>2, <1>3, <1>4 DEF Shifted
<1> QED
  BY <1>1, <1>5

LEMMA CandidatesRemain == Remaining(Candidates \o <<Settle>>, 0)
<1>1. PICK s \in Scripts : s = Candidates
  BY CandidatesAre
<1>2. PICK e \in Scripts : e = <<Settle>>
  BY FreshOnes DEF Fresh
<1>3. Len(e) = 1 /\ e[1] = Settle
  BY <1>2
<1>4. /\ Len(s) = 2 * Len(Groups) /\ Len(Groups) \in Nat
      /\ \A j \in 1 .. Len(Groups) :
            /\ s[2 * j - 1] = Look(GroupRead(Groups[j]))
            /\ s[2 * j] = Consider(Groups[j])
      /\ \A i \in 1 .. 2 * Len(Groups) :
            \E j \in 1 .. Len(Groups) : i = 2 * j - 1 \/ i = 2 * j
  BY <1>1, CandidatesAre
<1>5. PICK u \in Scripts : u = s \o e
  BY ConcatScript
<1>6. /\ Len(u) = Len(s) + Len(e)
      /\ \A i \in 1 .. Len(s) : u[i] = s[i]
      /\ \A i \in 1 .. Len(e) : u[Len(s) + i] = e[i]
  BY <1>5, ConcatScript
<1>7. /\ Len(u) = 2 * Len(Groups) + 1 /\ Len(u) - 1 - 2 * Len(Groups) = 0
      /\ Len(u) \in Nat \ {0} /\ Len(u) - 1 = 2 * Len(Groups)
  BY <1>3, <1>4, <1>6
<1>8. u[Len(u)].do = "settle"
  <2>1. 1 \in 1 .. Len(e) /\ Len(s) + 1 = Len(u)
    BY <1>3, <1>6, <1>4
  <2>2. u[Len(u)] = Settle
    BY <1>3, <1>6, <2>1
  <2> QED
    BY <2>2 DEF Settle
<1>9. ASSUME NEW j \in 0 + 1 .. Len(Groups)
      PROVE  0 + 2 * j \in 1 .. 2 * Len(Groups) /\ u[0 + 2 * j] = Consider(Groups[j])
  <2>1. 0 + 2 * j = 2 * j /\ 2 * j \in 1 .. 2 * Len(Groups) /\ j \in 1 .. Len(Groups)
    BY <1>4
  <2> QED
    BY <1>4, <1>6, <2>1
<1>10. ASSUME NEW i \in 1 .. 2 * Len(Groups), Ends(u[i])
       PROVE  \E j \in 0 + 1 .. Len(Groups) : i = 0 + 2 * j
  <2>1. u[i] = s[i]
    BY <1>4, <1>6
  <2>2. PICK j \in 1 .. Len(Groups) : i = 2 * j - 1 \/ i = 2 * j
    BY <1>4
  <2>3. i # 2 * j - 1
    <3>1. ~Ends(Look(GroupRead(Groups[j])))
      BY DEF Look, Ends
    <3> QED
      BY <1>4, <1>10, <2>1, <3>1
  <2>4. i = 0 + 2 * j /\ j \in 0 + 1 .. Len(Groups)
    BY <1>4, <2>2, <2>3
  <2> QED
    BY <2>4
<1>11. Remaining(u, 0)
  BY <1>4, <1>7, <1>8, <1>9, <1>10 DEF Remaining
<1> QED
  BY <1>1, <1>2, <1>5, <1>11

LEMMA CallsGo ==
    ASSUME NEW s \in Calls
    PROVE  Goes(s, Nothing, {})
<1>1. /\ <<"episodes">> \in Reads /\ <<"groups">> \in Reads
      /\ \A r \in Memoized \cup {<<"discover">>, <<"episodes">>, <<"recommendations">>} :
            r \in Reads
      /\ \A g \in ToSet(Groups) : GroupRead(g) \in Reads
  BY DEF Reads, Localised, Unlocalised
<1>2. PICK head, body, end : /\ head = <<Look(<<"episodes">>), Look(<<"groups">>)>>
                             /\ body = Candidates /\ end = <<Settle>>
  OBVIOUS
<1>3. head \in Scripts /\ body \in Scripts /\ end \in Scripts /\ Plain(head)
  BY <1>1, <1>2, FreshOnes, CandidatesAre, LooksArePlain DEF Fresh
<1>4. PICK rest \in Scripts : rest = body \o end
  BY <1>3, ConcatScript
<1>5. Remaining(rest, 0)
  BY <1>2, <1>4, CandidatesRemain
<1>6. head \o body \o end = head \o rest
  BY <1>3, <1>4, ConcatAssociative DEF Scripts
<1>7. AutoNumbering = head \o rest
  BY <1>2, <1>6 DEF AutoNumbering
<1>8. AutoNumbering \in Scripts /\ Remaining(AutoNumbering, 0)
  BY <1>3, <1>4, <1>5, <1>7, PrefixIsShifted, RemainingShifted, ConcatScript
<1>9. Remaining(<<Look(<<"groups">>)>> \o AutoNumbering, 0)
  <2>1. PICK one \in Scripts : one = <<Look(<<"groups">>)>> /\ Plain(one)
    BY <1>1, FreshOnes, LooksArePlain DEF Fresh
  <2> QED
    BY <1>8, <2>1, PrefixIsShifted, RemainingShifted
<1>10. Passed({}, 0) /\ 0 \in 0 .. Len(Groups)
  BY CandidatesAre DEF Passed
<1>11. \A g \in ToSet(Groups) : Plain(NamedNumbering(g))
  BY <1>1, LooksArePlain DEF NamedNumbering
<1>12. \A r \in Memoized \cup {<<"discover">>, <<"episodes">>, <<"recommendations">>} :
        Plain(<<Look(r)>>)
  BY <1>1, LooksArePlain
<1>13. Plain(<<Look(<<"episodes">>), Look(<<"groups">>)>>)
  BY <1>1, LooksArePlain
<1>14. Plain(s) \/ Remaining(s, 0)
  BY <1>8, <1>9, <1>11, <1>12, <1>13 DEF Calls
<1> QED
  BY <1>10, <1>14 DEF Goes

(* The choice is the first group that qualifies and did not fail, and what *)
(* is ahead of a thread that has none yet are the groups it did not pass.  *)
Right(choice, f) ==
    choice # Nothing =>
        \/ choice = "canonical" /\ \A i \in DOMAIN Groups : Groups[i] \notin Qualifying \ f
        \/ \E i \in DOMAIN Groups :
              /\ choice = Groups[i]
              /\ Groups[i] \in Qualifying \ f
              /\ \A j \in 1 .. i - 1 : Groups[j] \notin Qualifying \ f

ChoiceIsAhead ==
    \A c \in Callers :
        Right(chosen[c], failed[c]) /\ Goes(todo[c], chosen[c], failed[c])

LEMMA ChoiceKept ==
    ASSUME ScriptsOK, RestOK, ChoiceIsAhead, NEW c \in Callers, NEW t, NEW choice, NEW f,
           Then(c, t), Right(choice, f), Goes(t, choice, f),
           chosen' = [chosen EXCEPT ![c] = choice], failed' = [failed EXCEPT ![c] = f]
    PROVE  ChoiceIsAhead'
<1> SUFFICES ASSUME NEW d \in Callers
             PROVE  Right(chosen'[d], failed'[d]) /\ Goes(todo'[d], chosen'[d], failed'[d])
  BY DEF ChoiceIsAhead
<1>1. CASE d = c
  BY <1>1 DEF Then, ScriptsOK, RestOK
<1>2. CASE d # c
  BY <1>2 DEF Then, ScriptsOK, RestOK, ChoiceIsAhead
<1> QED
  BY <1>1, <1>2

LEMMA ChoiceShifted ==
    ASSUME ScriptsOK, RestOK, ChoiceIsAhead, NEW c \in Callers, NEW t, NEW d,
           Shifted(todo[c], t, d), Then(c, t), UNCHANGED <<chosen, failed>>
    PROVE  ChoiceIsAhead'
<1>1. Right(chosen[c], failed[c]) /\ Goes(t, chosen[c], failed[c])
  BY GoesShifted DEF ChoiceIsAhead
<1>2. /\ chosen' = [chosen EXCEPT ![c] = chosen[c]]
      /\ failed' = [failed EXCEPT ![c] = failed[c]]
  BY DEF RestOK
<1> QED
  BY <1>1, <1>2, ChoiceKept

LEMMA ChoiceNext ==
    ASSUME ScriptsOK, RestOK, ChoiceIsAhead, NEW c \in Callers, NEW what, Does(c, what),
           what \notin {"consider", "settle"}, Then(c, Tail(todo[c])),
           UNCHANGED <<chosen, failed>>
    PROVE  ChoiceIsAhead'
<1>1. todo[c] \in Scripts /\ todo[c] # <<>> /\ ~Ends(todo[c][1])
  BY Doing DEF Ends
<1> QED
  BY <1>1, NextIsShifted, ChoiceShifted

LEMMA NothingAhead == Plain(<<>>) /\ \A choice, f : Goes(<<>>, choice, f)
BY DEF Plain, Goes

LEMMA ChoiceStops ==
    ASSUME ScriptsOK, RestOK, ChoiceIsAhead, NEW c \in Callers, Then(c, <<>>),
           NEW choice, Right(choice, failed[c]),
           chosen' = [chosen EXCEPT ![c] = choice], failed' = failed
    PROVE  ChoiceIsAhead'
<1>1. failed' = [failed EXCEPT ![c] = failed[c]]
  BY DEF RestOK
<1> QED
  BY <1>1, NothingAhead, ChoiceKept

(* A group that cannot be taken is passed.                                 *)
LEMMA PassedNext ==
    ASSUME NEW n \in 0 .. Len(Groups), NEW f, Passed(f, n), n + 1 \in 1 .. Len(Groups),
           NEW h, f \subseteq h, h \subseteq f \cup {Groups[n + 1]},
           Groups[n + 1] \notin Qualifying \ h
    PROVE  Passed(h, n + 1)
<1>1. n \in Nat /\ Len(Groups) \in Nat
  BY CandidatesAre
<1>2. 1 .. n + 1 = (1 .. n) \cup {n + 1}
  BY <1>1
<1> QED
  BY <1>2 DEF Passed

LEMMA ChoiceTaken ==
    ASSUME ScriptsOK, RestOK, ChoiceIsAhead, NEW c \in Callers, Take(c)
    PROVE  ChoiceIsAhead'
<1>1. /\ todo[c] \in Scripts /\ todo[c] # <<>> /\ Head(todo[c]) = todo[c][1]
      /\ todo[c][1].do = "consider" /\ Len(todo[c]) \in Nat \ {0}
  BY Doing DEF Take
<1>2. ~Plain(todo[c])
  BY <1>1 DEF Plain, Ends
<1>3. PICK n \in 0 .. Len(Groups) :
        Remaining(todo[c], n) /\ Passed(failed[c], n) /\ chosen[c] = Nothing
  BY <1>2 DEF ChoiceIsAhead, Goes
<1>4. /\ n + 1 \in 1 .. Len(Groups) /\ n + 1 \in 0 .. Len(Groups)
      /\ todo[c][1] = Consider(Groups[n + 1])
      /\ Remaining(Tail(todo[c]), n + 1)
  BY <1>1, <1>3, ConsidersNext
<1>5. todo[c][1].group = Groups[n + 1]
  BY <1>4 DEF Consider
<1>6. DOMAIN Groups = 1 .. Len(Groups) /\ Len(Groups) \in Nat /\ n \in Nat
  BY <1>3, GroupsAssumption, CandidatesAre
<1>7. CASE Groups[n + 1] \in Qualifying
  <2>1. Groups[n + 1] \notin failed[c]
    <3>1. \A j \in 1 .. n : j \in DOMAIN Groups /\ n + 1 \in DOMAIN Groups /\ j # n + 1
      BY <1>4, <1>6
    <3>2. \A j \in 1 .. n : Groups[j] # Groups[n + 1]
      BY <3>1, GroupsAssumption DEF IsInjective
    <3> QED
      BY <1>3, <3>2 DEF Passed
  <2>2. (n + 1) - 1 = n /\ n + 1 \in DOMAIN Groups
    BY <1>4, <1>6
  <2>3. Right(Groups[n + 1], failed[c])
    BY <1>3, <1>7, <2>1, <2>2 DEF Right, Passed
  <2>4. /\ Then(c, <<>>) /\ chosen' = [chosen EXCEPT ![c] = Groups[n + 1]]
        /\ failed' = failed
    BY <1>1, <1>5, <1>7 DEF Take
  <2> QED
    BY <2>3, <2>4, ChoiceStops
<1>8. CASE Groups[n + 1] \notin Qualifying
  <2>1. Passed(failed[c], n + 1)
    BY <1>3, <1>4, <1>8, PassedNext
  <2>2. Goes(Tail(todo[c]), Nothing, failed[c])
    BY <1>4, <2>1 DEF Goes
  <2>3. Then(c, Tail(todo[c])) /\ chosen' = chosen /\ failed' = failed
    BY <1>1, <1>5, <1>8 DEF Take
  <2>4. /\ chosen' = [chosen EXCEPT ![c] = Nothing]
        /\ failed' = [failed EXCEPT ![c] = failed[c]]
    BY <1>3, <2>3 DEF RestOK
  <2>5. Right(Nothing, failed[c])
    BY DEF Right
  <2> QED
    BY <2>2, <2>3, <2>4, <2>5, ChoiceKept
<1> QED
  BY <1>7, <1>8

LEMMA ChoiceSettled ==
    ASSUME ScriptsOK, RestOK, ChoiceIsAhead, NEW c \in Callers, Identity(c)
    PROVE  ChoiceIsAhead'
<1>1. todo[c][1].do = "settle" /\ Len(todo[c]) \in Nat \ {0}
  BY Doing DEF Identity
<1>2. ~Plain(todo[c])
  BY <1>1 DEF Plain, Ends
<1>3. PICK n \in 0 .. Len(Groups) : Remaining(todo[c], n) /\ Passed(failed[c], n)
  BY <1>2 DEF ChoiceIsAhead, Goes
<1>4. n = Len(Groups)
  BY <1>1, <1>3, SettlesLast
<1>5. DOMAIN Groups = 1 .. Len(Groups)
  BY GroupsAssumption
<1>6. Right("canonical", failed[c])
  BY <1>3, <1>4, <1>5 DEF Passed, Right
<1>7. Then(c, <<>>) /\ chosen' = [chosen EXCEPT ![c] = "canonical"] /\ failed' = failed
  BY DEF Identity
<1> QED
  BY <1>6, <1>7, ChoiceStops

LEMMA ChoiceSkips ==
    ASSUME ScriptsOK, RestOK, ChoiceIsAhead, NEW c \in Callers, Unavailable(c)
    PROVE  ChoiceIsAhead'
<1>1. PICK m \in Nat, p \in Nat, rest \in Scripts :
        /\ Awaits(todo[c], m, p)
        /\ Len(rest) = Len(todo[c]) - p
        /\ \A i \in 1 .. Len(todo[c]) - p :
              rest[i] = todo[c][p + i] /\ p + i \in 1 .. Len(todo[c])
        /\ \/ /\ rest # <<>> /\ rest[1].do = "consider"
              /\ Then(c, Tail(rest))
              /\ failed' = [failed EXCEPT ![c] = @ \cup {rest[1].group}]
           \/ Raise(c)
  BY UnavailableIs
<1>2. chosen' = chosen /\ todo[c] \in Scripts
  BY DEF Unavailable, ScriptsOK
<1>3. CASE Raise(c)
  <2>1. Then(c, <<>>) /\ failed' = failed /\ chosen' = [chosen EXCEPT ![c] = chosen[c]]
    BY <1>2, <1>3 DEF Raise, RestOK
  <2> QED
    BY <2>1, ChoiceStops DEF ChoiceIsAhead
<1>4. CASE /\ rest # <<>> /\ rest[1].do = "consider"
           /\ Then(c, Tail(rest))
           /\ failed' = [failed EXCEPT ![c] = @ \cup {rest[1].group}]
  <2>1. Shifted(todo[c], rest, -p)
    BY <1>1, <1>2, RestIsShifted
  <2>2. Goes(rest, chosen[c], failed[c])
    BY <2>1, GoesShifted DEF ChoiceIsAhead
  <2>3. ~Plain(rest)
    <3>1. Len(rest) \in Nat \ {0}
      BY <1>4, TailScript
    <3> QED
      BY <1>4, <3>1 DEF Plain, Ends
  <2>4. PICK n \in 0 .. Len(Groups) :
          Remaining(rest, n) /\ Passed(failed[c], n) /\ chosen[c] = Nothing
    BY <2>2, <2>3 DEF Goes
  <2>5. /\ n + 1 \in 1 .. Len(Groups) /\ n + 1 \in 0 .. Len(Groups)
        /\ rest[1] = Consider(Groups[n + 1])
        /\ Remaining(Tail(rest), n + 1)
    BY <1>4, <2>4, ConsidersNext
  <2>6. rest[1].group = Groups[n + 1]
    BY <2>5 DEF Consider
  <2>7. Passed(failed[c] \cup {Groups[n + 1]}, n + 1)
    BY <2>4, <2>5, PassedNext
  <2>8. Goes(Tail(rest), Nothing, failed[c] \cup {Groups[n + 1]})
    BY <2>5, <2>7 DEF Goes
  <2>9. /\ chosen' = [chosen EXCEPT ![c] = Nothing]
        /\ failed' = [failed EXCEPT ![c] = failed[c] \cup {Groups[n + 1]}]
    BY <1>2, <1>4, <2>4, <2>6 DEF RestOK
  <2>10. Right(Nothing, failed[c] \cup {Groups[n + 1]})
    BY DEF Right
  <2> QED
    BY <1>4, <2>8, <2>9, <2>10, ChoiceKept
<1> QED
  BY <1>1, <1>3, <1>4

LEMMA ChoiceStaysAhead == CacheIsSound /\ ChoiceIsAhead /\ [Next]_vars => ChoiceIsAhead'
<1> SUFFICES ASSUME CacheIsSound, ChoiceIsAhead, [Next]_vars PROVE ChoiceIsAhead'
  OBVIOUS
<1>0. ScriptsOK /\ RestOK
  BY DEF CacheIsSound
<1>1. ASSUME NEW c \in Callers, NEW steps \in Calls, Begin(c, steps)
      PROVE  ChoiceIsAhead'
  <2>1. Right(Nothing, {}) /\ Goes(steps, Nothing, {})
    BY CallsGo DEF Right
  <2>2. /\ Then(c, steps) /\ chosen' = [chosen EXCEPT ![c] = Nothing]
        /\ failed' = [failed EXCEPT ![c] = {}]
    BY <1>1 DEF Begin
  <2> QED
    BY <1>0, <2>1, <2>2, ChoiceKept
<1>2. ASSUME NEW c \in Callers, Hit(c)
      PROVE  ChoiceIsAhead'
  BY <1>0, <1>2, ChoiceNext DEF Hit
<1>3. ASSUME NEW c \in Callers, Miss(c)
      PROVE  ChoiceIsAhead'
  <2>1. PICK r, k : \E body \in Scripts, m \in 0 .. MaxParts, e \in Steps, t \in Scripts :
          /\ Begins(body, r, m)
          /\ Empty(e, r, k, m) /\ Unfolds(todo[c], t, body, e)
          /\ Then(c, t)
    BY <1>0, <1>3, MissIs
  <2>2. PICK body \in Scripts, m \in 0 .. MaxParts, e \in Steps, t \in Scripts :
          /\ Begins(body, r, m)
          /\ Empty(e, r, k, m) /\ Unfolds(todo[c], t, body, e)
          /\ Then(c, t)
    BY <2>1
  <2>3. todo[c] \in Scripts /\ ~Ends(todo[c][1])
    BY <1>0, <1>3, Doing DEF Miss, Ends
  <2>4. Shifted(todo[c], t, Len(body))
    BY <2>2, <2>3, UnfoldedIsShifted
  <2>5. UNCHANGED <<chosen, failed>>
    BY <1>3 DEF Miss
  <2> QED
    BY <1>0, <2>2, <2>4, <2>5, ChoiceShifted
<1>4. ASSUME NEW c \in Callers, Received(c)
      PROVE  ChoiceIsAhead'
  <2>1. PICK p \in Nat, t \in Scripts :
          /\ p \in 2 .. Len(todo[c])
          /\ todo[c][p] \in Steps /\ todo[c][p].do = "store"
          /\ Len(todo[c][p].value) < todo[c][p].parts
          /\ Len(t) = Len(todo[c]) - 1
          /\ t[p - 1] = Filled(todo[c][p], language)
          /\ \A i \in 1 .. Len(todo[c]) - 1 : i + 1 # p => t[i] = todo[c][i + 1]
          /\ Then(c, t)
    BY <1>0, <1>4, ReceivedIs
  <2>2. todo[c] \in Scripts /\ ~Ends(todo[c][1])
    BY <1>0, <1>4, Doing DEF Received, Ends
  <2>3. ~Ends(todo[c][p]) /\ ~Ends(t[p - 1])
    BY <1>0, <2>1, FilledType DEF Ends, RestOK
  <2>4. Shifted(todo[c], t, -1)
    BY <2>1, <2>2, <2>3, FilledIsShifted
  <2>5. UNCHANGED <<chosen, failed>>
    BY <1>4 DEF Received
  <2> QED
    BY <1>0, <2>1, <2>4, <2>5, ChoiceShifted
<1>5. ASSUME NEW c \in Callers, Refused(c)
      PROVE  ChoiceIsAhead'
  BY <1>0, <1>5, ChoiceNext DEF Refused
<1>6. ASSUME NEW c \in Callers, Unavailable(c)
      PROVE  ChoiceIsAhead'
  BY <1>0, <1>6, ChoiceSkips
<1>7. ASSUME NEW c \in Callers, Store(c)
      PROVE  ChoiceIsAhead'
  BY <1>0, <1>7, ChoiceNext DEF Store
<1>8. ASSUME NEW c \in Callers, Take(c)
      PROVE  ChoiceIsAhead'
  BY <1>0, <1>8, ChoiceTaken
<1>9. ASSUME NEW c \in Callers, Identity(c)
      PROVE  ChoiceIsAhead'
  BY <1>0, <1>9, ChoiceSettled
<1>10. ASSUME NEW k \in Keys, Evict(k)
       PROVE  ChoiceIsAhead'
  BY <1>10 DEF Evict, ChoiceIsAhead
<1>11. CASE ClearCache
  BY <1>11 DEF ClearCache, ChoiceIsAhead
<1>12. ASSUME NEW l \in Languages, SetLanguage(l)
       PROVE  ChoiceIsAhead'
  <2>1. /\ \A c \in Callers : todo'[c] = Overtaken(todo[c])
        /\ \A c \in Callers : todo[c] \in Scripts
        /\ chosen' = chosen /\ failed' = failed
    BY <1>0, <1>12, SetLanguageScripts DEF SetLanguage, ScriptsOK
  <2>2. ASSUME NEW c \in Callers
        PROVE  Goes(todo'[c], chosen[c], failed[c])
    BY <2>1, OvertakenIsShifted, GoesShifted DEF ChoiceIsAhead
  <2> QED
    BY <2>1, <2>2 DEF ChoiceIsAhead
<1>13. CASE Restart
  <2>1. \A c \in Callers : todo'[c] = <<>> /\ chosen'[c] = Nothing
    BY <1>13 DEF Restart
  <2>2. \A f : Right(Nothing, f)
    BY DEF Right
  <2> QED
    BY <2>1, <2>2, NothingAhead DEF ChoiceIsAhead
<1>14. CASE UNCHANGED vars
  BY <1>14 DEF vars, ChoiceIsAhead
<1> QED
  BY <1>1, <1>2, <1>3, <1>4, <1>5, <1>6, <1>7, <1>8, <1>9, <1>10, <1>11, <1>12, <1>13, <1>14
  DEF Next, CallStep

(* A group TMDB fails to return is skipped, so it cannot hide a later one  *)
(* that qualifies (tmdb.py:573-574): for any groups, and whatever fails,   *)
(* the automatic choice is the first that qualifies among those that did   *)
(* not fail during the call.                                               *)
THEOREM AutomaticIsFirst == Spec => []AutoIsFirstAvailable
<1>1. Init => ChoiceIsAhead
  BY NothingAhead DEF Init, ChoiceIsAhead, Right
<1>2. ChoiceIsAhead => AutoIsFirstAvailable
  BY DEF ChoiceIsAhead, Right, AutoIsFirstAvailable
<1> QED
  BY <1>1, <1>2, CacheIsAlwaysSound, ChoiceStaysAhead, PTL DEF Spec

-----------------------------------------------------------------------------
(* The language.                                                           *)

(* A value under way is in languages of its call, and unless the language  *)
(* has changed since its key was built, in the one of its key.             *)
Speaks(step, said, now) ==
    step.do = "store" =>
        /\ ToSet(step.value) \subseteq said
        /\ ~step.raced /\ step.read \notin Unlocalised =>
              step.key = <<step.read, now>> /\ ToSet(step.value) \subseteq {now}

ScriptSpeaks(s, said, now) == \A i \in 1 .. Len(s) : Speaks(s[i], said, now)

EntrySpeaks(k, e) ==
    k[1] \notin Unlocalised /\ ~e.raced => ToSet(e.value) \subseteq {k[2]}

AnswerSpeaks(a, said) ==
    \/ ToSet(a.value) \subseteq said
    \/ a.hit /\ (a.read \in Unlocalised \/ a.raced)

CacheSpeaks == \A k \in Held(cache) : EntrySpeaks(k, cache[k])

CallersSpeak ==
    \A c \in Callers :
        /\ todo[c] # <<>> => language \in spoke[c]
        /\ ScriptSpeaks(todo[c], spoke[c], language)
        /\ AnswerSpeaks(answer[c], spoke[c])

LEMMA EmptySpeaks == ToSet(<<>>) = {} /\ \A said : AnswerSpeaks(NoAnswer, said)
BY DEF ToSet, AnswerSpeaks, NoAnswer

LEMMA AppendSpeaks ==
    ASSUME NEW v \in Seq(Languages), NEW l \in Languages
    PROVE  ToSet(Append(v, l)) \subseteq ToSet(v) \cup {l}
<1> SUFFICES ASSUME NEW i \in DOMAIN Append(v, l)
             PROVE  Append(v, l)[i] \in ToSet(v) \cup {l}
  BY DEF ToSet
<1>1. i \in 1 .. Len(v) + 1 /\ Len(v) \in Nat /\ DOMAIN v = 1 .. Len(v)
  BY AppendProperties
<1>2. CASE i \in 1 .. Len(v)
  BY <1>1, <1>2, AppendProperties DEF ToSet
<1>3. CASE i = Len(v) + 1
  BY <1>3, AppendProperties
<1> QED
  BY <1>1, <1>2, <1>3

LEMMA SpeakKept ==
    ASSUME ScriptsOK, RestOK, CallersSpeak, NEW c \in Callers, NEW t, Then(c, t),
           language' = language, spoke' = spoke,
           t # <<>> => language \in spoke[c],
           ScriptSpeaks(t, spoke[c], language),
           answer' = answer
    PROVE  CallersSpeak'
<1> SUFFICES ASSUME NEW d \in Callers
             PROVE  /\ todo'[d] # <<>> => language' \in spoke'[d]
                    /\ ScriptSpeaks(todo'[d], spoke'[d], language')
                    /\ AnswerSpeaks(answer'[d], spoke'[d])
  BY DEF CallersSpeak
<1>1. CASE d = c
  BY <1>1 DEF Then, ScriptsOK, CallersSpeak
<1>2. CASE d # c
  BY <1>2 DEF Then, ScriptsOK, CallersSpeak
<1> QED
  BY <1>1, <1>2

LEMMA SpeakAnswered ==
    ASSUME ScriptsOK, RestOK, CallersSpeak, NEW c \in Callers, NEW t, Then(c, t),
           language' = language, spoke' = spoke,
           t # <<>> => language \in spoke[c],
           ScriptSpeaks(t, spoke[c], language),
           NEW a, answer' = [answer EXCEPT ![c] = a], AnswerSpeaks(a, spoke[c])
    PROVE  CallersSpeak'
<1> SUFFICES ASSUME NEW d \in Callers
             PROVE  /\ todo'[d] # <<>> => language' \in spoke'[d]
                    /\ ScriptSpeaks(todo'[d], spoke'[d], language')
                    /\ AnswerSpeaks(answer'[d], spoke'[d])
  BY DEF CallersSpeak
<1>1. CASE d = c
  BY <1>1 DEF Then, ScriptsOK, CallersSpeak, RestOK
<1>2. CASE d # c
  BY <1>2 DEF Then, ScriptsOK, CallersSpeak, RestOK
<1> QED
  BY <1>1, <1>2

LEMMA TailSpeaks ==
    ASSUME NEW s \in Scripts, s # <<>>, NEW said, NEW now, ScriptSpeaks(s, said, now)
    PROVE  ScriptSpeaks(Tail(s), said, now)
<1>1. PICK t : t = Tail(s)
  OBVIOUS
<1>2. \A i \in 1 .. Len(t) : t[i] = s[i + 1] /\ i + 1 \in 1 .. Len(s)
  BY <1>1, TailScript
<1> QED
  BY <1>1, <1>2 DEF ScriptSpeaks

LEMMA NothingSpeaks == \A said, now : ScriptSpeaks(<<>>, said, now)
BY DEF ScriptSpeaks

LEMMA UnfoldedSpeaks ==
    ASSUME NEW s \in Scripts, NEW t \in Scripts, NEW body \in Scripts,
           NEW r, NEW m, Begins(body, r, m), NEW said, NEW now,
           NEW e, Empty(e, r, KeyOf(r, now), m), Unfolds(s, t, body, e),
           ScriptSpeaks(s, said, now)
    PROVE  ScriptSpeaks(t, said, now)
<1>1. /\ Len(body) \in Nat /\ Len(s) \in Nat \ {0} /\ Len(t) = Len(body) + Len(s)
      /\ \A i \in 1 .. Len(body) : t[i] = body[i]
      /\ t[Len(body) + 1] = e
      /\ \A i \in Len(body) + 2 .. Len(t) : t[i] = s[i - Len(body)]
  BY DEF Unfolds
<1>2. Speaks(e, said, now)
  BY EmptySpeaks DEF Empty, Speaks, KeyOf
<1>3. ASSUME NEW i \in 1 .. Len(t)
      PROVE  Speaks(t[i], said, now)
  <2>1. CASE i \in 1 .. Len(body)
    BY <1>1, <2>1 DEF Begins, Speaks
  <2>2. CASE i = Len(body) + 1
    BY <1>1, <1>2, <2>2
  <2>3. CASE i \in Len(body) + 2 .. Len(t)
    <3>1. i - Len(body) \in 1 .. Len(s) /\ t[i] = s[i - Len(body)]
      BY <1>1, <2>3
    <3> QED
      BY <3>1 DEF ScriptSpeaks
  <2>4. i \in 1 .. Len(body) \/ i = Len(body) + 1 \/ i \in Len(body) + 2 .. Len(t)
    BY <1>1
  <2> QED
    BY <2>1, <2>2, <2>3, <2>4
<1> QED
  BY <1>3 DEF ScriptSpeaks

LEMMA FilledSpeaks ==
    ASSUME NEW e \in Steps, e.do = "store", Len(e.value) < e.parts,
           NEW now \in Languages, NEW said, now \in said, Speaks(e, said, now)
    PROVE  Speaks(Filled(e, now), said, now)
<1>1. /\ Filled(e, now).do = "store" /\ Filled(e, now).read = e.read
      /\ Filled(e, now).key = e.key /\ Filled(e, now).raced = e.raced
      /\ Filled(e, now).value = Append(e.value, now)
  BY FilledType
<1>2. e.value \in Seq(Languages)
  BY StepTypes, ValueType
<1>3. ToSet(Append(e.value, now)) \subseteq ToSet(e.value) \cup {now}
  BY <1>2, AppendSpeaks
<1> QED
  BY <1>1, <1>3 DEF Speaks

LEMMA ReceivedSpeaks ==
    ASSUME NEW s \in Scripts, NEW t \in Scripts, NEW p \in 2 .. Len(s),
           Len(t) = Len(s) - 1,
           \A i \in 1 .. Len(s) - 1 : i + 1 # p => t[i] = s[i + 1],
           NEW said, NEW now, ScriptSpeaks(s, said, now), Speaks(t[p - 1], said, now)
    PROVE  ScriptSpeaks(t, said, now)
<1>1. Len(s) \in Nat
  BY DEF Scripts
<1>2. ASSUME NEW i \in 1 .. Len(t)
      PROVE  Speaks(t[i], said, now)
  <2>1. CASE i = p - 1
    BY <2>1
  <2>2. CASE i # p - 1
    <3>1. i + 1 # p /\ i \in 1 .. Len(s) - 1 /\ i + 1 \in 1 .. Len(s)
      BY <1>1, <2>2
    <3>2. t[i] = s[i + 1]
      BY <3>1
    <3> QED
      BY <3>1, <3>2 DEF ScriptSpeaks
  <2> QED
    BY <2>1, <2>2
<1> QED
  BY <1>2 DEF ScriptSpeaks

LEMMA RestSpeaks ==
    ASSUME NEW s \in Scripts, NEW p, NEW rest \in Scripts,
           Len(rest) = Len(s) - p,
           \A i \in 1 .. Len(s) - p : rest[i] = s[p + i] /\ p + i \in 1 .. Len(s),
           NEW said, NEW now, ScriptSpeaks(s, said, now)
    PROVE  ScriptSpeaks(rest, said, now)
BY DEF ScriptSpeaks

(* Once the language has changed, every value under way is raced.          *)
LEMMA OvertakenSpeaks ==
    ASSUME NEW s \in Scripts, NEW said, NEW now, ScriptSpeaks(s, said, now), NEW l
    PROVE  ScriptSpeaks(Overtaken(s), said \cup {l}, l)
<1>1. PICK t \in Scripts : t = Overtaken(s)
  BY OvertakenSteps
<1>2. /\ Len(t) = Len(s)
      /\ \A i \in 1 .. Len(s) :
            /\ t[i].do = s[i].do
            /\ s[i].do = "store" => t[i].value = s[i].value /\ t[i].raced = TRUE
  BY <1>1, OvertakenSteps
<1>3. ASSUME NEW i \in 1 .. Len(t)
      PROVE  Speaks(t[i], said \cup {l}, l)
  BY <1>2 DEF Speaks, ScriptSpeaks
<1> QED
  BY <1>1, <1>3 DEF ScriptSpeaks

LEMMA FreshSpeaks ==
    ASSUME NEW s, Fresh(s)
    PROVE  \A said, now : ScriptSpeaks(s, said, now)
BY DEF Fresh, ScriptSpeaks, Speaks

LEMMA SpeakNext ==
    ASSUME ScriptsOK, RestOK, CallersSpeak, NEW c \in Callers, todo[c] # <<>>,
           Then(c, Tail(todo[c])), language' = language, spoke' = spoke, answer' = answer
    PROVE  CallersSpeak'
<1>1. todo[c] \in Scripts /\ language \in spoke[c] /\ ScriptSpeaks(todo[c], spoke[c], language)
  BY DEF ScriptsOK, CallersSpeak
<1>2. ScriptSpeaks(Tail(todo[c]), spoke[c], language)
  BY <1>1, TailSpeaks
<1> QED
  BY <1>1, <1>2, SpeakKept

LEMMA SpeakStops ==
    ASSUME ScriptsOK, RestOK, CallersSpeak, NEW c \in Callers,
           Then(c, <<>>), language' = language, spoke' = spoke, answer' = answer
    PROVE  CallersSpeak'
BY NothingSpeaks, SpeakKept

(* What the cache answers is in the language of the key it is asked with.  *)
LEMMA SpeakHit ==
    ASSUME WholeCache(cache), ScriptsOK, RestOK, CallersSpeak, CacheSpeaks,
           NEW c \in Callers, Hit(c)
    PROVE  CallersSpeak'
<1> DEFINE r == todo[c][1].read
           k == KeyOf(r, language)
           e == cache[k]
           a == [read |-> r, value |-> e.value, hit |-> TRUE, raced |-> e.raced]
<1>1. /\ todo[c] \in Scripts /\ todo[c] # <<>> /\ Head(todo[c]) = todo[c][1]
      /\ todo[c][1] \in Steps /\ todo[c][1].do = "look"
  BY Doing DEF Hit
<1>2. r \in Reads
  BY <1>1, StepTypes
<1>3. k \in Keys /\ k[1] = r /\ (r \notin Unlocalised => k[2] = language)
  BY <1>2, KeyType DEF KeyOf, RestOK
<1>4. e # Nothing /\ answer' = [answer EXCEPT ![c] = a]
  BY <1>1 DEF Hit, Finish
<1>5. EntrySpeaks(k, e)
  BY <1>3, <1>4 DEF CacheSpeaks, Held
<1>6. language \in spoke[c] /\ ScriptSpeaks(todo[c], spoke[c], language)
  BY <1>1 DEF CallersSpeak
<1>7. AnswerSpeaks(a, spoke[c])
  <2>1. CASE r \in Unlocalised \/ e.raced
    BY <2>1 DEF AnswerSpeaks
  <2>2. CASE ~(r \in Unlocalised \/ e.raced)
    <3>1. ToSet(e.value) \subseteq {language}
      BY <1>3, <1>5, <2>2 DEF EntrySpeaks
    <3> QED
      BY <1>6, <3>1 DEF AnswerSpeaks
  <2> QED
    BY <2>1, <2>2
<1> HIDE DEF a
<1>8. ScriptSpeaks(Tail(todo[c]), spoke[c], language)
  BY <1>1, <1>6, TailSpeaks
<1>9. Then(c, Tail(todo[c])) /\ language' = language /\ spoke' = spoke
  BY DEF Hit
<1> QED
  BY <1>4, <1>6, <1>7, <1>8, <1>9, SpeakAnswered

LEMMA SpeakMiss ==
    ASSUME ScriptsOK, RestOK, CallersSpeak, NEW c \in Callers, Miss(c)
    PROVE  CallersSpeak'
<1> DEFINE r == todo[c][1].read
<1>1. PICK body \in Scripts, m \in 0 .. MaxParts, e \in Steps, t \in Scripts :
        /\ Begins(body, r, m)
        /\ Empty(e, r, KeyOf(r, language), m) /\ Unfolds(todo[c], t, body, e)
        /\ Then(c, t)
  BY MissIs
<1>2. todo[c] \in Scripts /\ todo[c] # <<>>
  BY Doing DEF Miss
<1>3. language \in spoke[c] /\ ScriptSpeaks(todo[c], spoke[c], language)
  BY <1>2 DEF CallersSpeak
<1> HIDE DEF r
<1>4. ScriptSpeaks(t, spoke[c], language)
  BY <1>1, <1>2, <1>3, UnfoldedSpeaks
<1>5. language' = language /\ spoke' = spoke /\ answer' = answer
  BY DEF Miss
<1> QED
  BY <1>1, <1>3, <1>4, <1>5, SpeakKept

LEMMA SpeakReceived ==
    ASSUME ScriptsOK, RestOK, CallersSpeak, NEW c \in Callers, Received(c)
    PROVE  CallersSpeak'
<1>1. PICK p \in Nat, t \in Scripts :
        /\ p \in 2 .. Len(todo[c])
        /\ todo[c][p] \in Steps /\ todo[c][p].do = "store"
        /\ Len(todo[c][p].value) < todo[c][p].parts
        /\ Len(t) = Len(todo[c]) - 1
        /\ t[p - 1] = Filled(todo[c][p], language)
        /\ \A i \in 1 .. Len(todo[c]) - 1 : i + 1 # p => t[i] = todo[c][i + 1]
        /\ Then(c, t)
  BY ReceivedIs
<1>2. todo[c] \in Scripts /\ todo[c] # <<>> /\ language \in Languages /\ Len(todo[c]) \in Nat
  BY Doing DEF Received, RestOK
<1>3. language \in spoke[c] /\ ScriptSpeaks(todo[c], spoke[c], language)
  BY <1>2 DEF CallersSpeak
<1>4. Speaks(todo[c][p], spoke[c], language)
  <2>1. p \in 1 .. Len(todo[c])
    BY <1>1, <1>2
  <2> QED
    BY <1>3, <2>1 DEF ScriptSpeaks
<1>5. Speaks(t[p - 1], spoke[c], language)
  BY <1>1, <1>2, <1>3, <1>4, FilledSpeaks
<1>6. ScriptSpeaks(t, spoke[c], language)
  BY <1>1, <1>2, <1>3, <1>5, ReceivedSpeaks
<1>7. language' = language /\ spoke' = spoke /\ answer' = answer
  BY DEF Received
<1> QED
  BY <1>1, <1>3, <1>6, <1>7, SpeakKept

LEMMA SpeakUnavailable ==
    ASSUME ScriptsOK, RestOK, CallersSpeak, NEW c \in Callers, Unavailable(c)
    PROVE  CallersSpeak'
<1>1. PICK p \in Nat, rest \in Scripts :
        /\ Len(rest) = Len(todo[c]) - p
        /\ \A i \in 1 .. Len(todo[c]) - p :
              rest[i] = todo[c][p + i] /\ p + i \in 1 .. Len(todo[c])
        /\ \/ rest # <<>> /\ Then(c, Tail(rest)) /\ UNCHANGED answer
           \/ Raise(c)
  BY UnavailableIs
<1>2. todo[c] \in Scripts /\ todo[c] # <<>>
  BY Doing DEF Unavailable
<1>3. language \in spoke[c] /\ ScriptSpeaks(todo[c], spoke[c], language)
  BY <1>2 DEF CallersSpeak
<1>4. language' = language /\ spoke' = spoke
  BY DEF Unavailable
<1>5. CASE rest # <<>> /\ Then(c, Tail(rest)) /\ UNCHANGED answer
  <2>1. ScriptSpeaks(rest, spoke[c], language)
    BY <1>1, <1>2, <1>3, RestSpeaks
  <2>2. ScriptSpeaks(Tail(rest), spoke[c], language)
    BY <1>5, <2>1, TailSpeaks
  <2> QED
    BY <1>3, <1>4, <1>5, <2>2, SpeakKept
<1>6. CASE Raise(c)
  <2>1. Then(c, <<>>) /\ answer' = [answer EXCEPT ![c] = NoAnswer]
    BY <1>6 DEF Raise
  <2> QED
    BY <1>4, <2>1, NothingSpeaks, EmptySpeaks, SpeakAnswered
<1> QED
  BY <1>1, <1>5, <1>6

(* What is stored is in the language of its key, unless it is raced.       *)
LEMMA SpeakStore ==
    ASSUME WholeCache(cache), ScriptsOK, RestOK, CallersSpeak, CacheSpeaks,
           NEW c \in Callers, Store(c)
    PROVE  CallersSpeak' /\ CacheSpeaks'
<1> DEFINE s == todo[c][1]
           k == s.key
           e == [value |-> s.value, parts |-> s.parts, raced |-> s.raced]
           a == [read |-> s.read, value |-> s.value, hit |-> FALSE, raced |-> s.raced]
<1>1. /\ todo[c] \in Scripts /\ todo[c] # <<>> /\ Head(todo[c]) = s
      /\ s \in Steps /\ s.do = "store" /\ Len(todo[c]) \in Nat \ {0}
  BY Doing DEF Store
<1>2. k \in Keys /\ k[1] = s.read
  BY StoreIs
<1>3. language \in spoke[c] /\ ScriptSpeaks(todo[c], spoke[c], language)
  BY <1>1 DEF CallersSpeak
<1>4. Speaks(s, spoke[c], language)
  BY <1>1, <1>3 DEF ScriptSpeaks
<1>5. EntrySpeaks(k, e)
  BY <1>1, <1>2, <1>4 DEF Speaks, EntrySpeaks
<1>6. AnswerSpeaks(a, spoke[c])
  BY <1>1, <1>4 DEF Speaks, AnswerSpeaks
<1>7. /\ answer' = [answer EXCEPT ![c] = a] /\ Then(c, Tail(todo[c]))
      /\ language' = language /\ spoke' = spoke
  BY <1>1 DEF Store, Finish
<1>8. CallersSpeak'
  <2> HIDE DEF a
  <2>1. ScriptSpeaks(Tail(todo[c]), spoke[c], language)
    BY <1>1, <1>3, TailSpeaks
  <2> QED
    BY <1>3, <1>6, <1>7, <2>1, SpeakAnswered
<1>9. CacheSpeaks'
  <2>1. \/ cache' = [cache EXCEPT ![k] = e]
        \/ \E j \in Keys : cache' = [[cache EXCEPT ![k] = e] EXCEPT ![j] = Nothing]
    BY <1>1 DEF Store, Held
  <2> HIDE DEF k, e
  <2>2. \A j \in Keys : cache'[j] # Nothing => cache'[j] = IF j = k THEN e ELSE cache[j]
    BY <1>2, <2>1 DEF WholeCache
  <2> QED
    BY <1>5, <2>2 DEF CacheSpeaks, Held
<1> QED
  BY <1>8, <1>9

LEMMA SpeakSetLanguage ==
    ASSUME ScriptsOK, RestOK, CallersSpeak, NEW l \in Languages, SetLanguage(l)
    PROVE  CallersSpeak'
<1>1. /\ language' = l /\ answer' = answer
      /\ \A c \in Callers :
            spoke'[c] = IF todo[c] = <<>> THEN spoke[c] ELSE spoke[c] \cup {l}
      /\ \A c \in Callers : todo'[c] = Overtaken(todo[c])
  BY SetLanguageScripts DEF SetLanguage
<1> SUFFICES ASSUME NEW c \in Callers
             PROVE  /\ todo'[c] # <<>> => l \in spoke'[c]
                    /\ ScriptSpeaks(todo'[c], spoke'[c], l)
                    /\ AnswerSpeaks(answer'[c], spoke'[c])
  BY <1>1 DEF CallersSpeak
<1>2. todo[c] \in Scripts /\ ScriptSpeaks(todo[c], spoke[c], language)
  BY DEF ScriptsOK, CallersSpeak
<1>3. CASE todo[c] = <<>>
  <2>1. todo'[c] = <<>>
    <3>1. PICK t \in Scripts : t = Overtaken(todo[c]) /\ Len(t) = Len(todo[c])
      BY <1>2, OvertakenSteps
    <3>2. Len(t) = 0
      BY <1>3, <3>1
    <3>3. t = <<>>
      BY <3>1, <3>2, EmptySeq DEF Scripts
    <3> QED
      BY <1>1, <3>1, <3>3
  <2>2. AnswerSpeaks(answer'[c], spoke'[c])
    BY <1>1, <1>3 DEF CallersSpeak
  <2>3. ScriptSpeaks(todo'[c], spoke'[c], l)
    BY <2>1, NothingSpeaks
  <2> QED
    BY <2>1, <2>2, <2>3
<1>4. CASE todo[c] # <<>>
  <2>1. ScriptSpeaks(Overtaken(todo[c]), spoke[c] \cup {l}, l)
    BY <1>2, OvertakenSpeaks
  <2> QED
    BY <1>1, <1>4, <2>1 DEF CallersSpeak, AnswerSpeaks
<1> QED
  BY <1>3, <1>4

LEMMA CallersGoOnSpeaking ==
    CacheIsSound /\ CallersSpeak /\ CacheSpeaks /\ [Next]_vars => CallersSpeak' /\ CacheSpeaks'
<1> SUFFICES ASSUME CacheIsSound, CallersSpeak, CacheSpeaks, [Next]_vars
             PROVE  CallersSpeak' /\ CacheSpeaks'
  OBVIOUS
<1>0. WholeCache(cache) /\ ScriptsOK /\ RestOK
  BY DEF CacheIsSound
<1>1. ASSUME cache' = cache
      PROVE  CacheSpeaks'
  BY <1>1 DEF CacheSpeaks, Held
<1>2. ASSUME \A k \in Keys : cache'[k] = cache[k] \/ cache'[k] = Nothing
      PROVE  CacheSpeaks'
  BY <1>2 DEF CacheSpeaks, Held
<1>3. ASSUME NEW c \in Callers, NEW steps \in Calls, Begin(c, steps)
      PROVE  CallersSpeak' /\ CacheSpeaks'
  <2>1. /\ language' = language /\ cache' = cache
        /\ \A d \in Callers :
              IF d = c THEN /\ todo'[d] = steps /\ spoke'[d] = {language}
                            /\ answer'[d] = NoAnswer
              ELSE todo'[d] = todo[d] /\ spoke'[d] = spoke[d] /\ answer'[d] = answer[d]
    BY <1>0, <1>3 DEF Begin, Then, ScriptsOK, RestOK
  <2>2. ScriptSpeaks(steps, {language}, language) /\ AnswerSpeaks(NoAnswer, {language})
    BY CallsAreFresh, FreshSpeaks, EmptySpeaks
  <2>3. CallersSpeak'
    BY <2>1, <2>2 DEF CallersSpeak
  <2> QED
    BY <1>1, <2>1, <2>3
<1>4. ASSUME NEW c \in Callers, Hit(c)
      PROVE  CallersSpeak' /\ CacheSpeaks'
  BY <1>0, <1>1, <1>4, SpeakHit DEF Hit
<1>5. ASSUME NEW c \in Callers, Miss(c)
      PROVE  CallersSpeak' /\ CacheSpeaks'
  BY <1>0, <1>1, <1>5, SpeakMiss DEF Miss
<1>6. ASSUME NEW c \in Callers, Received(c)
      PROVE  CallersSpeak' /\ CacheSpeaks'
  BY <1>0, <1>1, <1>6, SpeakReceived DEF Received
<1>7. ASSUME NEW c \in Callers, Refused(c)
      PROVE  CallersSpeak' /\ CacheSpeaks'
  BY <1>0, <1>1, <1>7, SpeakNext DEF Refused, Does
<1>8. ASSUME NEW c \in Callers, Unavailable(c)
      PROVE  CallersSpeak' /\ CacheSpeaks'
  BY <1>0, <1>1, <1>8, SpeakUnavailable DEF Unavailable
<1>9. ASSUME NEW c \in Callers, Store(c)
      PROVE  CallersSpeak' /\ CacheSpeaks'
  BY <1>0, <1>9, SpeakStore
<1>10. ASSUME NEW c \in Callers, Take(c)
       PROVE  CallersSpeak' /\ CacheSpeaks'
  <2>1. (Then(c, <<>>) \/ Then(c, Tail(todo[c]))) /\ todo[c] # <<>>
    BY <1>10 DEF Take, Does
  <2>2. language' = language /\ spoke' = spoke /\ answer' = answer /\ cache' = cache
    BY <1>10 DEF Take
  <2> QED
    BY <1>0, <1>1, <2>1, <2>2, SpeakStops, SpeakNext
<1>11. ASSUME NEW c \in Callers, Identity(c)
       PROVE  CallersSpeak' /\ CacheSpeaks'
  BY <1>0, <1>1, <1>11, SpeakStops DEF Identity
<1>12. ASSUME NEW k \in Keys, Evict(k)
       PROVE  CallersSpeak' /\ CacheSpeaks'
  <2>1. \A j \in Keys : cache'[j] = cache[j] \/ cache'[j] = Nothing
    BY <1>0, <1>12 DEF Evict, WholeCache
  <2>2. CallersSpeak'
    BY <1>12 DEF Evict, CallersSpeak
  <2> QED
    BY <1>2, <2>1, <2>2
<1>13. CASE ClearCache
  <2>1. CallersSpeak'
    BY <1>13 DEF ClearCache, CallersSpeak
  <2>2. \A j \in Keys : cache'[j] = Nothing
    BY <1>13 DEF ClearCache
  <2> QED
    BY <1>2, <2>1, <2>2
<1>14. ASSUME NEW l \in Languages, SetLanguage(l)
       PROVE  CallersSpeak' /\ CacheSpeaks'
  BY <1>0, <1>1, <1>14, SpeakSetLanguage DEF SetLanguage
<1>15. CASE Restart
  <2>1. \A c \in Callers : todo'[c] = <<>> /\ answer'[c] = NoAnswer
    BY <1>15 DEF Restart
  <2>2. CallersSpeak'
    BY <2>1, NothingSpeaks, EmptySpeaks DEF CallersSpeak
  <2> QED
    BY <1>1, <1>15, <2>2 DEF Restart
<1>16. CASE UNCHANGED vars
  BY <1>1, <1>16 DEF vars, CallersSpeak
<1> QED
  BY <1>3, <1>4, <1>5, <1>6, <1>7, <1>8, <1>9, <1>10, <1>11, <1>12, <1>13, <1>14, <1>15, <1>16
  DEF Next, CallStep

(* target_language applies to the next search (settings.py:41-46): for any *)
(* languages, a call is answered in one that was set during the call - but *)
(* for a memoized read the cache still has, and for a value that was under *)
(* way when the language changed.                                          *)
THEOREM AnswersInLanguage == Spec => []AnswerInLanguage
<1>1. Init => CallersSpeak /\ CacheSpeaks
  BY NothingSpeaks, EmptySpeaks DEF Init, CallersSpeak, CacheSpeaks, Held
<1>2. CallersSpeak => AnswerInLanguage
  BY DEF CallersSpeak, AnswerSpeaks, AnswerInLanguage
<1> QED
  BY <1>1, <1>2, CacheIsAlwaysSound, CallersGoOnSpeaking, PTL DEF Spec
=============================================================================
