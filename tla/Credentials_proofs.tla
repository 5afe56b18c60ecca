-------------------------- MODULE Credentials_proofs --------------------------
(***************************************************************************)
(* Theorems about Credentials, for any number of request threads.          *)
(*                                                                         *)
(* A GET /health marks the outcome of its own call and takes its snapshot  *)
(* later; the marks of other threads fall in between.  OpenIsFresh says    *)
(* why none of them can be an old one: whatever call of the client is      *)
(* answered and not marked yet while the request is under way, the request *)
(* may show its verdict.                                                   *)
(***************************************************************************)
EXTENDS Credentials, TLAPS

(* A use of the qBittorrent client always has something to mark, unless it *)
(* raised; only GET /health goes on to a snapshot, and the probe is none.  *)
ClassifiedOrRaised ==
    /\ op[Prober] # "health"
    /\ \A t \in Threads :
        /\ t \in Open("qb") => verdict[t] # "none"
        /\ at[t] = "snapshot" => op[t] = "health"

(* What a /health request under way may find at its snapshot.              *)
OpenIsFresh ==
    \A u \in Callers : op[u] = "health" /\ at[u] # "idle" =>
        /\ \A t \in Open("qb") : verdict[t] \in Marks => verdict[t] \in fresh[u]
        /\ at[u] = "snapshot" => health["qb"] \in fresh[u]

-----------------------------------------------------------------------------
(* Verdicts and marks.                                                     *)

LEMMA VerdictType ==
    ASSUME NEW c \in Creds, NEW v \in Behaviour
    PROVE  /\ Verdict(c, v) \in Verdicts
           /\ c = "qb" => Verdict(c, v) # "none"
<1>1. VerdictOfTmdb(v) \in Verdicts
  BY DEF Behaviour, VerdictOfTmdb, Verdicts, Marks, Status
<1>2. VerdictOfQb(v) \in Verdicts \ {"none"}
  BY DEF Behaviour, VerdictOfQb, Verdicts, Marks, Status
<1> QED
  BY <1>1, <1>2 DEF Creds, Verdict

LEMMA AfterType ==
    ASSUME NEW t \in Threads
    PROVE  /\ After(t) \in {"idle", "probed", "snapshot"}
           /\ After(t) = "snapshot" <=> op[t] = "health"
           /\ After(t) = "probed" => t = Prober
<1>1. CASE op[t] = "health"
  BY <1>1 DEF After
<1>2. CASE op[t] # "health" /\ t = Prober /\ op[t] = "tmdb"
  BY <1>2 DEF After
<1>3. CASE op[t] # "health" /\ ~(t = Prober /\ op[t] = "tmdb")
  BY <1>3 DEF After
<1> QED
  BY <1>1, <1>2, <1>3

LEMMA AskEffects ==
    ASSUME TypeOK, NEW t \in Threads, NEW o \in Op, at[t] # "answered", Ask(t, o)
    PROVE  /\ at' = [at EXCEPT ![t] = "answered"]
           /\ op' = [op EXCEPT ![t] = o]
           /\ verdict' = [verdict EXCEPT ![t] = verdict'[t]]
           /\ verdict'[t] \in Verdicts
           /\ CredOf(o) = "qb" => verdict'[t] # "none"
           /\ Open("qb")' = IF CredOf(o) = "qb" THEN Open("qb") \cup {t} ELSE Open("qb")
           /\ UNCHANGED <<upstream, keyed, health, crashes>>
<1> DEFINE v == Verdict(CredOf(o), upstream[CredOf(o)])
<1>1. CredOf(o) \in Creds /\ upstream[CredOf(o)] \in Behaviour
  BY DEF TypeOK, CredOf, Creds
<1>2. v \in Verdicts /\ (CredOf(o) = "qb" => v # "none")
  BY <1>1, VerdictType
<1>3. /\ at' = [at EXCEPT ![t] = "answered"]
      /\ op' = [op EXCEPT ![t] = o]
      /\ verdict' = [verdict EXCEPT ![t] = v]
  BY DEF Ask
<1>4. Open("qb")' = IF CredOf(o) = "qb" THEN Open("qb") \cup {t} ELSE Open("qb")
  BY <1>3 DEF TypeOK, Open
<1> QED
  BY <1>2, <1>3, <1>4 DEF TypeOK, Ask

LEMMA LeaveEffects ==
    ASSUME TypeOK, NEW t \in Threads, NEW p \in Place \ {"answered"}, Leave(t, p)
    PROVE  /\ Open("qb")' = Open("qb") \ {t}
           /\ \A u \in Threads \ {t} : UNCHANGED <<at[u], op[u], verdict[u]>>
           /\ at'[t] = p
           /\ p = "snapshot" => op' = op /\ fresh' = fresh
           /\ p # "snapshot" => op'[t] = "qb"
           /\ \A u \in Callers \ {t} : fresh'[u] = fresh[u]
BY DEF TypeOK, Leave, Open

-----------------------------------------------------------------------------
(* Types.                                                                  *)

LEMMA AskType ==
    ASSUME TypeOK, NEW t \in Threads, NEW o \in Op, at[t] # "answered", Ask(t, o)
    PROVE  TypeOK'
<1>1. fresh' \in [Callers -> SUBSET Marks]
  <2>1. PICK v : Freshen(t, o, v)
    BY DEF Ask
  <2> QED
    BY <2>1 DEF TypeOK, Freshen
<1> QED
  BY <1>1, AskEffects DEF TypeOK, Place

LEMMA LeaveType ==
    ASSUME TypeOK, NEW t \in Threads, NEW p \in Place \ {"answered"}, Leave(t, p),
           health' \in [Creds -> Status], UNCHANGED <<upstream, keyed, crashes>>
    PROVE  TypeOK'
<1>1. fresh' \in [Callers -> SUBSET Marks]
  BY DEF TypeOK, Leave
<1> QED
  BY <1>1 DEF TypeOK, Leave, Op, Verdicts

LEMMA TypeStep == TypeOK /\ [Next]_vars => TypeOK'
<1> SUFFICES ASSUME TypeOK, [Next]_vars
             PROVE  TypeOK'
  OBVIOUS
<1>1. ASSUME NEW t \in Callers, NEW o \in Op, Request(t, o)
      PROVE  TypeOK'
  BY <1>1, AskType DEF Request, Threads
<1>2. ASSUME NEW t \in Threads, Progress(t)
      PROVE  TypeOK'
  <2>1. PICK p \in Place \ {"answered"} : Leave(t, p)
    BY <1>2, AfterType DEF Progress, Mark, PassBy, Raised, Snapshot, Place
  <2>2. health' \in [Creds -> Status]
    BY <1>2 DEF TypeOK, Progress, Mark, PassBy, Raised, Snapshot, Marks
  <2> QED
    BY <1>2, <2>1, <2>2, LeaveType DEF Progress, Mark, PassBy, Raised, Snapshot
<1>3. CASE ProbeTmdb
  <2>1. CASE Ask(Prober, "tmdb")
    BY <1>3, <2>1, AskType DEF ProbeTmdb, Threads, Op
  <2>2. CASE ~Ask(Prober, "tmdb")
    BY <1>3, <2>2 DEF ProbeTmdb, TypeOK, Place, Status
  <2> QED
    BY <2>1, <2>2
<1>4. CASE ProbeQb
  BY <1>4, AskType DEF ProbeQb, Threads, Op
<1>5. ASSUME NEW c \in Creds, NEW v \in Behaviour, UpstreamChanges(c, v)
      PROVE  TypeOK'
  BY <1>5 DEF TypeOK, UpstreamChanges
<1>6. CASE Restart
  BY <1>6, MaxCrashesAssumption DEF TypeOK, Restart, Place, Op, Verdicts, Status
<1>7. CASE UNCHANGED vars
  BY <1>7 DEF TypeOK, vars
<1> QED
  BY <1>1, <1>2, <1>3, <1>4, <1>5, <1>6, <1>7 DEF Next

(* Type correctness: a verdict is there exactly while an answer is open.   *)
THEOREM TypeCorrect == Spec => []TypeOK
<1>1. Init => TypeOK
  BY MaxCrashesAssumption DEF Init, TypeOK, Place, Op, Verdicts, Status
<1> QED
  BY <1>1, TypeStep, PTL DEF Spec

-----------------------------------------------------------------------------
LEMMA ProgressEffects ==
    ASSUME TypeOK, NEW t \in Threads, Progress(t)
    PROVE  \E p \in Place \ {"answered"} :
             /\ Leave(t, p)
             /\ p = "snapshot" => at[t] = "answered" /\ op[t] = "health"
             /\ p = "snapshot" => Mark(t) \/ verdict[t] = "none"
BY AfterType DEF Progress, Mark, PassBy, Raised, Snapshot, Place

LEMMA ClassifiedStep ==
    ASSUME TypeOK, ClassifiedOrRaised, [Next]_vars
    PROVE  ClassifiedOrRaised'
<1>1. ASSUME NEW t \in Threads, NEW o \in Op, t = Prober => o # "health",
             at[t] # "answered", Ask(t, o)
      PROVE  ClassifiedOrRaised'
  <2>1. op'[Prober] # "health"
    BY <1>1, AskEffects DEF TypeOK, ClassifiedOrRaised, Threads
  <2>2. ASSUME NEW u \in Threads, u \in Open("qb")'
        PROVE  verdict'[u] # "none"
    BY <1>1, <2>2, AskEffects DEF TypeOK, ClassifiedOrRaised, Open
  <2>3. ASSUME NEW u \in Threads, at'[u] = "snapshot"
        PROVE  op'[u] = "health"
    BY <1>1, <2>3, AskEffects DEF TypeOK, ClassifiedOrRaised
  <2> QED
    BY <2>1, <2>2, <2>3 DEF ClassifiedOrRaised
<1>2. ASSUME NEW t \in Threads, Progress(t)
      PROVE  ClassifiedOrRaised'
  <2>1. PICK p \in Place \ {"answered"} :
             /\ Leave(t, p)
             /\ p = "snapshot" => at[t] = "answered" /\ op[t] = "health"
    BY <1>2, ProgressEffects
  <2>2. op'[Prober] # "health"
    BY <2>1, LeaveEffects DEF ClassifiedOrRaised, Threads
  <2>3. ASSUME NEW u \in Threads, u \in Open("qb")'
        PROVE  verdict'[u] # "none"
    BY <2>1, <2>3, LeaveEffects DEF ClassifiedOrRaised
  <2>4. ASSUME NEW u \in Threads, at'[u] = "snapshot"
        PROVE  op'[u] = "health"
    BY <2>1, <2>4, LeaveEffects DEF ClassifiedOrRaised
  <2> QED
    BY <2>2, <2>3, <2>4 DEF ClassifiedOrRaised
<1>3. ASSUME NEW t \in Callers, NEW o \in Op, Request(t, o)
      PROVE  ClassifiedOrRaised'
  BY <1>1, <1>3, ProberAssumption DEF Request, Threads
<1>4. CASE ProbeTmdb
  <2>1. CASE Ask(Prober, "tmdb")
    BY <1>1, <1>4, <2>1 DEF ProbeTmdb, Threads, Op
  <2>2. CASE ~Ask(Prober, "tmdb")
    BY <1>4, <2>2 DEF ProbeTmdb, TypeOK, ClassifiedOrRaised, Open, Threads
  <2> QED
    BY <2>1, <2>2
<1>5. CASE ProbeQb
  BY <1>1, <1>5 DEF ProbeQb, Threads, Op
<1>6. ASSUME NEW c \in Creds, NEW v \in Behaviour, UpstreamChanges(c, v)
      PROVE  ClassifiedOrRaised'
  BY <1>6 DEF UpstreamChanges, ClassifiedOrRaised, Open
<1>7. CASE Restart
  BY <1>7 DEF Restart, ClassifiedOrRaised, Open, Threads
<1>8. CASE UNCHANGED vars
  BY <1>8 DEF ClassifiedOrRaised, Open, vars
<1> QED
  BY <1>2, <1>3, <1>4, <1>5, <1>6, <1>7, <1>8 DEF Next

-----------------------------------------------------------------------------
(* A call that is answered leaves every /health request with its verdict   *)
(* to show; the one that asks starts with what is open.                    *)
LEMMA AskIsFresh ==
    ASSUME TypeOK, ClassifiedOrRaised, OpenIsFresh,
           NEW t \in Threads, NEW o \in Op, t = Prober => o # "health",
           at[t] \notin {"answered", "snapshot"}, Ask(t, o)
    PROVE  OpenIsFresh'
<1> DEFINE v == Verdict(CredOf(o), upstream[CredOf(o)])
<1>1. /\ Freshen(t, o, v)
      /\ verdict' = [verdict EXCEPT ![t] = v]
      /\ verdict'[t] = v
  BY DEF TypeOK, Ask
<1>2. SUFFICES ASSUME NEW u \in Callers, op'[u] = "health", at'[u] # "idle"
               PROVE  /\ \A w \in Open("qb")' : verdict'[w] \in Marks => verdict'[w] \in fresh'[u]
                      /\ at'[u] = "snapshot" => health'["qb"] \in fresh'[u]
  BY DEF OpenIsFresh
<1>3. CASE u = t
  <2>1. o = "health" /\ CredOf(o) = "qb" /\ at'[u] = "answered"
    BY <1>2, <1>3, AskEffects DEF TypeOK, CredOf, Threads
  <2>2. fresh'[u] = ({v} \cup {verdict[w] : w \in Open("qb")}) \cap Marks
    BY <1>1, <1>3, <2>1 DEF Freshen
  <2>3. ASSUME NEW w \in Open("qb")', verdict'[w] \in Marks
        PROVE  verdict'[w] \in fresh'[u]
    <3>1. w = t \/ (w \in Open("qb") /\ w \in Threads /\ w # t)
      BY <2>3, <2>1, AskEffects DEF Open
    <3>2. w # t /\ w \in Threads => verdict'[w] = verdict[w]
      BY <1>1 DEF TypeOK
    <3> QED
      BY <1>1, <2>2, <2>3, <3>1, <3>2
  <2> QED
    BY <2>1, <2>3
<1>4. CASE u # t
  <2>1. op[u] = "health" /\ at[u] # "idle" /\ at'[u] = at[u] /\ health' = health
    BY <1>2, <1>4, AskEffects DEF TypeOK, Threads
  <2>2. /\ fresh[u] \subseteq fresh'[u]
        /\ CredOf(o) = "qb" /\ v \in Marks => v \in fresh'[u]
    BY <1>1, <1>4, <2>1 DEF Freshen
  <2>3. ASSUME NEW w \in Open("qb")', verdict'[w] \in Marks
        PROVE  verdict'[w] \in fresh'[u]
    <3>1. (w = t /\ CredOf(o) = "qb") \/ (w \in Open("qb") /\ w \in Threads /\ w # t)
      BY <2>3, AskEffects DEF Open
    <3>2. w # t /\ w \in Threads => verdict'[w] = verdict[w]
      BY <1>1 DEF TypeOK
    <3> QED
      BY <1>1, <2>1, <2>2, <2>3, <3>1, <3>2 DEF OpenIsFresh
  <2>4. at'[u] = "snapshot" => health'["qb"] \in fresh'[u]
    BY <2>1, <2>2 DEF OpenIsFresh
  <2> QED
    BY <2>3, <2>4
<1> QED
  BY <1>3, <1>4

(* A mark is one that every /health request under way may show.            *)
LEMMA MarkIsFresh ==
    ASSUME TypeOK, ClassifiedOrRaised, OpenIsFresh,
           NEW t \in Threads, Progress(t), NEW u \in Callers,
           op[u] = "health", at[u] # "idle"
    PROVE  health'["qb"] = health["qb"] \/ health'["qb"] \in fresh[u]
<1>1. CASE Mark(t)
  <2>1. CASE CredOf(op[t]) = "qb"
    <3>1. t \in Open("qb") /\ verdict[t] \in Marks /\ health'["qb"] = verdict[t]
      BY <1>1, <2>1 DEF TypeOK, Mark, Open, Creds
    <3> QED
      BY <3>1 DEF OpenIsFresh
  <2>2. CASE CredOf(op[t]) # "qb"
    BY <1>1, <2>2 DEF TypeOK, Mark, Creds
  <2> QED
    BY <2>1, <2>2
<1>2. CASE ~Mark(t)
  BY <1>2 DEF Progress, PassBy, Raised, Snapshot
<1> QED
  BY <1>1, <1>2

LEMMA FreshStep ==
    ASSUME TypeOK, ClassifiedOrRaised, OpenIsFresh, [Next]_vars
    PROVE  OpenIsFresh'
<1>1. ASSUME NEW t \in Callers, NEW o \in Op, Request(t, o)
      PROVE  OpenIsFresh'
  BY <1>1, AskIsFresh, ProberAssumption DEF Request, Threads
<1>2. ASSUME NEW t \in Threads, Progress(t)
      PROVE  OpenIsFresh'
  <2>1. PICK p \in Place \ {"answered"} :
             /\ Leave(t, p)
             /\ p = "snapshot" => at[t] = "answered" /\ op[t] = "health"
             /\ p = "snapshot" => Mark(t) \/ verdict[t] = "none"
    BY <1>2, ProgressEffects
  <2>2. SUFFICES ASSUME NEW u \in Callers, op'[u] = "health", at'[u] # "idle"
                 PROVE  /\ \A w \in Open("qb")' :
                              verdict'[w] \in Marks => verdict'[w] \in fresh'[u]
                        /\ at'[u] = "snapshot" => health'["qb"] \in fresh'[u]
    BY DEF OpenIsFresh
  <2>3. op[u] = "health" /\ at[u] # "idle" /\ fresh'[u] = fresh[u] /\ (u = t => p = "snapshot")
    BY <2>1, <2>2, LeaveEffects DEF Threads
  <2>4. ASSUME NEW w \in Open("qb")', verdict'[w] \in Marks
        PROVE  verdict'[w] \in fresh'[u]
    <3>1. w \in Open("qb") /\ w \in Threads \ {t}
      BY <2>1, <2>4, LeaveEffects DEF Open
    <3>2. verdict'[w] = verdict[w]
      BY <2>1, <3>1, LeaveEffects
    <3> QED
      BY <2>3, <2>4, <3>1, <3>2 DEF OpenIsFresh
  <2>5. ASSUME at'[u] = "snapshot"
        PROVE  health'["qb"] \in fresh'[u]
    <3>1. CASE u = t
      <4>1. t \in Open("qb") /\ verdict[t] # "none" /\ CredOf(op[t]) = "qb"
        BY <2>1, <2>3, <3>1 DEF ClassifiedOrRaised, Open, CredOf
      <4>2. Mark(t)
        BY <2>1, <2>3, <3>1, <4>1
      <4>3. health'["qb"] = verdict[t] /\ verdict[t] \in Marks
        BY <4>1, <4>2 DEF TypeOK, Mark, Creds
      <4> QED
        BY <2>3, <4>1, <4>3 DEF OpenIsFresh
    <3>2. CASE u # t
      <4>1. at[u] = "snapshot"
        BY <2>1, <2>5, <3>2, LeaveEffects DEF Threads
      <4> QED
        BY <1>2, <2>3, <4>1, MarkIsFresh DEF OpenIsFresh
    <3> QED
      BY <3>1, <3>2
  <2> QED
    BY <2>4, <2>5
<1>3. CASE ProbeTmdb
  <2>1. CASE Ask(Prober, "tmdb")
    BY <1>3, <2>1, AskIsFresh DEF ProbeTmdb, Threads, Op
  <2>2. CASE ~Ask(Prober, "tmdb")
    <3>1. /\ UNCHANGED <<op, verdict, fresh>> /\ health'["qb"] = health["qb"]
          /\ \A u \in Threads \ {Prober} : at'[u] = at[u]
          /\ at[Prober] = "idle" /\ at'[Prober] = "probed"
      BY <1>3, <2>2 DEF ProbeTmdb, TypeOK, Creds, Threads
    <3>2. Open("qb")' = Open("qb")
      BY <3>1 DEF Open
    <3> QED
      BY <3>1, <3>2, ProberAssumption DEF OpenIsFresh, Threads
  <2> QED
    BY <2>1, <2>2
<1>4. CASE ProbeQb
  BY <1>4, AskIsFresh DEF ProbeQb, Threads, Op
<1>5. ASSUME NEW c \in Creds, NEW v \in Behaviour, UpstreamChanges(c, v)
      PROVE  OpenIsFresh'
  BY <1>5 DEF UpstreamChanges, OpenIsFresh, Open
<1>6. CASE Restart
  BY <1>6 DEF Restart, OpenIsFresh, Threads
<1>7. CASE UNCHANGED vars
  BY <1>7 DEF OpenIsFresh, Open, vars
<1> QED
  BY <1>1, <1>2, <1>3, <1>4, <1>5, <1>6, <1>7 DEF Next

(* GET /health never shows a state of the qBittorrent key that an earlier  *)
(* call left behind: with any number of callers and the probe loop marking *)
(* at any time, what it shows was answered after it began, or was still    *)
(* unmarked then.                                                          *)
THEOREM HealthFresh == Spec => []HealthIsFresh
<1>1. Init => ClassifiedOrRaised /\ OpenIsFresh
  BY DEF Init, ClassifiedOrRaised, OpenIsFresh, Open, Threads
<1>2. TypeOK /\ ClassifiedOrRaised /\ OpenIsFresh => HealthIsFresh
  BY DEF TypeOK, ClassifiedOrRaised, OpenIsFresh, HealthIsFresh, Threads
<1> QED
  BY <1>1, <1>2, ClassifiedStep, FreshStep, TypeCorrect, PTL DEF Spec
=============================================================================
