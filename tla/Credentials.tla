---------------------------- MODULE Credentials ----------------------------
(***************************************************************************)
(* The health of the two credentials the service owns: the tracker         *)
(* (core/credentials.py), the calls that classify their outcome into it    *)
(* (services/tmdb.py, services/qbittorrent.py), GET /health, and the slow  *)
(* probe loop (services/credential_probe.py).                              *)
(*                                                                         *)
(* A call has two moments: the upstream answers it, and the thread marks   *)
(* what the answer says.  Between the two other threads ask and mark, so   *)
(* an older answer may be marked last.                                     *)
(***************************************************************************)
EXTENDS Naturals

CONSTANTS
    Callers,    \* the request threads
    Prober,     \* the thread of the probe loop
    MaxCrashes  \* bound: the restarts of the process

ASSUME ProberAssumption == Prober \notin Callers

ASSUME MaxCrashesAssumption == MaxCrashes \in Nat

VARIABLES
    upstream,   \* [Creds -> how the service behind a credential answers]
    keyed,      \* config.tmdb_api_key is set
    health,     \* CredentialTracker._states
    at,         \* [Threads -> where a thread stands]
    op,         \* [Threads -> the operation its answered call belongs to]
    verdict,    \* [Threads -> what the answer of its call says]
    fresh,      \* history: [Callers -> qBittorrent verdicts a /health call may show]
    crashes     \* the restarts so far

vars == <<upstream, keyed, health, at, op, verdict, fresh, crashes>>

Threads == Callers \cup {Prober}

Creds == {"tmdb", "qb"}

Status == {"unknown", "ok", "invalid", "unreachable"}

\* 200, 401 or 403, another status, a transport failure, any other exception.
Behaviour == {"accepting", "refusing", "erring", "down", "raising"}

Place == {"idle", "probed", "answered", "snapshot"}

\* A call of TMDB, a use of the qBittorrent client, GET /health (which uses it).
Op == {"tmdb", "qb", "health"}

CredOf(o) == IF o = "tmdb" THEN "tmdb" ELSE "qb"

\* _get_or_unavailable: a status other than 200 and 401 is not classified.
VerdictOfTmdb(v) ==
    CASE v = "accepting" -> "ok"
      [] v = "refusing" -> "invalid"
      [] v = "erring" -> "none"
      [] v = "down" -> "unreachable"
      [] v = "raising" -> "raised"

\* get_torrent_client: every error of the client's HTTP layer but the 403 is
\* an APIConnectionError.
VerdictOfQb(v) ==
    CASE v = "accepting" -> "ok"
      [] v = "refusing" -> "invalid"
      [] v \in {"erring", "down"} -> "unreachable"
      [] v = "raising" -> "raised"

Verdict(c, v) == IF c = "tmdb" THEN VerdictOfTmdb(v) ELSE VerdictOfQb(v)

Marks == Status \ {"unknown"}

Verdicts == Marks \cup {"none", "raised"}

\* Threads with an answer in hand that is not marked yet.
Open(c) == {t \in Threads : at[t] = "answered" /\ CredOf(op[t]) = c}

Init ==
    /\ upstream \in [Creds -> Behaviour]
    /\ keyed \in BOOLEAN
    /\ health = [c \in Creds |-> "unknown"]
    /\ at = [t \in Threads |-> "idle"]
    /\ op = [t \in Threads |-> "qb"]
    /\ verdict = [t \in Threads |-> "none"]
    /\ fresh = [t \in Callers |-> {}]
    /\ crashes = 0

-----------------------------------------------------------------------------
\* A /health request may show what its own call says, what calls answered
\* before it began but not marked yet say, and what later calls say.
Freshen(t, o, v) ==
    fresh' = [u \in Callers |->
                IF u = t /\ o = "health"
                THEN ({v} \cup {verdict[w] : w \in Open("qb")}) \cap Marks
                ELSE IF CredOf(o) = "qb" /\ op[u] = "health" /\ at[u] # "idle"
                     THEN fresh[u] \cup ({v} \cap Marks)
                     ELSE fresh[u]]

\* The upstream answers a call of thread t.
Ask(t, o) ==
    LET v == Verdict(CredOf(o), upstream[CredOf(o)])
    IN  /\ at' = [at EXCEPT ![t] = "answered"]
        /\ op' = [op EXCEPT ![t] = o]
        /\ verdict' = [verdict EXCEPT ![t] = v]
        /\ Freshen(t, o, v)
        /\ UNCHANGED <<upstream, keyed, health, crashes>>

\* A request that calls an upstream.  Without a key nobody calls TMDB.
Request(t, o) ==
    /\ at[t] = "idle"
    /\ o = "tmdb" => keyed
    /\ Ask(t, o)

\* A thread is through with the call of its operation.
Leave(t, p) ==
    /\ at' = [at EXCEPT ![t] = p]
    /\ op' = [op EXCEPT ![t] = IF p = "snapshot" THEN @ ELSE "qb"]
    /\ verdict' = [verdict EXCEPT ![t] = "none"]
    /\ fresh' = [u \in Callers |-> IF u = t /\ p # "snapshot" THEN {} ELSE fresh[u]]

\* Where a thread goes on once its call has returned.
After(t) ==
    CASE op[t] = "health" -> "snapshot"
      [] t = Prober /\ op[t] = "tmdb" -> "probed"
      [] OTHER -> "idle"

\* Mutant of Mark: what is no verdict on the key is recorded as well.
MarkUnclassified(t) ==
    /\ at[t] = "answered"
    /\ health' = [health EXCEPT ![CredOf(op[t])] = verdict[t]]
    /\ Leave(t, After(t))
    /\ UNCHANGED <<upstream, keyed, crashes>>

\* Mutant: a success is recorded only by the probe.
MarkOkByProbe(t) ==
    /\ at[t] = "answered"
    /\ verdict[t] \in Marks
    /\ health' = IF verdict[t] = "ok" /\ t # Prober THEN health
                 ELSE [health EXCEPT ![CredOf(op[t])] = verdict[t]]
    /\ Leave(t, After(t))
    /\ UNCHANGED <<upstream, keyed, crashes>>

\* mark_ok, mark_invalid, mark_unreachable.
Mark(t) ==
    /\ at[t] = "answered"
    /\ verdict[t] \in Marks
    /\ health' = [health EXCEPT ![CredOf(op[t])] = verdict[t]]
    /\ Leave(t, After(t))
    /\ UNCHANGED <<upstream, keyed, crashes>>

\* An answer that is not classified.
PassBy(t) ==
    /\ at[t] = "answered"
    /\ verdict[t] = "none"
    /\ Leave(t, After(t))
    /\ UNCHANGED <<upstream, keyed, health, crashes>>

\* Mutant: the loop ends with the first probe that raises.
RaisedEndsLoop(t) ==
    /\ at[t] = "answered"
    /\ verdict[t] = "raised"
    /\ t # Prober
    /\ Leave(t, "idle")
    /\ UNCHANGED <<upstream, keyed, health, crashes>>

\* Any other exception ends the request with a 500 - and the round of the
\* probe loop, which catches it, logs it and sleeps; a TMDB probe that raises
\* takes the qBittorrent probe of its round with it.
Raised(t) ==
    /\ at[t] = "answered"
    /\ verdict[t] = "raised"
    /\ Leave(t, "idle")
    /\ UNCHANGED <<upstream, keyed, health, crashes>>

\* api_health_check: the snapshot is taken after the client was verified.
Snapshot(t) ==
    /\ at[t] = "snapshot"
    /\ Leave(t, "idle")
    /\ UNCHANGED <<upstream, keyed, health, crashes>>

\* The loop wakes up: probe_tmdb.  Without a key there is nothing to ask.
ProbeTmdb ==
    /\ at[Prober] = "idle"
    /\ \/ keyed /\ Ask(Prober, "tmdb")
       \/ /\ ~keyed
          /\ health' = [health EXCEPT !["tmdb"] = "invalid"]
          /\ at' = [at EXCEPT ![Prober] = "probed"]
          /\ UNCHANGED <<upstream, keyed, op, verdict, fresh, crashes>>

\* probe_all goes on with get_torrent_client.
ProbeQb == at[Prober] = "probed" /\ Ask(Prober, "qb")

UpstreamChanges(c, v) ==
    /\ upstream' = [upstream EXCEPT ![c] = v]
    /\ UNCHANGED <<keyed, health, at, op, verdict, fresh, crashes>>

\* The process dies and starts again, maybe with another environment.
Restart ==
    /\ crashes < MaxCrashes
    /\ crashes' = crashes + 1
    /\ keyed' \in BOOLEAN
    /\ health' = [c \in Creds |-> "unknown"]
    /\ at' = [t \in Threads |-> "idle"]
    /\ op' = [t \in Threads |-> "qb"]
    /\ verdict' = [t \in Threads |-> "none"]
    /\ fresh' = [t \in Callers |-> {}]
    /\ UNCHANGED upstream

\* What a thread does with an answer it has.
Progress(t) == Mark(t) \/ PassBy(t) \/ Raised(t) \/ Snapshot(t)

Next ==
    \/ \E t \in Callers, o \in Op : Request(t, o)
    \/ \E t \in Threads : Progress(t)
    \/ ProbeTmdb
    \/ ProbeQb
    \/ \E c \in Creds, v \in Behaviour : UpstreamChanges(c, v)
    \/ Restart

Spec == Init /\ [][Next]_vars

\* The calls return (both clients have timeouts) and the loop is scheduled.
Fairness ==
    /\ \A t \in Threads : WF_vars(Progress(t))
    /\ WF_vars(ProbeTmdb)
    /\ WF_vars(ProbeQb)

FairSpec == Spec /\ Fairness

-----------------------------------------------------------------------------
TypeOK ==
    /\ upstream \in [Creds -> Behaviour]
    /\ keyed \in BOOLEAN
    /\ health \in [Creds -> Status]
    /\ at \in [Threads -> Place]
    /\ op \in [Threads -> Op]
    /\ verdict \in [Threads -> Verdicts]
    /\ \A t \in Threads : at[t] # "answered" => verdict[t] = "none"
    /\ fresh \in [Callers -> SUBSET Marks]
    /\ crashes \in 0 .. MaxCrashes

(* What a /health answer says of the qBittorrent key comes from a call that *)
(* was answered after the request began, or was at most still unmarked when *)
(* it began: never "unknown", never the state an earlier call left behind,  *)
(* however the calls of other threads overlap with it (routers/system.py    *)
(* takes the snapshot after get_torrent_client has marked its outcome).     *)
HealthIsFresh ==
    \A t \in Callers : at[t] = "snapshot" => health["qb"] \in fresh[t]

(* "A slow probe covers keys that expire while idle" (credentials.py:3-5): *)
(* an upstream that keeps answering the same way is in the end reported    *)
(* so for good, whether or not anybody sends a request, whatever late      *)
(* answers come in between, and although a round of the loop may fail.     *)
(* Answers that are not classified report nothing, and a TMDB probe that   *)
(* raises takes the qBittorrent probe with it.                             *)
HealthConverges ==
    \A c \in Creds : \A v \in Behaviour :
        /\ Verdict(c, v) \in Marks
        /\ <>[](upstream[c] = v)
        /\ c = "tmdb" => <>[]keyed
        /\ c = "qb" => <>[](upstream["tmdb"] # "raising" \/ ~keyed)
        => <>[](health[c] = Verdict(c, v))
=============================================================================
