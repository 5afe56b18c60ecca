------------------------ MODULE PluginSearch_proofs ------------------------
(***************************************************************************)
(* Theorems about PluginSearch for every value of its constants.           *)
(*                                                                         *)
(* The argument: a job leaves its in-flight states through the finally     *)
(* clause only, and nobody resets the slots of a request that still has a  *)
(* job on a thread (SlotsAreTidy); so an entry that reads as running keeps *)
(* a job behind it.  A batch ends when every slot has been served, and what*)
(* was served is in the cache or was evicted since (ResultsKept).          *)
(***************************************************************************)
EXTENDS PluginSearch, TLAPS

(* A request that has ended has no jobs, and no slot outside the current   *)
(* batch is in use.                                                        *)
SlotsAreTidy ==
    \A r \in Requests :
        /\ Ended(r) => job[r] = NoJobs
        /\ \A i \in Slots : i \notin Used(r) => job[r][i] = "none"

Kept(r, k) == k \in cached \cup lost[r]

(* What a request was served is in the cache, or evicted since it began:   *)
(* the current batch's patterns, and past the prefetch all of them.        *)
ResultsKept ==
    \A r \in Requests :
        /\ phase[r] = "running" =>
            \A i \in Used(r) : job[r][i] \in {"hit", "done"} => Kept(r, KeyOf(r, i))
        /\ (phase[r] = "running" /\ batch[r] > 1) \/ phase[r] = "answered" =>
            \A k \in KeysOf(r) : Kept(r, k)

-----------------------------------------------------------------------------
(* Facts about the constants.                                              *)

LEMMA BatchFacts ==
    ASSUME NEW r \in Requests, NEW b \in DOMAIN Batches[r]
    PROVE  /\ Batches[r] \in Seq(Seq(Patterns))
           /\ DOMAIN Batches[r] = 1 .. Len(Batches[r])
           /\ Len(Batches[r]) \in Nat
           /\ Len(Batches[r]) >= 2
           /\ Batches[r][b] \in Seq(Patterns)
           /\ DOMAIN Batches[r][b] \subseteq Slots
           /\ \A i \in DOMAIN Batches[r][b] : Fold[Batches[r][b][i]] \in Keys
<1>1. Batches[r] \in Seq(Seq(Patterns)) /\ Len(Batches[r]) >= 2
  BY BatchesAssumption
<1>2. DOMAIN Batches[r] = 1 .. Len(Batches[r]) /\ Len(Batches[r]) \in Nat
  BY <1>1
<1>3. Batches[r][b] \in Seq(Patterns)
  BY <1>1, <1>2
<1>4. DOMAIN Batches[r][b] \subseteq Slots
  BY BatchesAssumption
<1>5. ASSUME NEW i \in DOMAIN Batches[r][b]
      PROVE  Fold[Batches[r][b][i]] \in Keys
  <2>1. Batches[r][b][i] \in Patterns
    BY <1>3
  <2> QED
    BY <2>1, FoldAssumption
<1> QED
  BY <1>1, <1>2, <1>3, <1>4, <1>5

(* Every pass works at keys of the prefetch.                               *)
LEMMA PassKeys ==
    ASSUME NEW r \in Requests, NEW b \in DOMAIN Batches[r],
           NEW i \in DOMAIN Batches[r][b]
    PROVE  Fold[Batches[r][b][i]] \in KeysOf(r)
<1>1. PICK j \in DOMAIN Batches[r][1] : Batches[r][b][i] = Batches[r][1][j]
  BY BatchesAssumption
<1> QED
  BY <1>1 DEF KeysOf

LEMMA TypeFacts ==
    ASSUME TypeOK, NEW r \in Requests
    PROVE  /\ batch[r] \in DOMAIN Batches[r]
           /\ batch[r] \in Nat
           /\ Used(r) \subseteq Slots
           /\ \A i \in Used(r) : KeyOf(r, i) \in Keys
           /\ \A i \in Slots : job[r][i] \in JobState
           /\ DOMAIN job[r] = Slots
<1>1. batch[r] \in DOMAIN Batches[r] /\ batch[r] \in Nat /\ job[r] \in [Slots -> JobState]
  BY DEF TypeOK
<1> QED
  BY <1>1, BatchFacts DEF Used, KeyOf

-----------------------------------------------------------------------------
(* Types.                                                                  *)

LEMMA LookUpsType ==
    ASSUME NEW r \in Requests, NEW b
    PROVE  LookUps(r, b) \in [Slots -> JobState]
BY DEF LookUps, JobState

LEMMA NoJobsType == NoJobs \in [Slots -> JobState]
BY DEF NoJobs, JobState

LEMMA BecomeType ==
    ASSUME job \in [Requests -> [Slots -> JobState]],
           NEW r \in Requests, NEW i \in Slots, NEW s \in JobState, Become(r, i, s)
    PROVE  job' \in [Requests -> [Slots -> JobState]]
BY DEF Become

(* The registry's methods keep its type.                                   *)
LEMMA RegistryTypes ==
    ASSUME RegistryTypeOK, NEW k \in Keys,
           \/ Start(k)
           \/ \E n \in Counts : Update(k, n)
           \/ Finish(k)
           \/ Age(k)
           \/ DropAged(k)
           \/ UNCHANGED entries
    PROVE  RegistryTypeOK'
<1> USE DEF RegistryTypeOK
<1>1. FreshEntry \in Entry /\ NoEntry.status = "none"
  BY MaxResultsAssumption DEF FreshEntry, Entry, NoEntry, Counts
<1>2. CASE Start(k)
  BY <1>1, <1>2 DEF Start
<1>3. CASE \E n \in Counts : Update(k, n)
  <2>1. PICK n \in Counts : Update(k, n)
    BY <1>3
  <2>2. CASE entries[k] = NoEntry
    BY <2>1, <2>2 DEF Update
  <2>3. CASE entries[k] # NoEntry
    <3>1. entries[k] \in Entry
      BY <2>3
    <3>2. [entries[k] EXCEPT !.results = n] \in Entry
      BY <3>1 DEF Entry
    <3> QED
      BY <2>1, <2>3, <3>2 DEF Update
  <2> QED
    BY <2>2, <2>3
<1>4. CASE Finish(k)
  <2>1. CASE entries[k].status = "running"
    <3>1. entries[k] \in Entry
      BY <1>1, <2>1
    <3>2. [entries[k] EXCEPT !.status = "finished"] \in Entry
      BY <3>1 DEF Entry
    <3> QED
      BY <1>4, <2>1, <3>2 DEF Finish
  <2> QED
    BY <1>4, <2>1 DEF Finish
<1>5. CASE Age(k)
  <2>1. entries[k] \in Entry
    BY <1>1, <1>5 DEF Age
  <2>2. [entries[k] EXCEPT !.status = "aged"] \in Entry
    BY <2>1 DEF Entry
  <2> QED
    BY <1>5, <2>2 DEF Age
<1>6. CASE DropAged(k)
  BY <1>6 DEF DropAged
<1>7. CASE UNCHANGED entries
  BY <1>7
<1> QED
  BY <1>2, <1>3, <1>4, <1>5, <1>6, <1>7

(* Every step keeps the types.                                            *)
LEMMA TypeStep == TypeOK /\ [Next]_vars => TypeOK'
<1> SUFFICES ASSUME TypeOK, [Next]_vars
             PROVE  TypeOK'
  OBVIOUS
<1>0. /\ RegistryTypeOK
      /\ phase \in [Requests -> Phase]
      /\ batch \in [Requests -> Nat]
      /\ job \in [Requests -> [Slots -> JobState]]
      /\ cached \in SUBSET Keys
      /\ lost \in [Requests -> SUBSET Keys]
      /\ \A r \in Requests : batch[r] \in DOMAIN Batches[r]
  BY DEF TypeOK
<1>1. ASSUME NEW r \in Requests, Begin(r)
      PROVE  TypeOK'
  <2>1. 1 \in DOMAIN Batches[r]
    BY <1>0, BatchFacts
  <2>2. job' \in [Requests -> [Slots -> JobState]]
    BY <1>0, <1>1, LookUpsType DEF Begin
  <2>3. phase' \in [Requests -> Phase]
    BY <1>0, <1>1 DEF Begin, Phase
  <2>4. /\ batch' \in [Requests -> Nat]
        /\ \A q \in Requests : batch'[q] \in DOMAIN Batches[q]
    BY <1>0, <1>1, <2>1 DEF Begin
  <2>5. lost' \in [Requests -> SUBSET Keys]
    BY <1>0, <1>1 DEF Begin
  <2>6. cached' = cached /\ RegistryTypeOK'
    BY <1>0, <1>1 DEF Begin, RegistryTypeOK
  <2> QED
    BY <1>0, <2>2, <2>3, <2>4, <2>5, <2>6 DEF TypeOK
<1>2. ASSUME NEW r \in Requests, Unavailable(r)
      PROVE  TypeOK'
  <2>1. phase' \in [Requests -> Phase]
    BY <1>0, <1>2 DEF Unavailable, Phase
  <2> QED
    BY <1>0, <1>2, <2>1 DEF Unavailable, TypeOK, RegistryTypeOK
<1>3. ASSUME NEW r \in Requests, NextBatch(r)
      PROVE  TypeOK'
  <2>1. batch[r] + 1 \in DOMAIN Batches[r] /\ batch[r] + 1 \in Nat
    BY <1>0, <1>3, BatchFacts DEF NextBatch
  <2>2. job' \in [Requests -> [Slots -> JobState]]
    BY <1>0, <1>3, LookUpsType DEF NextBatch
  <2>3. /\ batch' \in [Requests -> Nat]
        /\ \A q \in Requests : batch'[q] \in DOMAIN Batches[q]
    BY <1>0, <1>3, <2>1 DEF NextBatch
  <2> QED
    BY <1>0, <1>3, <2>2, <2>3 DEF NextBatch, TypeOK, RegistryTypeOK
<1>4. ASSUME NEW r \in Requests, Answer(r) \/ GiveUp(r)
      PROVE  TypeOK'
  <2>1. 1 \in DOMAIN Batches[r]
    BY <1>0, BatchFacts
  <2>2. job' \in [Requests -> [Slots -> JobState]]
    BY <1>0, <1>4, NoJobsType DEF Answer, GiveUp
  <2>3. /\ batch' \in [Requests -> Nat]
        /\ \A q \in Requests : batch'[q] \in DOMAIN Batches[q]
    <3>1. batch' = [batch EXCEPT ![r] = 1]
      BY <1>4 DEF Answer, GiveUp
    <3> QED
      BY <1>0, <2>1, <3>1
  <2>4. phase' \in [Requests -> Phase]
    BY <1>0, <1>4 DEF Answer, GiveUp, Phase
  <2> QED
    BY <1>0, <1>4, <2>2, <2>3, <2>4 DEF Answer, GiveUp, TypeOK, RegistryTypeOK
<1>5. ASSUME NEW r \in Requests, Raise(r)
      PROVE  TypeOK'
  <2>1. phase' \in [Requests -> Phase]
    BY <1>0, <1>5 DEF Raise, Phase
  <2>2. [i \in Slots |-> IF job[r][i] = "queued" THEN "cancelled" ELSE job[r][i]]
            \in [Slots -> JobState]
    BY <1>0 DEF JobState
  <2>3. job' \in [Requests -> [Slots -> JobState]]
    BY <1>0, <1>5, <2>2 DEF Raise
  <2> QED
    BY <1>0, <1>5, <2>1, <2>3 DEF Raise, TypeOK, RegistryTypeOK
<1>6. ASSUME NEW r \in Requests, NEW i \in Used(r), JobStep(r, i)
      PROVE  TypeOK'
  <2>0. i \in Slots /\ KeyOf(r, i) \in Keys
    BY TypeFacts
  <2>1. \E s \in JobState : Become(r, i, s) \/ UNCHANGED job
    BY <1>6 DEF JobStep, LookUp, StartJob, SearchStart, Poll, TimeOut, Fetch, Fail,
                FinishJob, Store, JobState
  <2>2. job' \in [Requests -> [Slots -> JobState]]
    BY <1>0, <2>0, <2>1, BecomeType
  <2>3. \/ Start(KeyOf(r, i))
        \/ \E n \in Counts : Update(KeyOf(r, i), n)
        \/ Finish(KeyOf(r, i))
        \/ UNCHANGED entries
    BY <1>6 DEF JobStep, LookUp, StartJob, SearchStart, Poll, TimeOut, Fetch, Fail,
                FinishJob, Store
  <2>4. RegistryTypeOK'
    BY <1>0, <2>0, <2>3, RegistryTypes
  <2>5. UNCHANGED <<phase, batch, lost>> /\ (UNCHANGED cached \/ cached' = cached \cup {KeyOf(r, i)})
    BY <1>6 DEF JobStep, LookUp, StartJob, SearchStart, Poll, TimeOut, Fetch, Fail,
                FinishJob, Store
  <2> QED
    BY <1>0, <2>0, <2>2, <2>4, <2>5 DEF TypeOK
<1>7. ASSUME NEW k \in Keys, Evict(k)
      PROVE  TypeOK'
  BY <1>0, <1>7 DEF Evict, TypeOK, RegistryTypeOK
<1>8. ASSUME NEW k \in Keys, AgeEntry(k) \/ GetEntry(k)
      PROVE  TypeOK'
  <2>1. RegistryTypeOK'
    BY <1>0, <1>8, RegistryTypes DEF AgeEntry, GetEntry
  <2> QED
    BY <1>0, <1>8, <2>1 DEF AgeEntry, GetEntry, searchVars, TypeOK
<1>9. CASE ClearCache
  BY <1>0, <1>9 DEF ClearCache, TypeOK, RegistryTypeOK
<1>10. CASE UNCHANGED vars
  BY <1>0, <1>10 DEF vars, TypeOK, RegistryTypeOK
<1> QED
  BY <1>1, <1>2, <1>3, <1>4, <1>5, <1>6, <1>7, <1>8, <1>9, <1>10
     DEF Next, RequestStep, EnvironmentStep

(* Type correctness: the registry, the requests, their jobs and the cache  *)
(* keep their types, and no request runs past its last batch.              *)
THEOREM TypeCorrect == Spec => []TypeOK
<1>1. Init => TypeOK
  <2> SUFFICES ASSUME Init
               PROVE  TypeOK
    OBVIOUS
  <2>1. RegistryTypeOK
    BY DEF Init, RegistryInit, RegistryTypeOK
  <2>2. \A r \in Requests : 1 \in DOMAIN Batches[r]
    <3> SUFFICES ASSUME NEW r \in Requests
                 PROVE  1 \in DOMAIN Batches[r]
      OBVIOUS
    <3> QED
      BY BatchesAssumption
  <2> QED
    BY <2>1, <2>2, NoJobsType DEF Init, TypeOK, Phase
<1> QED
  BY <1>1, TypeStep, PTL DEF Spec

-----------------------------------------------------------------------------
(* Slots and threads.                                                      *)

(* No step takes a job from its thread but the job's own last steps.       *)
LEMMA JobsStayOnThread ==
    ASSUME TypeOK, SlotsAreTidy, [Next]_vars,
           NEW r \in Requests, NEW i \in Slots, job[r][i] \in OnThread
    PROVE  /\ job'[r][i] \in OnThread \cup {"done", "failed"}
           /\ batch'[r] = batch[r]
<1>0. /\ job \in [Requests -> [Slots -> JobState]]
      /\ batch \in [Requests -> Nat]
      /\ job[r][i] \notin {"none", "hit", "done", "queued", "failed", "unread", "cancelled"}
      /\ i \in Used(r)
      /\ ~Ended(r)
  <2>1. job[r][i] # "none" /\ job[r][i] \notin {"hit", "done", "queued", "failed", "unread", "cancelled"}
    BY DEF OnThread, InFlight
  <2>2. job[r] # NoJobs
    BY <2>1 DEF NoJobs
  <2> QED
    BY <2>1, <2>2 DEF SlotsAreTidy, TypeOK
<1>1. ASSUME NEW q \in Requests, Begin(q) \/ Unavailable(q) \/ NextBatch(q) \/ Answer(q) \/ GiveUp(q)
      PROVE  job'[r] = job[r] /\ batch'[r] = batch[r]
  <2>1. q # r \/ Unavailable(q)
    BY <1>0, <1>1 DEF Begin, NextBatch, Answer, GiveUp
  <2> QED
    BY <1>0, <1>1, <2>1 DEF Begin, Unavailable, NextBatch, Answer, GiveUp
<1>2. ASSUME NEW q \in Requests, Raise(q)
      PROVE  job'[r][i] = job[r][i] /\ batch'[r] = batch[r]
  BY <1>0, <1>2 DEF Raise
<1>3. ASSUME NEW q \in Requests, NEW j \in Used(q), JobStep(q, j)
      PROVE  /\ job'[r][i] \in OnThread \cup {"done", "failed"}
             /\ batch'[r] = batch[r]
  <2>1. batch' = batch
    BY <1>3 DEF JobStep, LookUp, StartJob, SearchStart, Poll, TimeOut, Fetch, Fail,
                FinishJob, Store
  <2>2. CASE q = r /\ j = i
    BY <1>0, <1>3, <2>1, <2>2 DEF JobStep, LookUp, StartJob, SearchStart, Poll, TimeOut,
                Fetch, Fail, FinishJob, Store, Become, OnThread, InFlight
  <2>3. CASE ~(q = r /\ j = i)
    <3>1. \E s \in JobState : Become(q, j, s) \/ UNCHANGED job
      BY <1>3 DEF JobStep, LookUp, StartJob, SearchStart, Poll, TimeOut, Fetch, Fail,
                  FinishJob, Store, JobState
    <3> QED
      BY <1>0, <2>1, <2>3, <3>1 DEF Become
  <2> QED
    BY <2>2, <2>3
<1>4. CASE EnvironmentStep \/ UNCHANGED vars
  BY <1>4 DEF EnvironmentStep, Evict, AgeEntry, GetEntry, ClearCache, searchVars, vars
<1> QED
  BY <1>1, <1>2, <1>3, <1>4 DEF Next, RequestStep

(* Only what has ended is reset, and only slots of the batch are used.     *)
LEMMA TidyStep == TypeOK /\ SlotsAreTidy /\ [Next]_vars => SlotsAreTidy'
<1> SUFFICES ASSUME TypeOK, SlotsAreTidy, [Next]_vars, NEW r \in Requests
             PROVE  /\ Ended(r)' => job'[r] = NoJobs
                    /\ \A i \in Slots : i \notin Used(r)' => job'[r][i] = "none"
  BY DEF SlotsAreTidy
<1>0. /\ job \in [Requests -> [Slots -> JobState]]
      /\ batch \in [Requests -> Nat]
      /\ phase \in [Requests -> Phase]
      /\ Ended(r) => job[r] = NoJobs
      /\ \A i \in Slots : i \notin Used(r) => job[r][i] = "none"
      /\ \A i \in Slots : NoJobs[i] = "none"
  BY DEF SlotsAreTidy, TypeOK, NoJobs
<1> DEFINE Same == job'[r] = job[r] /\ batch'[r] = batch[r] /\ phase'[r] = phase[r]
<1>a. ASSUME Same
      PROVE  /\ Ended(r)' => job'[r] = NoJobs
             /\ \A i \in Slots : i \notin Used(r)' => job'[r][i] = "none"
  BY <1>0, <1>a DEF Ended, Used
<1>1. ASSUME NEW q \in Requests, Begin(q)
      PROVE  /\ Ended(r)' => job'[r] = NoJobs
             /\ \A i \in Slots : i \notin Used(r)' => job'[r][i] = "none"
  <2>1. CASE q = r
    BY <1>0, <1>1, <2>1 DEF Begin, Ended, Used, LookUps
  <2>2. CASE q # r
    BY <1>0, <1>1, <1>a, <2>2 DEF Begin
  <2> QED
    BY <2>1, <2>2
<1>2. ASSUME NEW q \in Requests, Unavailable(q)
      PROVE  /\ Ended(r)' => job'[r] = NoJobs
             /\ \A i \in Slots : i \notin Used(r)' => job'[r][i] = "none"
  BY <1>0, <1>2 DEF Unavailable, Ended, Used
<1>3. ASSUME NEW q \in Requests, NextBatch(q)
      PROVE  /\ Ended(r)' => job'[r] = NoJobs
             /\ \A i \in Slots : i \notin Used(r)' => job'[r][i] = "none"
  <2>1. CASE q = r
    BY <1>0, <1>3, <2>1 DEF NextBatch, Ended, Used, LookUps
  <2>2. CASE q # r
    BY <1>0, <1>3, <1>a, <2>2 DEF NextBatch
  <2> QED
    BY <2>1, <2>2
<1>4. ASSUME NEW q \in Requests, Answer(q) \/ GiveUp(q)
      PROVE  /\ Ended(r)' => job'[r] = NoJobs
             /\ \A i \in Slots : i \notin Used(r)' => job'[r][i] = "none"
  <2>1. CASE q = r
    <3>1. job'[r] = NoJobs
      BY <1>0, <1>4, <2>1 DEF Answer, GiveUp
    <3> QED
      BY <1>0, <3>1
  <2>2. CASE q # r
    BY <1>0, <1>4, <1>a, <2>2 DEF Answer, GiveUp
  <2> QED
    BY <2>1, <2>2
<1>5. ASSUME NEW q \in Requests, Raise(q)
      PROVE  /\ Ended(r)' => job'[r] = NoJobs
             /\ \A i \in Slots : i \notin Used(r)' => job'[r][i] = "none"
  <2>1. CASE q = r
    BY <1>0, <1>5, <2>1 DEF Raise, Ended, Used
  <2>2. CASE q # r
    BY <1>0, <1>5, <1>a, <2>2 DEF Raise
  <2> QED
    BY <2>1, <2>2
<1>6. ASSUME NEW q \in Requests, NEW j \in Used(q), JobStep(q, j)
      PROVE  /\ Ended(r)' => job'[r] = NoJobs
             /\ \A i \in Slots : i \notin Used(r)' => job'[r][i] = "none"
  <2>1. UNCHANGED <<phase, batch>> /\ \E s \in JobState : Become(q, j, s) \/ UNCHANGED job
    BY <1>6 DEF JobStep, LookUp, StartJob, SearchStart, Poll, TimeOut, Fetch, Fail,
                FinishJob, Store, JobState
  <2>2. CASE q = r
    <3>1. job[r][j] # "none"
      BY <1>6, <2>2 DEF JobStep, LookUp, StartJob, SearchStart, Poll, TimeOut, Fetch, Fail,
                FinishJob, Store
    <3>2. j \in Slots
      BY TypeFacts
    <3>3. ~Ended(r)
      BY <1>0, <3>1, <3>2
    <3> QED
      BY <1>0, <2>1, <2>2, <3>3 DEF Become, Ended, Used
  <2>3. CASE q # r
    BY <1>0, <1>a, <2>1, <2>3 DEF Become
  <2> QED
    BY <2>2, <2>3
<1>7. CASE EnvironmentStep \/ UNCHANGED vars
  BY <1>7, <1>a DEF EnvironmentStep, Evict, AgeEntry, GetEntry, ClearCache, searchVars, vars
<1> QED
  BY <1>1, <1>2, <1>3, <1>4, <1>5, <1>6, <1>7 DEF Next, RequestStep

(* A request that is not in a batch has no jobs, and a batch has jobs in   *)
(* its own slots only.                                                     *)
THEOREM Tidy == Spec => []SlotsAreTidy
<1>1. Init => SlotsAreTidy
  BY DEF Init, SlotsAreTidy, NoJobs
<1> QED
  BY <1>1, TidyStep, TypeCorrect, PTL DEF Spec

(* No thread outlives its request: whatever ends a request, a job that is  *)
(* on a pool thread stays there until it is done or has failed.            *)
THEOREM NoJobIsAbandoned == Spec => NoJobAbandoned
<1>1. TypeOK /\ SlotsAreTidy /\ [Next]_vars =>
        [\A r \in Requests : \A i \in Slots :
            job[r][i] \in OnThread => job'[r][i] \in OnThread \cup {"done", "failed"}]_vars
  BY JobsStayOnThread
<1> QED
  BY <1>1, Tidy, TypeCorrect, PTL DEF Spec, NoJobAbandoned

-----------------------------------------------------------------------------
(* The progress bar is never stuck.                                        *)

(* A job in flight before and after a step is a search of the same key.    *)
LEMMA StillSearching ==
    ASSUME TypeOK, SlotsAreTidy, [Next]_vars, NEW k,
           NEW r \in Requests, NEW i \in Used(r),
           job[r][i] \in InFlight, KeyOf(r, i) = k,
           job'[r][i] \in InFlight
    PROVE  Searching(k)'
<1>1. i \in Slots /\ job[r][i] \in OnThread
  BY TypeFacts DEF OnThread
<1>2. batch'[r] = batch[r]
  BY <1>1, JobsStayOnThread
<1>3. i \in Used(r)' /\ KeyOf(r, i)' = k
  BY <1>2 DEF Used, KeyOf
<1> QED
  BY <1>3 DEF Searching

LEMMA RunningStep ==
    TypeOK /\ SlotsAreTidy /\ RunningEntryIsSearched /\ [Next]_vars
        => RunningEntryIsSearched'
<1> SUFFICES ASSUME TypeOK, SlotsAreTidy, RunningEntryIsSearched, [Next]_vars,
                    NEW k \in Keys, entries'[k].status = "running"
             PROVE  Searching(k)'
  BY DEF RunningEntryIsSearched
<1>0. /\ entries \in [Keys -> Entry \cup {NoEntry}]
      /\ job \in [Requests -> [Slots -> JobState]]
      /\ NoEntry.status = "none"
  BY DEF TypeOK, RegistryTypeOK, NoEntry
<1>1. CASE entries[k].status # "running"
  <2>a. \E r \in Requests : \E i \in Used(r) : StartJob(r, i) /\ KeyOf(r, i) = k
    <3>1. ASSUME NEW r \in Requests, NEW i \in Used(r), JobStep(r, i)
          PROVE  StartJob(r, i) /\ KeyOf(r, i) = k
      <4>0. KeyOf(r, i) \in Keys
        BY TypeFacts
      <4>1. CASE StartJob(r, i)
        <5>1. entries' = [entries EXCEPT ![KeyOf(r, i)] = FreshEntry]
          BY <4>1 DEF StartJob, Start
        <5> QED
          BY <1>0, <1>1, <4>0, <4>1, <5>1
      <4>2. CASE \E n \in Counts : Update(KeyOf(r, i), n)
        <5>1. PICK n \in Counts : Update(KeyOf(r, i), n)
          BY <4>2
        <5>2. entries'[k].status = entries[k].status
          <6>1. CASE entries[KeyOf(r, i)] = NoEntry
            BY <5>1, <6>1 DEF Update
          <6>2. CASE entries[KeyOf(r, i)] # NoEntry
            <7>1. entries' = [entries EXCEPT ![KeyOf(r, i)] = [entries[KeyOf(r, i)] EXCEPT !.results = n]]
              BY <5>1, <6>2 DEF Update
            <7>2. entries[KeyOf(r, i)] \in Entry
              BY <1>0, <4>0, <6>2
            <7>3. [entries[KeyOf(r, i)] EXCEPT !.results = n].status = entries[KeyOf(r, i)].status
              BY <7>2 DEF Entry
            <7> QED
              BY <1>0, <4>0, <7>1, <7>3
          <6> QED
            BY <6>1, <6>2
        <5> QED
          BY <1>1, <5>2
      <4>3. CASE Finish(KeyOf(r, i))
        <5>1. entries'[k].status # "running"
          <6>1. CASE entries[KeyOf(r, i)].status = "running"
            <7>1. entries' = [entries EXCEPT ![KeyOf(r, i)] = [entries[KeyOf(r, i)] EXCEPT !.status = "finished"]]
              BY <4>3, <6>1 DEF Finish
            <7>2. k # KeyOf(r, i)
              BY <1>1, <6>1
            <7> QED
              BY <1>0, <1>1, <4>0, <7>1, <7>2
          <6>2. CASE entries[KeyOf(r, i)].status # "running"
            BY <1>1, <4>3, <6>2 DEF Finish
          <6> QED
            BY <6>1, <6>2
        <5> QED
          BY <5>1
      <4>4. CASE UNCHANGED entries
        BY <1>1, <4>4
      <4> QED
        BY <3>1, <4>1, <4>2, <4>3, <4>4
           DEF JobStep, LookUp, SearchStart, Poll, TimeOut, Fetch, Fail, FinishJob, Store
    <3>2. ASSUME NEW q \in Keys, AgeEntry(q) \/ GetEntry(q)
          PROVE  FALSE
      <4>1. CASE AgeEntry(q)
        <5>1. /\ entries[q].status = "finished"
              /\ entries' = [entries EXCEPT ![q] = [entries[q] EXCEPT !.status = "aged"]]
          BY <4>1 DEF AgeEntry, Age
        <5>2. entries[q] \in Entry
          BY <1>0, <5>1
        <5>3. [entries[q] EXCEPT !.status = "aged"].status = "aged"
          BY <5>2 DEF Entry
        <5> QED
          BY <1>0, <1>1, <5>1, <5>3
      <4>2. CASE GetEntry(q)
        BY <1>0, <1>1, <4>2 DEF GetEntry, DropAged
      <4> QED
        BY <3>2, <4>1, <4>2
    <3>3. entries' # entries
      BY <1>1
    <3> QED
      BY <3>1, <3>2, <3>3
         DEF Next, RequestStep, EnvironmentStep, Begin, Unavailable, NextBatch, Answer, Raise,
             GiveUp, Evict, ClearCache, vars
  <2>b. PICK r \in Requests : \E i \in Used(r) : StartJob(r, i) /\ KeyOf(r, i) = k
    BY <2>a
  <2>1. PICK i \in Used(r) : StartJob(r, i) /\ KeyOf(r, i) = k
    BY <2>b
  <2>2. i \in Slots
    BY TypeFacts
  <2>3. job'[r][i] \in InFlight /\ batch' = batch
    BY <1>0, <2>1, <2>2 DEF StartJob, Become, InFlight
  <2>4. i \in Used(r)' /\ KeyOf(r, i)' = k
    BY <2>1, <2>3 DEF Used, KeyOf
  <2> QED
    BY <2>3, <2>4 DEF Searching
<1>2. CASE entries[k].status = "running"
  <2>a. PICK r \in Requests : \E i \in Used(r) : job[r][i] \in InFlight /\ KeyOf(r, i) = k
    BY <1>2 DEF RunningEntryIsSearched, Searching
  <2>1. PICK i \in Used(r) : job[r][i] \in InFlight /\ KeyOf(r, i) = k
    BY <2>a
  <2>2. i \in Slots /\ job[r][i] \in OnThread
    BY <2>1, TypeFacts DEF OnThread
  <2>3. CASE job'[r][i] \in InFlight
    BY <2>1, <2>3, StillSearching
  <2>4. CASE job'[r][i] \notin InFlight
    <3>1. FinishJob(r, i)
      <4>1. job'[r] # job[r] /\ job'[r][i] \in {"storing", "done", "failed"}
        BY <2>1, <2>2, <2>4, JobsStayOnThread DEF OnThread
      <4>2. ASSUME NEW q \in Requests, NEW j \in Used(q), JobStep(q, j)
            PROVE  FinishJob(r, i)
        <5>1. \E s \in JobState : Become(q, j, s) \/ UNCHANGED job
          BY <4>2 DEF JobStep, LookUp, StartJob, SearchStart, Poll, TimeOut, Fetch, Fail,
                      FinishJob, Store, JobState
        <5>2. q = r /\ j = i
          BY <1>0, <2>1, <2>2, <2>4, <5>1 DEF Become
        <5>3. job[r][i] \notin {"unread", "queued", "storing"}
          BY <2>1 DEF InFlight
        <5> QED
          BY <1>0, <2>2, <2>4, <4>2, <5>2, <5>3
             DEF JobStep, LookUp, StartJob, SearchStart, Poll, TimeOut, Fetch, Fail, Store,
                 Become, InFlight
      <4>3. ASSUME NEW q \in Requests,
                   Begin(q) \/ Unavailable(q) \/ NextBatch(q) \/ Answer(q) \/ GiveUp(q)
            PROVE  FALSE
        <5>1. q = r /\ ~Unavailable(q)
          BY <1>0, <4>1, <4>3 DEF Begin, Unavailable, NextBatch, Answer, GiveUp
        <5>2. ~Ended(r)
          <6>1. job[r] # NoJobs
            BY <2>1, <2>2 DEF NoJobs, InFlight
          <6> QED
            BY <6>1 DEF SlotsAreTidy
        <5> QED
          BY <2>1, <2>2, <4>3, <5>1, <5>2
             DEF Begin, NextBatch, Answer, GiveUp, OnThread, InFlight
      <4>4. ASSUME NEW q \in Requests, Raise(q)
            PROVE  FALSE
        BY <1>0, <2>1, <2>2, <2>4, <4>4 DEF Raise, InFlight
      <4> QED
        BY <4>1, <4>2, <4>3, <4>4
           DEF Next, RequestStep, EnvironmentStep, Evict, AgeEntry, GetEntry, ClearCache,
               searchVars, vars
    <3>2. entries'[k].status # "running"
      <4>1. entries' = [entries EXCEPT ![k] = [entries[k] EXCEPT !.status = "finished"]]
        BY <1>2, <2>1, <3>1 DEF FinishJob, Finish
      <4>2. entries[k] \in Entry
        BY <1>0, <1>2
      <4>3. [entries[k] EXCEPT !.status = "finished"].status = "finished"
        BY <4>2 DEF Entry
      <4> QED
        BY <1>0, <4>1, <4>3
    <3> QED
      BY <3>2
  <2> QED
    BY <2>3, <2>4
<1> QED
  BY <1>1, <1>2

(* An entry of the registry never reads as running without a job in flight *)
(* for its key, for any requests, patterns and concurrency.                *)
THEOREM RunningIsSearched == Spec => []RunningEntryIsSearched
<1>1. Init => RunningEntryIsSearched
  BY DEF Init, RegistryInit, NoEntry, RunningEntryIsSearched
<1> QED
  BY <1>1, RunningStep, Tidy, TypeCorrect, PTL DEF Spec

-----------------------------------------------------------------------------
(* What a request was served stays served.                                 *)

(* A step that is none of the request's own keeps what it was served.      *)
LEMMA KeptStep ==
    ASSUME TypeOK, [Next]_vars, NEW r \in Requests, NEW k, Kept(r, k),
           ~Begin(r)
    PROVE  Kept(r, k)'
<1>0. lost \in [Requests -> SUBSET Keys]
  BY DEF TypeOK
<1>1. ASSUME NEW q \in Requests, RequestStep(q)
      PROVE  Kept(r, k)'
  <2>1. CASE Begin(q)
    <3>1. q # r
      BY <2>1
    <3> QED
      BY <1>0, <2>1, <3>1 DEF Begin, Kept
  <2>2. CASE ~Begin(q)
    BY <1>1, <2>2
       DEF RequestStep, Unavailable, NextBatch, Answer, Raise, GiveUp, JobStep, LookUp, StartJob,
           SearchStart, Poll, TimeOut, Fetch, Fail, FinishJob, Store, Kept
  <2> QED
    BY <2>1, <2>2
<1>2. ASSUME NEW q \in Keys, Evict(q)
      PROVE  Kept(r, k)'
  <2>1. lost'[r] = lost[r] \cup {q} /\ cached' = cached \ {q}
    BY <1>0, <1>2 DEF Evict
  <2> QED
    BY <2>1 DEF Kept
<1>3. CASE ClearCache
  <2>1. lost'[r] = lost[r] \cup cached
    BY <1>0, <1>3 DEF ClearCache
  <2> QED
    BY <2>1 DEF Kept
<1>4. ASSUME NEW q \in Keys, AgeEntry(q) \/ GetEntry(q)
      PROVE  Kept(r, k)'
  BY <1>4 DEF AgeEntry, GetEntry, searchVars, Kept
<1>5. CASE UNCHANGED vars
  BY <1>5 DEF vars, Kept
<1> QED
  BY <1>1, <1>2, <1>3, <1>4, <1>5 DEF Next, EnvironmentStep

LEMMA ResultsStep ==
    TypeOK /\ SlotsAreTidy /\ ResultsKept /\ [Next]_vars => ResultsKept'
<1> SUFFICES ASSUME TypeOK, SlotsAreTidy, ResultsKept, [Next]_vars, NEW r \in Requests
             PROVE  /\ phase'[r] = "running" =>
                        \A i \in Used(r)' :
                            job'[r][i] \in {"hit", "done"} => Kept(r, KeyOf(r, i))'
                    /\ (phase'[r] = "running" /\ batch'[r] > 1) \/ phase'[r] = "answered" =>
                        \A k \in KeysOf(r) : Kept(r, k)'
  BY DEF ResultsKept, KeysOf
<1> DEFINE Served == phase[r] = "running" =>
                        \A i \in Used(r) : job[r][i] \in {"hit", "done"} => Kept(r, KeyOf(r, i))
           All == (phase[r] = "running" /\ batch[r] > 1) \/ phase[r] = "answered" =>
                        \A k \in KeysOf(r) : Kept(r, k)
           ServedThen == phase'[r] = "running" =>
                        \A i \in Used(r)' :
                            job'[r][i] \in {"hit", "done"} => Kept(r, KeyOf(r, i))'
           AllThen == (phase'[r] = "running" /\ batch'[r] > 1) \/ phase'[r] = "answered" =>
                        \A k \in KeysOf(r) : Kept(r, k)'
<1>0. /\ Served
      /\ All
      /\ job \in [Requests -> [Slots -> JobState]]
      /\ phase \in [Requests -> Phase]
      /\ batch \in [Requests -> Nat]
      /\ Used(r) \subseteq Slots
  BY TypeFacts DEF ResultsKept, TypeOK
\* A step that changes neither the request's phase nor its batch, and serves
\* no slot that is not in the cache, keeps both parts.
<1>a. ASSUME ~Begin(r), phase'[r] = phase[r], batch'[r] = batch[r],
             \A i \in Used(r) : job'[r][i] \in {"hit", "done"} =>
                    job[r][i] \in {"hit", "done"} \/ Kept(r, KeyOf(r, i))'
      PROVE  ServedThen /\ AllThen
  <2>1. Used(r)' = Used(r) /\ \A i : KeyOf(r, i)' = KeyOf(r, i)
    BY <1>a DEF Used, KeyOf
  <2>2. ServedThen
    <3> SUFFICES ASSUME phase[r] = "running", NEW i \in Used(r), job'[r][i] \in {"hit", "done"}
                 PROVE  Kept(r, KeyOf(r, i))'
      BY <1>a, <2>1
    <3>1. CASE job[r][i] \in {"hit", "done"}
      <4>1. Kept(r, KeyOf(r, i))
        BY <1>0, <3>1
      <4>2. PICK k : k = KeyOf(r, i)
        OBVIOUS
      <4>3. Kept(r, k)'
        BY <1>a, <4>1, <4>2, KeptStep
      <4> QED
        BY <2>1, <4>2, <4>3 DEF Kept
    <3> QED
      BY <1>a, <3>1
  <2>3. AllThen
    <3> SUFFICES ASSUME NEW k \in KeysOf(r), Kept(r, k)
                 PROVE  Kept(r, k)'
      BY <1>0, <1>a
    <3> QED
      BY <1>a, KeptStep
  <2> QED
    BY <2>2, <2>3
<1>1. ASSUME NEW q \in Requests, Begin(q) \/ Unavailable(q) \/ GiveUp(q)
      PROVE  ServedThen /\ AllThen
  <2>1. CASE q # r
    <3>1. ~Begin(r)
      <4>1. CASE Begin(r) /\ (Begin(q) \/ GiveUp(q))
        <5>1. phase'[r] = phase[r]
          BY <1>0, <2>1, <4>1 DEF Begin, GiveUp
        <5> QED
          BY <1>0, <4>1, <5>1 DEF Begin, Ended
      <4>2. CASE Begin(r) /\ Unavailable(q)
        BY <1>0, <2>1, <4>2 DEF Begin, Unavailable, Ended
      <4> QED
        BY <1>1, <4>1, <4>2
    <3> QED
      BY <1>0, <1>1, <1>a, <2>1, <3>1 DEF Begin, Unavailable, GiveUp
  <2>2. CASE q = r /\ Begin(r)
    <3>1. phase'[r] = "running" /\ batch'[r] = 1 /\ job'[r] = LookUps(r, 1)
      BY <1>0, <2>2 DEF Begin
    <3>2. Used(r)' \subseteq Slots
      BY <3>1, BatchFacts, BatchesAssumption DEF Used
    <3> QED
      BY <3>1, <3>2 DEF LookUps
  <2>3. CASE q = r /\ (Unavailable(r) \/ GiveUp(r))
    <3>1. phase'[r] = "failed"
      BY <1>0, <2>3 DEF Unavailable, GiveUp
    <3> QED
      BY <3>1
  <2> QED
    BY <1>1, <2>1, <2>2, <2>3
<1>b. ASSUME phase' = phase \/ phase[r] \notin {"idle", "answered", "failed"}
      PROVE  ~Begin(r)
  BY <1>0, <1>b DEF Begin, Ended
<1>2. ASSUME NEW q \in Requests, NextBatch(q)
      PROVE  ServedThen /\ AllThen
  <2>1. CASE q # r
    BY <1>0, <1>2, <1>a, <1>b, <2>1 DEF NextBatch
  <2>2. CASE q = r
    <3>1. /\ phase[r] = "running" /\ phase' = phase
          /\ batch'[r] = batch[r] + 1
          /\ job'[r] = LookUps(r, batch[r] + 1)
          /\ batch[r] < Len(Batches[r])
          /\ \A i \in Used(r) : job[r][i] \in {"hit", "done"}
      BY <1>0, <1>2, <2>2 DEF NextBatch
    <3>2. batch[r] + 1 \in DOMAIN Batches[r] /\ batch[r] \in DOMAIN Batches[r]
      BY <3>1, TypeFacts, BatchFacts
    <3>3. ServedThen
      <4>1. Used(r)' \subseteq Slots
        BY <3>1, <3>2, BatchFacts DEF Used
      <4> QED
        BY <3>1, <4>1 DEF LookUps
    <3>4. \A k \in KeysOf(r) : Kept(r, k)
      <4>1. CASE batch[r] > 1
        BY <1>0, <3>1, <4>1
      <4>2. CASE batch[r] = 1
        <5> SUFFICES ASSUME NEW i \in Used(r)
                     PROVE  Kept(r, KeyOf(r, i))
          BY <4>2 DEF KeysOf, Used, KeyOf
        <5> QED
          BY <1>0, <3>1
      <4> QED
        BY <1>0, <3>2, <4>1, <4>2, BatchFacts
    <3>5. AllThen
      BY <1>b, <3>1, <3>4, KeptStep
    <3> QED
      BY <3>3, <3>5
  <2> QED
    BY <2>1, <2>2
<1>3. ASSUME NEW q \in Requests, Answer(q)
      PROVE  ServedThen /\ AllThen
  <2>1. CASE q # r
    <3>1. phase'[r] = phase[r] /\ batch'[r] = batch[r] /\ job'[r] = job[r]
      BY <1>0, <1>3, <2>1 DEF Answer
    <3>2. ~Begin(r)
      BY <1>0, <3>1 DEF Begin, Ended
    <3> QED
      BY <1>a, <3>1, <3>2
  <2>2. CASE q = r
    <3>1. phase[r] = "running" /\ phase'[r] = "answered" /\ batch[r] > 1
      BY <1>0, <1>3, <2>2, BatchesAssumption, TypeFacts, BatchFacts DEF Answer
    <3>2. ~Begin(r)
      BY <3>1 DEF Begin, Ended
    <3> QED
      BY <1>0, <3>1, <3>2, KeptStep
  <2> QED
    BY <2>1, <2>2
<1>4. ASSUME NEW q \in Requests, Raise(q)
      PROVE  ServedThen /\ AllThen
  <2>1. CASE q # r
    <3>1. phase'[r] = phase[r] /\ batch'[r] = batch[r] /\ job'[r] = job[r]
      BY <1>0, <1>4, <2>1 DEF Raise
    <3>2. ~Begin(r)
      BY <1>0, <3>1 DEF Begin, Ended
    <3> QED
      BY <1>a, <3>1, <3>2
  <2>2. CASE q = r
    BY <1>0, <1>4, <2>2 DEF Raise
  <2> QED
    BY <2>1, <2>2
<1>5. ASSUME NEW q \in Requests, NEW j \in Used(q), JobStep(q, j)
      PROVE  ServedThen /\ AllThen
  <2>1. /\ UNCHANGED <<phase, batch>>
        /\ j \in Slots
    BY <1>5, TypeFacts DEF JobStep, LookUp, StartJob, SearchStart, Poll, TimeOut, Fetch, Fail,
                FinishJob, Store
  <2>2. \A i \in Used(r) : job'[r][i] \in {"hit", "done"} =>
                    job[r][i] \in {"hit", "done"} \/ Kept(r, KeyOf(r, i))'
    <3> SUFFICES ASSUME NEW i \in Used(r), job'[r][i] \in {"hit", "done"},
                        job[r][i] \notin {"hit", "done"}
                 PROVE  Kept(r, KeyOf(r, i))'
      OBVIOUS
    <3>1. \E s \in JobState : Become(q, j, s) \/ UNCHANGED job
      BY <1>5 DEF JobStep, LookUp, StartJob, SearchStart, Poll, TimeOut, Fetch, Fail,
                  FinishJob, Store, JobState
    <3>2. q = r /\ j = i
      BY <1>0, <2>1, <3>1 DEF Become
    <3>3. CASE LookUp(r, i)
      BY <1>0, <2>1, <3>2, <3>3 DEF LookUp, Become, Kept, KeyOf
    <3>4. CASE Store(r, i)
      BY <2>1, <3>4 DEF Store, Kept, KeyOf
    <3>5. CASE ~LookUp(r, i) /\ ~Store(r, i)
      BY <1>0, <1>5, <2>1, <3>2, <3>5
         DEF JobStep, StartJob, SearchStart, Poll, TimeOut, Fetch, Fail, FinishJob, Become
    <3> QED
      BY <3>3, <3>4, <3>5
  <2> QED
    BY <1>a, <1>b, <2>1, <2>2
<1>6. CASE EnvironmentStep \/ UNCHANGED vars
  <2>1. UNCHANGED <<phase, batch, job>>
    BY <1>6 DEF EnvironmentStep, Evict, AgeEntry, GetEntry, ClearCache, searchVars, vars
  <2> QED
    BY <1>a, <1>b, <2>1
<1> QED
  BY <1>1, <1>2, <1>3, <1>4, <1>5, <1>6 DEF Next, RequestStep

(* What a request was served stays in the cache, or was evicted since it   *)
(* began.                                                                  *)
THEOREM ResultsAreKept == Spec => []ResultsKept
<1>1. Init => ResultsKept
  BY DEF Init, ResultsKept, NoJobs
<1> QED
  BY <1>1, ResultsStep, Tidy, TypeCorrect, PTL DEF Spec

-----------------------------------------------------------------------------
(* What the cache and the registry say of a finished search.               *)

LEMMA DoneFacts ==
    ASSUME TypeOK, RunningEntryIsSearched, ResultsKept
    PROVE  AnsweredReportsDone
<1> SUFFICES ASSUME NEW r \in Requests, phase[r] = "answered",
                    KeysOf(r) \cap lost[r] = {},
                    \A k \in KeysOf(r) : ~Searching(k)
             PROVE  Aggregate(KeysOf(r), cached) = "DONE"
  BY DEF AnsweredReportsDone
<1>1. 1 \in DOMAIN Batches[r] /\ KeysOf(r) \subseteq Keys
  <2>1. 1 \in DOMAIN Batches[r]
    BY BatchesAssumption
  <2> QED
    BY <2>1, BatchFacts DEF KeysOf
<1>2. KeysOf(r) # {}
  <2>1. 1 \in DOMAIN Batches[r][1]
    BY BatchesAssumption
  <2> QED
    BY <2>1 DEF KeysOf
<1>3. ASSUME NEW k \in KeysOf(r)
      PROVE  StateOf(k, cached) = "done"
  <2>1. k \in cached
    BY DEF ResultsKept, Kept
  <2>2. entries[k].status # "running"
    BY <1>1 DEF RunningEntryIsSearched
  <2> QED
    BY <2>1, <2>2 DEF StateOf
<1> QED
  BY <1>2, <1>3 DEF Aggregate

(* After an answer the progress endpoint reports DONE, unless the cache    *)
(* lost a key since or someone is searching one again.                     *)
THEOREM AnsweredIsDone == Spec => []AnsweredReportsDone
BY DoneFacts, TypeCorrect, RunningIsSearched, ResultsAreKept, PTL

LEMMA MissStep ==
    TypeOK /\ ResultsKept /\ PassMissIsEviction /\ [Next]_vars => PassMissIsEviction'
<1> SUFFICES ASSUME TypeOK, ResultsKept, PassMissIsEviction, [Next]_vars,
                    NEW r \in Requests \ Overrides,
                    phase'[r] = "running", batch'[r] > 1,
                    NEW i \in Used(r)', job'[r][i] \notin {"unread", "hit"}
             PROVE  KeyOf(r, i)' \in lost'[r]
  BY DEF PassMissIsEviction
<1>0. /\ job \in [Requests -> [Slots -> JobState]]
      /\ phase \in [Requests -> Phase]
      /\ batch \in [Requests -> Nat]
      /\ lost \in [Requests -> SUBSET Keys]
      /\ batch[r] \in DOMAIN Batches[r]
  BY DEF TypeOK
<1>1. ~Begin(r) /\ ~NextBatch(r)
  <2>1. CASE Begin(r)
    BY <1>0, <2>1 DEF Begin
  <2>2. CASE NextBatch(r)
    <3>1. batch'[r] = batch[r] + 1 /\ batch[r] + 1 \in DOMAIN Batches[r]
      BY <1>0, <2>2, BatchFacts DEF NextBatch
    <3>2. i \in Slots /\ i \in DOMAIN Batches[r][batch[r] + 1]
      BY <3>1, BatchFacts DEF Used
    <3>3. job'[r][i] = "unread"
      BY <1>0, <2>2, <3>2 DEF NextBatch, LookUps
    <3> QED
      BY <3>3
  <2> QED
    BY <2>1, <2>2
<1>2. phase[r] = "running" /\ batch'[r] = batch[r] /\ lost[r] \subseteq lost'[r]
  <2>1. ASSUME NEW q \in Requests, RequestStep(q)
        PROVE  phase[r] = "running" /\ batch'[r] = batch[r] /\ lost[r] \subseteq lost'[r]
    <3>1. CASE q = r
      <4>1. ~Unavailable(r) /\ ~Answer(r) /\ ~Raise(r) /\ ~GiveUp(r)
        BY <1>0 DEF Unavailable, Answer, Raise, GiveUp
      <4> QED
        BY <1>1, <2>1, <3>1, <4>1
           DEF RequestStep, JobStep, LookUp, StartJob, SearchStart, Poll, TimeOut, Fetch, Fail,
               FinishJob, Store
    <3>2. CASE q # r
      BY <1>0, <2>1, <3>2
         DEF RequestStep, Begin, Unavailable, NextBatch, Answer, Raise, GiveUp, JobStep, LookUp,
             StartJob, SearchStart, Poll, TimeOut, Fetch, Fail, FinishJob, Store
    <3> QED
      BY <3>1, <3>2
  <2>2. ASSUME EnvironmentStep \/ UNCHANGED vars
        PROVE  phase[r] = "running" /\ batch'[r] = batch[r] /\ lost[r] \subseteq lost'[r]
    BY <1>0, <2>2 DEF EnvironmentStep, Evict, AgeEntry, GetEntry, ClearCache, searchVars, vars
  <2> QED
    BY <2>1, <2>2 DEF Next
<1>3. Used(r)' = Used(r) /\ KeyOf(r, i)' = KeyOf(r, i) /\ i \in Slots
  BY <1>2, TypeFacts DEF Used, KeyOf
<1>4. CASE job[r][i] \notin {"unread", "hit"}
  BY <1>2, <1>3, <1>4 DEF PassMissIsEviction
<1>5. CASE job[r][i] \in {"unread", "hit"}
  <2>1. LookUp(r, i) /\ job'[r][i] # job[r][i]
    <3>1. ASSUME NEW q \in Requests, NEW j \in Used(q), JobStep(q, j)
          PROVE  LookUp(r, i)
      <4>1. \E s \in JobState : Become(q, j, s) \/ UNCHANGED job
        BY <3>1 DEF JobStep, LookUp, StartJob, SearchStart, Poll, TimeOut, Fetch, Fail,
                    FinishJob, Store, JobState
      <4>2. job'[r][i] # job[r][i]
        BY <1>5
      <4>3. q = r /\ j = i
        BY <1>0, <1>3, <4>1, <4>2 DEF Become
      <4> QED
        BY <1>5, <3>1, <4>3
           DEF JobStep, StartJob, SearchStart, Poll, TimeOut, Fetch, Fail, FinishJob, Store
    <3>2. job'[r][i] # job[r][i]
      BY <1>5
    <3>3. ASSUME NEW q \in Requests,
                 \/ Begin(q) \/ Unavailable(q) \/ NextBatch(q) \/ Answer(q)
                 \/ Raise(q) \/ GiveUp(q)
          PROVE  FALSE
      <4>1. job'[r] # job[r]
        BY <3>2
      <4>2. q = r
        BY <1>0, <3>3, <4>1 DEF Begin, Unavailable, NextBatch, Answer, Raise, GiveUp
      <4> QED
        BY <1>0, <1>1, <3>3, <4>1, <4>2 DEF Unavailable, Answer, Raise, GiveUp
    <3> QED
      BY <3>1, <3>2, <3>3
         DEF Next, RequestStep, EnvironmentStep, Evict, AgeEntry, GetEntry, ClearCache,
             searchVars, vars
  <2>2. KeyOf(r, i) \notin cached
    BY <1>0, <1>3, <2>1 DEF LookUp, Become
  <2>3. Kept(r, KeyOf(r, i))
    <3>1. KeyOf(r, i) \in KeysOf(r)
      BY <1>0, <1>3, PassKeys DEF KeyOf, Used
    <3> QED
      BY <1>2, <3>1 DEF ResultsKept
  <2> QED
    BY <1>2, <1>3, <2>2, <2>3 DEF Kept
<1> QED
  BY <1>4, <1>5

(* What the prefetch is for: past it, a request without a timeout override *)
(* runs a plugin search again only for a key the cache lost meanwhile.     *)
THEOREM PassMissesOnlyEvicted == Spec => []PassMissIsEviction
<1>1. Init => PassMissIsEviction
  BY DEF Init, PassMissIsEviction
<1> QED
  BY <1>1, MissStep, ResultsAreKept, TypeCorrect, PTL DEF Spec
=============================================================================
