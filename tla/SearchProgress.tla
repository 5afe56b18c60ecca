--------------------------- MODULE SearchProgress ---------------------------
(***************************************************************************)
(* The registry of torrent searches in flight (services/search_progress.py)*)
(* as the search threads and the progress endpoint use it.                 *)
(*                                                                         *)
(* The registry is a dictionary behind a lock, so every one of its methods *)
(* is one atomic step.  A key is the case-folded pattern with its category.*)
(* The clock is abstracted to the one comparison the code makes with it:   *)
(* an entry is `aged' once it finished longer than the retention ago.      *)
(***************************************************************************)
EXTENDS Naturals, FiniteSets

CONSTANTS
    Keys,           \* the (folded pattern, category) pairs
    MaxResults      \* bound: the largest result count a poll may report

ASSUME MaxResultsAssumption == MaxResults \in Nat

VARIABLE entries    \* the dictionary: [Keys -> Entry \cup {NoEntry}]

Counts == 0 .. MaxResults

(* PatternProgress: "running" has no finished_at, "finished" has one, and   *)
(* "aged" has one that lies further back than the retention.               *)
Entry == [status : {"running", "finished", "aged"}, results : Counts]

NoEntry == [status |-> "none", results |-> 0]

FreshEntry == [status |-> "running", results |-> 0]

RegistryTypeOK == entries \in [Keys -> Entry \cup {NoEntry}]

RegistryInit == entries = [k \in Keys |-> NoEntry]

-----------------------------------------------------------------------------
(* The methods, each the effect of one locked section.                     *)

\* start: whatever was there is replaced.
Start(k) == entries' = [entries EXCEPT ![k] = FreshEntry]

\* Mutant: update without the check for a missing entry.
UpdateBlindly(k, n) == entries' = [entries EXCEPT ![k].results = n]

\* update: a finished entry takes the new count too.
Update(k, n) ==
    entries' = IF entries[k] = NoEntry
               THEN entries
               ELSE [entries EXCEPT ![k].results = n]

\* finish: the first one counts, a later one changes nothing.
Finish(k) ==
    entries' = IF entries[k].status = "running"
               THEN [entries EXCEPT ![k].status = "finished"]
               ELSE entries

\* The clock passes the retention of a finished entry.
Age(k) ==
    /\ entries[k].status = "finished"
    /\ entries' = [entries EXCEPT ![k].status = "aged"]

\* get, when it drops: the only place an entry ever leaves the dictionary.
DropAged(k) ==
    /\ entries[k].status = "aged"
    /\ entries' = [entries EXCEPT ![k] = NoEntry]

-----------------------------------------------------------------------------
(* What a read returns.                                                    *)

\* Mutant: a pattern without an entry counts as not started.
StateOfEntryOnly(k, cached) ==
    CASE entries[k].status = "running"  -> "running"
      [] entries[k].status = "finished" -> "done"
      [] OTHER -> "none"

\* _state_of: a live entry wins over a cache hit.
StateOf(k, cached) ==
    CASE entries[k].status = "running"  -> "running"
      [] entries[k].status = "finished" -> "done"
      [] OTHER -> IF k \in cached THEN "done" ELSE "none"

\* aggregate, for the set of distinct keys a search needs.
Aggregate(keys, cached) ==
    CASE \E k \in keys : StateOf(k, cached) = "running" -> "RUNNING"
      [] /\ keys # {}
         /\ \A k \in keys : StateOf(k, cached) = "done" -> "DONE"
      [] OTHER -> "IDLE"
=============================================================================
