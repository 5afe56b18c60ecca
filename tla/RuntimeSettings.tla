-------------------------- MODULE RuntimeSettings --------------------------
(***************************************************************************)
(* The runtime settings (core/settings.py): overrides in memory, one JSON  *)
(* document on disk, and the live configuration they are applied to.       *)
(*                                                                         *)
(* set() and reset() run on request threads without a lock, so their steps *)
(* interleave: the override changes in memory, the whole map is dumped to  *)
(* text, the file is opened (and so truncated), the text is written, and   *)
(* the value is set on the configuration.  Saving may raise, and the       *)
(* process may die between any two steps.                                  *)
(***************************************************************************)
EXTENDS Naturals, FiniteSets

CONSTANTS
    Callers,        \* the request threads that change settings
    SettingKeys,    \* the declared settings
    Values,         \* their values
    NoOverride,
    EnvValues,      \* [SettingKeys -> Values]: the .env layer
    Torn,           \* the document on disk when it cannot be parsed
    TextLength,     \* [Overrides -> Nat]: the length of the text json.dumps makes
    SaveMayFail,    \* whether saving may raise OSError
    CrashMidWrite   \* whether the process may die while the file is truncated

ASSUME EnvAssumption == EnvValues \in [SettingKeys -> Values]

ASSUME NoOverrideAssumption == NoOverride \notin Values \cup SettingKeys

ASSUME SwitchAssumption == SaveMayFail \in BOOLEAN /\ CrashMidWrite \in BOOLEAN

Overrides == [SettingKeys -> Values \cup {NoOverride}]

ASSUME TornAssumption == Torn \notin Overrides

ASSUME TextLengthAssumption == TextLength \in [Overrides -> Nat]

VARIABLES
    overrides,  \* RuntimeSettings._overrides
    config,     \* the live AppConfig
    disk,       \* the store: a document, or Torn
    length,     \* the length of its file
    pc,         \* [Callers -> Where a caller stands]
    call,       \* [Callers -> the key and the value it sets]
    text,       \* [Callers -> the overrides it dumped]
    raced       \* history: keys with overlapping or failed calls since boot

vars == <<overrides, config, disk, length, pc, call, text, raced>>

Step == {"idle", "dump", "open", "write", "apply"}

NoCall == [key |-> NoOverride, value |-> NoOverride]

NoOverrides == [k \in SettingKeys |-> NoOverride]

\* What a key reads as under a map of overrides.
Effective(map, k) == IF map[k] = NoOverride THEN EnvValues[k] ELSE map[k]

\* SettingsStore.load: a missing or unreadable document means no overrides.
Load == IF disk = Torn THEN NoOverrides ELSE disk

\* The keys other callers are at.
Contended(c) == {call[d].key : d \in {d \in Callers \ {c} : pc[d] # "idle"}}

Init ==
    /\ disk \in Overrides
    /\ length = TextLength[disk]
    /\ overrides = disk
    /\ config = [k \in SettingKeys |-> Effective(disk, k)]
    /\ pc = [c \in Callers |-> "idle"]
    /\ call = [c \in Callers |-> NoCall]
    /\ text = [c \in Callers |-> NoOverrides]
    /\ raced = {}

Goto(c, s) == pc' = [pc EXCEPT ![c] = s]

Called(c, k, v) ==
    /\ call' = [call EXCEPT ![c] = [key |-> k, value |-> v]]
    /\ raced' = raced \cup ({k} \cap Contended(c))

-----------------------------------------------------------------------------
\* set: the override is in memory before anything is saved.
Set(c, k, v) ==
    /\ pc[c] = "idle"
    /\ overrides' = [overrides EXCEPT ![k] = v]
    /\ Goto(c, "dump")
    /\ Called(c, k, v)
    /\ UNCHANGED <<config, disk, length, text>>

\* Mutant: reset drops the override in memory and never saves.
ResetWithoutSave(c, k) ==
    /\ pc[c] = "idle"
    /\ overrides' = [overrides EXCEPT ![k] = NoOverride]
    /\ Goto(c, "apply")
    /\ Called(c, k, NoOverride)
    /\ UNCHANGED <<config, disk, length, text>>

\* reset: it saves only when there was an override to drop.
Reset(c, k) ==
    /\ pc[c] = "idle"
    /\ overrides' = [overrides EXCEPT ![k] = NoOverride]
    /\ Goto(c, IF overrides[k] = NoOverride THEN "apply" ELSE "dump")
    /\ Called(c, k, NoOverride)
    /\ UNCHANGED <<config, disk, length, text>>

\* Mutant: only the changed key is dumped.
DumpChangedKey(c) ==
    /\ pc[c] = "dump"
    /\ text' = [text EXCEPT ![c] = [NoOverrides EXCEPT ![call[c].key] = call[c].value]]
    /\ Goto(c, "open")
    /\ UNCHANGED <<overrides, config, disk, length, call, raced>>

\* save: json.dumps reads the whole map as it is now.
Dump(c) ==
    /\ pc[c] = "dump"
    /\ text' = [text EXCEPT ![c] = overrides]
    /\ Goto(c, "open")
    /\ UNCHANGED <<overrides, config, disk, length, call, raced>>

\* save: write_text opens the file for writing, which empties it.
Open(c) ==
    /\ pc[c] = "open"
    /\ disk' = Torn
    /\ length' = 0
    /\ Goto(c, "write")
    /\ UNCHANGED <<overrides, config, call, text, raced>>

\* save: the text goes to the start of the file.  Of a longer text that
\* another caller wrote since the file was opened, the rest stays behind it,
\* and as every text ends with its closing brace, none parses with a rest.
Write(c) ==
    /\ pc[c] = "write"
    /\ IF length <= TextLength[text[c]]
       THEN disk' = text[c] /\ length' = TextLength[text[c]]
       ELSE disk' = Torn /\ UNCHANGED length
    /\ text' = [text EXCEPT ![c] = NoOverrides]
    /\ Goto(c, "apply")
    /\ UNCHANGED <<overrides, config, call, raced>>

\* save raises: the request answers 500, the override stays in memory.
SaveFails(c) ==
    /\ SaveMayFail
    /\ pc[c] \in {"dump", "open", "write"}
    /\ Goto(c, "idle")
    /\ raced' = raced \cup {call[c].key}
    /\ call' = [call EXCEPT ![c] = NoCall]
    /\ text' = [text EXCEPT ![c] = NoOverrides]
    /\ UNCHANGED <<overrides, config, disk, length>>

\* Mutant: reset applies the missing override instead of the .env value.
ApplyRawValue(c) ==
    /\ pc[c] = "apply"
    /\ config' = [config EXCEPT ![call[c].key] = call[c].value]
    /\ Goto(c, "idle")
    /\ call' = [call EXCEPT ![c] = NoCall]
    /\ UNCHANGED <<overrides, disk, length, text, raced>>

\* setattr on the configuration, and the call returns.
Apply(c) ==
    /\ pc[c] = "apply"
    /\ config' = [config EXCEPT ![call[c].key] =
                    IF call[c].value = NoOverride THEN EnvValues[call[c].key] ELSE call[c].value]
    /\ Goto(c, "idle")
    /\ call' = [call EXCEPT ![c] = NoCall]
    /\ UNCHANGED <<overrides, disk, length, text, raced>>

\* Mutant: the stored overrides are loaded, but not applied.
RestartWithoutApply ==
    /\ CrashMidWrite \/ \A c \in Callers : pc[c] # "write"
    /\ overrides' = Load
    /\ config' = EnvValues
    /\ pc' = [c \in Callers |-> "idle"]
    /\ call' = [c \in Callers |-> NoCall]
    /\ text' = [c \in Callers |-> NoOverrides]
    /\ raced' = {}
    /\ UNCHANGED <<disk, length>>

\* The process dies and starts again: __init__ loads and applies the store.
Restart ==
    /\ CrashMidWrite \/ \A c \in Callers : pc[c] # "write"
    /\ overrides' = Load
    /\ config' = [k \in SettingKeys |-> Effective(Load, k)]
    /\ pc' = [c \in Callers |-> "idle"]
    /\ call' = [c \in Callers |-> NoCall]
    /\ text' = [c \in Callers |-> NoOverrides]
    /\ raced' = {}
    /\ UNCHANGED <<disk, length>>

CallerStep(c) ==
    \/ \E k \in SettingKeys : Reset(c, k) \/ \E v \in Values : Set(c, k, v)
    \/ Dump(c)
    \/ Open(c)
    \/ Write(c)
    \/ SaveFails(c)
    \/ Apply(c)

Next == (\E c \in Callers : CallerStep(c)) \/ Restart

Spec == Init /\ [][Next]_vars

-----------------------------------------------------------------------------
Settled == \A c \in Callers : pc[c] = "idle"

TypeOK ==
    /\ overrides \in Overrides
    /\ config \in [SettingKeys -> Values]
    /\ disk \in Overrides \cup {Torn}
    /\ length \in Nat
    /\ pc \in [Callers -> Step]
    /\ call \in [Callers -> [key : SettingKeys \cup {NoOverride}, value : Values \cup {NoOverride}]]
    /\ \A c \in Callers : call[c].key = NoOverride <=> pc[c] = "idle"
    /\ text \in [Callers -> Overrides]
    /\ raced \subseteq SettingKeys

(* "Overrides persist on the cache volume and are applied at import, so a  *)
(* restart keeps them" (settings.py:4-5): between calls a restart would    *)
(* load the overrides in memory.                                           *)
SettledIsPersisted == Settled => Load = overrides

(* Between calls the configuration is what the overrides say, so the view  *)
(* shows a value that goes with its source - for the keys nobody changed   *)
(* from two sides, and no call on which failed, since the start.           *)
AppliedUnlessRaced ==
    \A k \in SettingKeys \ raced :
        (\A c \in Callers : pc[c] # "idle" => call[c].key # k)
            => config[k] = Effective(overrides, k)

(* "So a restart keeps them": whatever step a call in flight is at, a      *)
(* restart leaves every other key its override, or its lack of one, and    *)
(* its value in the configuration.                                         *)
RestartKeepsSettings ==
    [][Restart => \A k \in SettingKeys :
            (\A c \in Callers : pc[c] # "idle" => call[c].key # k)
                => overrides'[k] = overrides[k] /\ config'[k] = config[k]]_vars

(* What the disk will hold once the write under way is through.            *)
Durable ==
    IF disk = Torn /\ \E c \in Callers : pc[c] = "write"
    THEN text[CHOOSE c \in Callers : pc[c] = "write"]
    ELSE Load

Register == INSTANCE SettingsRegister WITH override <- Durable

(* The document on disk is a register: one key at a time, across restarts. *)
ImplementsRegister == Register!Spec
=============================================================================
