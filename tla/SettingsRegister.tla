-------------------------- MODULE SettingsRegister --------------------------
(***************************************************************************)
(* What the runtime settings promise to an administrator: a map of         *)
(* overrides that changes one key at a time, by a PUT or a DELETE of that  *)
(* key, and that a restart keeps (core/settings.py: "Overrides persist on  *)
(* the cache volume and are applied at import, so a restart keeps them").  *)
(***************************************************************************)
CONSTANTS
    SettingKeys,    \* the declared settings
    Values,         \* the values a setting may take
    NoOverride      \* no override: the environment's value applies

VARIABLE override   \* [SettingKeys -> Values \cup {NoOverride}]

Init == override \in [SettingKeys -> Values \cup {NoOverride}]

Put(k, v) == override' = [override EXCEPT ![k] = v]

Delete(k) == override' = [override EXCEPT ![k] = NoOverride]

Next == \E k \in SettingKeys : Delete(k) \/ \E v \in Values : Put(k, v)

Spec == Init /\ [][Next]_override
=============================================================================
