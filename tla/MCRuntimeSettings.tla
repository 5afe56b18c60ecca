------------------------- MODULE MCRuntimeSettings -------------------------
(***************************************************************************)
(* Two settings with two values, one or two callers.                       *)
(***************************************************************************)
EXTENDS RuntimeSettings

MCEnvValues == [k \in SettingKeys |-> "low"]

\* A line for every override, which a high value makes longer.
MCTextLength ==
    [o \in Overrides |-> 2 + 2 * Cardinality({k \in SettingKeys : o[k] # NoOverride})
                           + Cardinality({k \in SettingKeys : o[k] = "high"})]
=============================================================================
