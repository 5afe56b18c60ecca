----------------------- MODULE RuntimeSettings_proofs -----------------------
(***************************************************************************)
(* With one call at a time, no save that raises and no crash inside the    *)
(* write, the settings document implements SettingsRegister, whatever the  *)
(* settings and their values and however many callers take turns.  The run *)
(* two_administrators shows that the turns cannot go.                      *)
(***************************************************************************)
EXTENDS RuntimeSettings, TLAPS

Dependable == ~SaveMayFail /\ ~CrashMidWrite

(* The callers take turns: no call begins while another one is under way.  *)
TakeTurns == \A c, d \in Callers : pc[c] # "idle" /\ pc[d] # "idle" => c = d

(* Where the document stands relative to the overrides in memory, at every *)
(* step of the one call in flight.                                         *)
DocumentFollows ==
    /\ disk = Torn <=> \E c \in Callers : pc[c] = "write"
    /\ (\A c \in Callers : pc[c] \in {"idle", "apply"}) => disk = overrides
    /\ \A c \in Callers :
        /\ pc[c] = "write" => length = 0
        /\ pc[c] \in {"dump", "open"} =>
             overrides = [disk EXCEPT ![call[c].key] = call[c].value]
        /\ pc[c] \in {"open", "write"} => text[c] = overrides

-----------------------------------------------------------------------------
LEMMA LoadType == disk \in Overrides \cup {Torn} => Load \in Overrides
BY DEF Load, Overrides, NoOverrides

LEMMA EffectiveType ==
    ASSUME NEW map \in Overrides, NEW k \in SettingKeys
    PROVE  Effective(map, k) \in Values
BY EnvAssumption DEF Overrides, Effective

LEMMA TypeStep == TypeOK /\ [Next]_vars => TypeOK'
<1> SUFFICES ASSUME TypeOK, [Next]_vars
             PROVE  TypeOK'
  OBVIOUS
<1> USE NoOverrideAssumption, TextLengthAssumption DEF TypeOK, Step
<1>0. NoOverrides \in Overrides
  BY DEF NoOverrides, Overrides
<1>1. ASSUME NEW c \in Callers, NEW k \in SettingKeys, NEW v \in Values, Set(c, k, v)
      PROVE  TypeOK'
  BY <1>1 DEF Set, Goto, Called, Overrides
<1>2. ASSUME NEW c \in Callers, NEW k \in SettingKeys, Reset(c, k)
      PROVE  TypeOK'
  BY <1>2 DEF Reset, Goto, Called, Overrides
<1>3. ASSUME NEW c \in Callers, Dump(c)
      PROVE  TypeOK'
  BY <1>3 DEF Dump, Goto
<1>4. ASSUME NEW c \in Callers, Open(c)
      PROVE  TypeOK'
  BY <1>4 DEF Open, Goto
<1>5. ASSUME NEW c \in Callers, Write(c)
      PROVE  TypeOK'
  BY <1>0, <1>5 DEF Write, Goto
<1>6. ASSUME NEW c \in Callers, SaveFails(c)
      PROVE  TypeOK'
  BY <1>0, <1>6 DEF SaveFails, Goto, NoCall
<1>7. ASSUME NEW c \in Callers, Apply(c)
      PROVE  TypeOK'
  BY <1>7, EnvAssumption DEF Apply, Goto, NoCall
<1>8. CASE Restart
  BY <1>0, <1>8, LoadType, EffectiveType DEF Restart, NoCall
<1>9. CASE UNCHANGED vars
  BY <1>9 DEF vars
<1> QED
  BY <1>1, <1>2, <1>3, <1>4, <1>5, <1>6, <1>7, <1>8, <1>9 DEF Next, CallerStep

(* Type correctness: the document is a map of overrides or unreadable, and *)
(* a caller names a key exactly while its call is in flight.               *)
THEOREM TypeCorrect == Spec => []TypeOK
<1>1. Init => TypeOK
  BY EffectiveType, NoOverrideAssumption, TextLengthAssumption
  DEF Init, TypeOK, Step, NoCall, NoOverrides, Overrides
<1> QED
  BY <1>1, TypeStep, PTL DEF Spec

-----------------------------------------------------------------------------
LEMMA DocumentStep ==
    ASSUME Dependable, TakeTurns, TakeTurns', TypeOK, DocumentFollows, [Next]_vars
    PROVE  DocumentFollows'
<1> USE NoOverrideAssumption, TornAssumption, TextLengthAssumption
    DEF Dependable, TakeTurns, TypeOK, DocumentFollows
<1>1. ASSUME NEW c \in Callers, NEW k \in SettingKeys, NEW v \in Values, Set(c, k, v)
      PROVE  DocumentFollows'
  BY <1>1 DEF Set, Goto, Called, Overrides
<1>2. ASSUME NEW c \in Callers, NEW k \in SettingKeys, Reset(c, k)
      PROVE  DocumentFollows'
  <2>1. CASE overrides[k] = NoOverride
    <3>1. [overrides EXCEPT ![k] = NoOverride] = overrides
      BY <2>1 DEF Overrides
    <3> QED
      BY <1>2, <2>1, <3>1 DEF Reset, Goto, Called, Overrides
  <2>2. CASE overrides[k] # NoOverride
    BY <1>2, <2>2 DEF Reset, Goto, Called, Overrides
  <2> QED
    BY <2>1, <2>2
<1>3. ASSUME NEW c \in Callers, Dump(c)
      PROVE  DocumentFollows'
  BY <1>3 DEF Dump, Goto
<1>4. ASSUME NEW c \in Callers, Open(c)
      PROVE  DocumentFollows'
  BY <1>4 DEF Open, Goto
<1>5. ASSUME NEW c \in Callers, Write(c)
      PROVE  DocumentFollows'
  BY <1>5 DEF Write, Goto
<1>6. ASSUME NEW c \in Callers, SaveFails(c)
      PROVE  DocumentFollows'
  BY <1>6 DEF SaveFails
<1>7. ASSUME NEW c \in Callers, Apply(c)
      PROVE  DocumentFollows'
  BY <1>7 DEF Apply, Goto
<1>8. CASE Restart
  BY <1>8 DEF Restart, Load
<1>9. CASE UNCHANGED vars
  BY <1>9 DEF vars
<1> QED
  BY <1>1, <1>2, <1>3, <1>4, <1>5, <1>6, <1>7, <1>8, <1>9 DEF Next, CallerStep

LEMMA DocumentInit == Init => DocumentFollows
BY TornAssumption DEF Init, DocumentFollows, Overrides

(* "So a restart keeps them": as long as callers take turns a restart would*)
(* load the overrides in memory whenever no call is in flight.             *)
THEOREM PersistedWhenSettled ==
    ASSUME Dependable PROVE Spec /\ []TakeTurns => []SettledIsPersisted
<1>1. TypeOK /\ DocumentFollows /\ TakeTurns /\ TakeTurns' /\ [Next]_vars => DocumentFollows'
  BY DocumentStep
<1>2. DocumentFollows => SettledIsPersisted
  BY DEF DocumentFollows, SettledIsPersisted, Settled, Load
<1> QED
  BY <1>1, <1>2, DocumentInit, TypeCorrect, PTL DEF Spec

-----------------------------------------------------------------------------
(* The configuration, with any number of callers.                          *)

(* A key that nobody raced has at most one caller, whose value is the      *)
(* override already; without a caller the configuration has it too.        *)
UnracedAgrees ==
    /\ \A c, d \in Callers :
        pc[c] # "idle" /\ pc[d] # "idle" /\ call[c].key = call[d].key /\ c # d
            => call[c].key \in raced
    /\ \A c \in Callers :
        pc[c] # "idle" /\ call[c].key \notin raced
            => overrides[call[c].key] = call[c].value
    /\ AppliedUnlessRaced

(* A call begins: it races with whoever is at the same key.                *)
LEMMA CalledAgrees ==
    ASSUME TypeOK, UnracedAgrees, NEW c \in Callers, NEW k \in SettingKeys,
           NEW v \in Values \cup {NoOverride}, NEW p \in Step \ {"idle"},
           pc[c] = "idle", overrides' = [overrides EXCEPT ![k] = v], Goto(c, p),
           Called(c, k, v), config' = config
    PROVE  UnracedAgrees'
<1>1. /\ pc'[c] # "idle" /\ call'[c].key = k /\ call'[c].value = v
      /\ \A d \in Callers \ {c} : pc'[d] = pc[d] /\ call'[d] = call[d]
  BY DEF TypeOK, Goto, Called
<1>2. /\ raced \subseteq raced'
      /\ \A d \in Callers \ {c} : pc[d] # "idle" /\ call[d].key = k => k \in raced'
  BY DEF Called, Contended
<1>3. /\ overrides'[k] = v
      /\ \A l \in SettingKeys \ {k} : overrides'[l] = overrides[l]
  BY DEF TypeOK, Overrides
<1>4. ASSUME NEW a \in Callers, NEW b \in Callers, pc'[a] # "idle", pc'[b] # "idle",
             call'[a].key = call'[b].key, a # b
      PROVE  call'[a].key \in raced'
  BY <1>1, <1>2, <1>4 DEF UnracedAgrees
<1>5. ASSUME NEW d \in Callers, pc'[d] # "idle", call'[d].key \notin raced'
      PROVE  overrides'[call'[d].key] = call'[d].value
  <2>1. CASE d = c
    BY <1>1, <1>3, <2>1
  <2>2. CASE d # c
    <3>1. pc[d] # "idle" /\ call'[d] = call[d] /\ call[d].key \notin raced /\ call[d].key # k
      BY <1>1, <1>2, <1>5, <2>2
    <3>2. call[d].key \in SettingKeys
      BY <3>1 DEF TypeOK
    <3> QED
      BY <1>3, <3>1, <3>2 DEF UnracedAgrees
  <2> QED
    BY <2>1, <2>2
<1>6. ASSUME NEW l \in SettingKeys \ raced',
             \A d \in Callers : pc'[d] # "idle" => call'[d].key # l
      PROVE  config'[l] = Effective(overrides', l)
  <2>1. l # k /\ l \notin raced /\ overrides'[l] = overrides[l]
    BY <1>1, <1>2, <1>3, <1>6
  <2>2. \A d \in Callers : pc[d] # "idle" => call[d].key # l
    BY <1>1, <1>6
  <2> QED
    BY <2>1, <2>2 DEF UnracedAgrees, AppliedUnlessRaced, Effective
<1> QED
  BY <1>4, <1>5, <1>6 DEF UnracedAgrees, AppliedUnlessRaced, Effective

(* A call ends: its key is raced, or the configuration has its value.      *)
LEMMA ReturnAgrees ==
    ASSUME TypeOK, UnracedAgrees, NEW c \in Callers, pc[c] # "idle", Goto(c, "idle"),
           call' = [call EXCEPT ![c] = NoCall], overrides' = overrides,
           raced \subseteq raced',
           \A l \in SettingKeys \ {call[c].key} : config'[l] = config[l],
           \/ call[c].key \in raced'
           \/ config'[call[c].key] = Effective([overrides EXCEPT ![call[c].key] = call[c].value],
                                                call[c].key)
    PROVE  UnracedAgrees'
<1>1. /\ pc'[c] = "idle"
      /\ \A d \in Callers \ {c} : pc'[d] = pc[d] /\ call'[d] = call[d]
  BY DEF TypeOK, Goto
<1>2. ASSUME NEW l \in SettingKeys \ raced',
             \A d \in Callers : pc'[d] # "idle" => call'[d].key # l
      PROVE  config'[l] = Effective(overrides', l)
  <2>1. CASE l = call[c].key
    <3>1. overrides[l] = call[c].value
      BY <1>2, <2>1 DEF UnracedAgrees
    <3> QED
      BY <1>2, <2>1, <3>1 DEF TypeOK, Overrides, Effective
  <2>2. CASE l # call[c].key
    <3>1. \A d \in Callers : pc[d] # "idle" => call[d].key # l
      BY <1>1, <1>2, <2>2
    <3> QED
      BY <1>2, <2>2, <3>1 DEF UnracedAgrees, AppliedUnlessRaced, Effective
  <2> QED
    BY <2>1, <2>2
<1> QED
  BY <1>1, <1>2 DEF UnracedAgrees, AppliedUnlessRaced, Effective

LEMMA UnracedStep ==
    ASSUME TypeOK, UnracedAgrees, [Next]_vars
    PROVE  UnracedAgrees'
<1>1. ASSUME NEW c \in Callers, NEW k \in SettingKeys, NEW v \in Values, Set(c, k, v)
      PROVE  UnracedAgrees'
  BY <1>1, CalledAgrees DEF Set, Step
<1>2. ASSUME NEW c \in Callers, NEW k \in SettingKeys, Reset(c, k)
      PROVE  UnracedAgrees'
  BY <1>2, CalledAgrees DEF Reset, Step
<1>3. ASSUME NEW c \in Callers, Dump(c) \/ Open(c) \/ Write(c)
      PROVE  UnracedAgrees'
  <2>1. /\ UNCHANGED <<overrides, config, call, raced>>
        /\ \A d \in Callers : pc'[d] = "idle" <=> pc[d] = "idle"
    BY <1>3 DEF TypeOK, Dump, Open, Write, Goto
  <2> QED
    BY <2>1 DEF UnracedAgrees, AppliedUnlessRaced, Effective
<1>4. ASSUME NEW c \in Callers, SaveFails(c)
      PROVE  UnracedAgrees'
  BY <1>4, ReturnAgrees DEF SaveFails
<1>5. ASSUME NEW c \in Callers, Apply(c)
      PROVE  UnracedAgrees'
  <2>1. call[c].key \in SettingKeys /\ pc[c] # "idle"
    BY <1>5 DEF TypeOK, Apply
  <2>2. config'[call[c].key] = Effective([overrides EXCEPT ![call[c].key] = call[c].value],
                                         call[c].key)
    BY <1>5, <2>1 DEF TypeOK, Overrides, Apply, Effective
  <2>3. \A l \in SettingKeys \ {call[c].key} : config'[l] = config[l]
    BY <1>5 DEF TypeOK, Apply
  <2> QED
    BY <1>5, <2>1, <2>2, <2>3, ReturnAgrees DEF Apply
<1>6. CASE Restart
  BY <1>6 DEF Restart, UnracedAgrees, AppliedUnlessRaced, Effective
<1>7. CASE UNCHANGED vars
  BY <1>7 DEF vars, UnracedAgrees, AppliedUnlessRaced, Effective
<1> QED
  BY <1>1, <1>2, <1>3, <1>4, <1>5, <1>6, <1>7 DEF Next, CallerStep

(* Between calls the configuration is what the overrides say, for every    *)
(* key that was not changed from two sides at once and no call on which    *)
(* failed - with any number of callers and crashes at any step.            *)
THEOREM AppliedBetweenCalls == Spec => []AppliedUnlessRaced
<1>1. Init => UnracedAgrees
  BY DEF Init, UnracedAgrees, AppliedUnlessRaced, Effective
<1>2. UnracedAgrees => AppliedUnlessRaced
  BY DEF UnracedAgrees
<1> QED
  BY <1>1, <1>2, UnracedStep, TypeCorrect, PTL DEF Spec

-----------------------------------------------------------------------------
(* Callers that take turns race for no key, as long as no save raises.     *)
NobodyRaced == raced = {}

LEMMA NobodyRacedStep ==
    ASSUME Dependable, TakeTurns', TypeOK, NobodyRaced, [Next]_vars
    PROVE  NobodyRaced'
<1>1. ASSUME NEW c \in Callers, NEW k \in SettingKeys, NEW v \in Values \cup {NoOverride},
             NEW p \in {"dump", "apply"}, Goto(c, p), Called(c, k, v)
      PROVE  NobodyRaced'
  <2>1. \A d \in Callers \ {c} : pc[d] = "idle"
    BY <1>1 DEF TypeOK, Goto, TakeTurns
  <2> QED
    BY <1>1, <2>1 DEF NobodyRaced, Called, Contended
<1>2. ASSUME NEW c \in Callers, NEW k \in SettingKeys,
             Reset(c, k) \/ \E v \in Values : Set(c, k, v)
      PROVE  NobodyRaced'
  BY <1>1, <1>2 DEF Reset, Set
<1> QED
  BY <1>2 DEF NobodyRaced, Dependable, Next, CallerStep, Dump, Open, Write, SaveFails, Apply,
              Restart, vars

(* A key that no call in flight is changing is on disk as it is in memory, *)
(* at every moment when the process may die.                               *)
LEMMA OthersAreOnDisk ==
    ASSUME Dependable, TypeOK, DocumentFollows, Restart, NEW k \in SettingKeys,
           \A c \in Callers : pc[c] # "idle" => call[c].key # k
    PROVE  overrides'[k] = overrides[k]
<1>1. \A c \in Callers : pc[c] # "write"
  BY DEF Dependable, Restart
<1>2. disk # Torn /\ overrides' = disk
  BY <1>1 DEF DocumentFollows, Restart, Load
<1>3. CASE \E c \in Callers : pc[c] \in {"dump", "open"}
  <2>1. PICK c \in Callers : pc[c] \in {"dump", "open"}
    BY <1>3
  <2>2. overrides = [disk EXCEPT ![call[c].key] = call[c].value] /\ call[c].key # k
    BY <2>1 DEF DocumentFollows
  <2> QED
    BY <1>2, <2>2 DEF TypeOK, Overrides
<1>4. CASE \A c \in Callers : pc[c] \in {"idle", "apply"}
  BY <1>2, <1>4 DEF DocumentFollows
<1> QED
  BY <1>1, <1>3, <1>4 DEF TypeOK, Step

(* "So a restart keeps them", with a call in flight too: whatever its step *)
(* is when the process dies, every other key has its override and its      *)
(* configured value afterwards - the one by what the document holds, the   *)
(* other because the configuration agreed with the override before.        *)
THEOREM RestartKeeps ==
    ASSUME Dependable PROVE Spec /\ []TakeTurns => RestartKeepsSettings
<1> DEFINE Kept == Restart => \A k \in SettingKeys :
                     (\A c \in Callers : pc[c] # "idle" => call[c].key # k)
                         => overrides'[k] = overrides[k] /\ config'[k] = config[k]
<1>1. TypeOK /\ DocumentFollows /\ NobodyRaced /\ AppliedUnlessRaced => [Kept]_vars
  <2> SUFFICES ASSUME TypeOK, DocumentFollows, NobodyRaced, AppliedUnlessRaced, Restart,
                      NEW k \in SettingKeys, \A c \in Callers : pc[c] # "idle" => call[c].key # k
               PROVE  overrides'[k] = overrides[k] /\ config'[k] = config[k]
    OBVIOUS
  <2>1. overrides'[k] = overrides[k]
    BY OthersAreOnDisk
  <2>2. config[k] = Effective(overrides, k)
    BY DEF NobodyRaced, AppliedUnlessRaced
  <2>3. overrides' = Load /\ config'[k] = Effective(Load, k)
    BY DEF Restart
  <2> QED
    BY <2>1, <2>2, <2>3 DEF Effective
<1>2. TypeOK /\ DocumentFollows /\ TakeTurns /\ TakeTurns' /\ [Next]_vars => DocumentFollows'
  BY DocumentStep
<1>3. TypeOK /\ NobodyRaced /\ TakeTurns' /\ [Next]_vars => NobodyRaced'
  BY NobodyRacedStep
<1>4. Init => NobodyRaced
  BY DEF Init, NobodyRaced
<1> QED
  BY <1>1, <1>2, <1>3, <1>4, DocumentInit, TypeCorrect, AppliedBetweenCalls, PTL
  DEF Spec, RestartKeepsSettings

-----------------------------------------------------------------------------
(* The refinement.                                                         *)

LEMMA DurableIs ==
    ASSUME TakeTurns, TypeOK, DocumentFollows
    PROVE  /\ disk # Torn => Durable = disk
           /\ \A c \in Callers : pc[c] = "write" => Durable = text[c]
<1>1. disk # Torn => Durable = disk
  BY DEF Durable, Load
<1>2. ASSUME NEW c \in Callers, pc[c] = "write"
      PROVE  Durable = text[c]
  <2>1. disk = Torn
    BY <1>2 DEF DocumentFollows
  <2>2. (CHOOSE d \in Callers : pc[d] = "write") = c
    BY <1>2 DEF TakeTurns
  <2> QED
    BY <1>2, <2>1, <2>2 DEF Durable
<1> QED
  BY <1>1, <1>2

(* Opening the file is the step that decides: from then on a restart after *)
(* the write reads the new map.  Every other step is a stutter.            *)
LEMMA RegisterStep ==
    ASSUME Dependable, TakeTurns, TakeTurns', TypeOK, DocumentFollows, [Next]_vars
    PROVE  [Register!Next]_Durable
<1>0. DocumentFollows' /\ TypeOK'
  BY DocumentStep, TypeStep
<1>1. /\ disk' # Torn => Durable' = disk'
      /\ \A c \in Callers : pc'[c] = "write" => Durable' = text'[c]
  <2>1. disk' # Torn => Durable' = disk'
    BY DEF Durable, Load
  <2>2. ASSUME NEW c \in Callers, pc'[c] = "write"
        PROVE  Durable' = text'[c]
    <3>1. disk' = Torn
      BY <1>0, <2>2 DEF DocumentFollows
    <3>2. (CHOOSE d \in Callers : pc'[d] = "write") = c
      BY <2>2 DEF TakeTurns
    <3> QED
      BY <2>2, <3>1, <3>2 DEF Durable
  <2> QED
    BY <2>1, <2>2
<1>2. ASSUME NEW c \in Callers, Open(c)
      PROVE  [Register!Next]_Durable
  <2>1. disk # Torn /\ pc[c] = "open"
    BY <1>2 DEF Open, DocumentFollows, TakeTurns, TypeOK
  <2>2. Durable = disk /\ disk \in Overrides
    BY <2>1, DurableIs DEF TypeOK
  <2>3. pc'[c] = "write" /\ text' = text
    BY <1>2 DEF Open, Goto, TypeOK
  <2>4. Durable' = [disk EXCEPT ![call[c].key] = call[c].value]
    BY <1>1, <2>1, <2>3 DEF DocumentFollows
  <2>5. call[c].key \in SettingKeys /\ call[c].value \in Values \cup {NoOverride}
    BY <2>1 DEF TypeOK
  <2> QED
    BY <2>2, <2>4, <2>5 DEF Register!Next, Register!Put, Register!Delete
<1>3. ASSUME NEW c \in Callers, Write(c)
      PROVE  Durable' = Durable
  <2>1. /\ pc[c] = "write" /\ length = 0
        /\ disk' = text[c] /\ text[c] \in Overrides
    BY <1>3, TextLengthAssumption DEF Write, DocumentFollows, TypeOK
  <2> QED
    BY <1>1, <2>1, DurableIs, TornAssumption
<1>4. ASSUME UNCHANGED disk, disk # Torn
      PROVE  Durable' = Durable
  BY <1>1, <1>4, DurableIs
<1>5. ASSUME disk = Torn, ~\E c \in Callers : Write(c)
      PROVE  Durable' = Durable
  <2>1. PICK c \in Callers : pc[c] = "write"
    BY <1>5 DEF DocumentFollows
  <2>2. UNCHANGED vars
    BY <1>5, <2>1
       DEF Dependable, TakeTurns, TypeOK, Next, CallerStep, Goto, Set, Reset, Dump, Open, SaveFails, Apply, Restart
  <2> QED
    BY <2>2 DEF vars, Durable, Load
<1> QED
  BY <1>2, <1>3, <1>4, <1>5
     DEF Next, CallerStep, Set, Reset, Dump, SaveFails, Apply, Restart, vars

(* As long as callers take turns the document on disk is a register of     *)
(* overrides that changes one key at a time and that restarts keep.        *)
THEOREM DocumentIsRegister ==
    ASSUME Dependable PROVE Spec /\ []TakeTurns => ImplementsRegister
<1>1. Init => Register!Init
  <2> SUFFICES ASSUME Init
               PROVE  Durable \in Overrides
    BY DEF Register!Init, Overrides
  <2> QED
    BY TornAssumption DEF Init, Durable, Load
<1>2. TypeOK /\ DocumentFollows /\ TakeTurns /\ TakeTurns' /\ [Next]_vars => [Register!Next]_Durable
  BY RegisterStep
<1>3. TypeOK /\ DocumentFollows /\ TakeTurns /\ TakeTurns' /\ [Next]_vars => DocumentFollows'
  BY DocumentStep
<1> QED
  BY <1>1, <1>2, <1>3, DocumentInit, TypeCorrect, PTL DEF Spec, ImplementsRegister, Register!Spec
=============================================================================
