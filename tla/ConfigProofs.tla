----------------------------- MODULE ConfigProofs ------------------------------
(***************************************************************************)
(* Proofs about Config for every width of the integers, every set of       *)
(* numbers that may be edited into the file and every number of edits.     *)
(***************************************************************************)
EXTENDS Config, TLAPS

-----------------------------------------------------------------------------
(***************************************************************************)
(* The inductive invariant.  Beyond the properties of Config it says that  *)
(* every name that is read has a value of one of the four shapes, and that *)
(* the settings are those of the class.                                    *)
(***************************************************************************)
\* The shapes of a value, with any integer as its whole part.
FileValue == ValueWith(Int)

FileOK == file \in [Names -> FileValue]

Fields == config = [f \in Settings \cup Lists |-> config[f]]

IInv == FileOK /\ Fields /\ TypeOK /\ SettingsInEffect /\ NoDefaultLeft

-----------------------------------------------------------------------------
(***************************************************************************)
(* The settings, the names and the values.                                 *)
(***************************************************************************)
LEMMA IntegerRange ==
    /\ MaxInt \in Nat /\ MinInt \in Int /\ MaxUnsigned \in Nat
    /\ MinInt <= 0 /\ MinInt <= MaxInt /\ 0 <= MaxUnsigned
BY ConfigAssumption DEF MinInt, MaxUnsigned

\* The kinds of settings do not overlap.
LEMMA Kinds ==
    ASSUME NEW f
    PROVE  /\ f \in Doubles => f \notin Ints \cup Flags \cup Unsigned \cup Lists
           /\ f \in Ints => f \notin Doubles \cup Flags \cup Unsigned \cup Lists
           /\ f \in Flags => f \notin Doubles \cup Ints \cup Unsigned \cup Lists
           /\ f \in Unsigned => f \notin Doubles \cup Ints \cup Flags \cup Lists
           /\ f \in Lists => f \notin Settings
           /\ f \in Settings => f \in Doubles \/ f \in Ints \/ f \in Flags \/ f \in Unsigned
BY DEF Doubles, Ints, Cores, Flags, Unsigned, Lists, Settings

LEMMA ShippedValues == Shipped \in [Names -> FileValue] /\ Broken \in [Names -> FileValue]
<1>1. Absent \in FileValue
  BY DEF FileValue, ValueWith
<1>2. ASSUME NEW name \in Names PROVE ShippedValue(name) \in FileValue
  <2>1. \/ name \in {"min_battery_percent", "max_battery_percent", "messaging_port",
                     "streaming_port", "server_sync_rate"}
        \/ name \in {"pinning.general", "pinning.default", "pinning.networking",
                     "pinning.controller", "pinning.image_controller"}
        \/ name \in {"calibrate_on_startup", "horizontal_communication.enabled",
                     "sync_labels_from_server", "sync_streams_from_server"}
        \/ name \in Cores
    <3>1. CASE name \in {Key(f) : f \in Settings}
      BY <3>1 DEF Key, Settings, Doubles, Ints, Flags, Unsigned
    <3>2. CASE name \notin {Key(f) : f \in Settings}
      BY <3>2 DEF Names
    <3> QED
      BY <3>1, <3>2
  <2> USE DEF ShippedValue, Number, Bool, Absent, FileValue, ValueWith
  <2>2. CASE name = "min_battery_percent" \/ name = "max_battery_percent"
    BY <2>2
  <2>3. CASE name = "messaging_port" \/ name = "streaming_port"
    BY <2>3
  <2>4. CASE name = "server_sync_rate"
    BY <2>4
  <2>5. CASE name = "pinning.general" \/ name = "pinning.default"
    BY <2>5
  <2>6. CASE name = "pinning.networking" \/ name = "pinning.controller"
    BY <2>6
  <2>7. CASE name = "pinning.image_controller"
    BY <2>7
  <2>8. CASE name = "calibrate_on_startup"
    BY <2>8
  <2>9. CASE name \in {"horizontal_communication.enabled", "sync_labels_from_server",
                       "sync_streams_from_server"}
    BY <2>9
  <2>10. CASE name \in Cores
    BY <2>10 DEF Cores
  <2> HIDE DEF ShippedValue, Number, Bool, Absent, FileValue, ValueWith
  <2> QED
    BY <2>1, <2>2, <2>3, <2>4, <2>5, <2>6, <2>7, <2>8, <2>9, <2>10
<1> QED
  BY <1>1, <1>2 DEF Shipped, Broken

\* What is written into the file has one of the shapes.
LEMMA EditedValues == Value \subseteq FileValue
BY ConfigAssumption DEF Value, FileValue, ValueWith

-----------------------------------------------------------------------------
(***************************************************************************)
(* The conversions of load_from_json.                                      *)
(***************************************************************************)
LEMMA NumberValue ==
    ASSUME NEW v \in FileValue
    PROVE  /\ number_value(v).kind = "number" /\ number_value(v).whole \in Int
           /\ v.kind = "number" => number_value(v) = v
           /\ v.kind # "number" => number_value(v) = Number(0, FALSE)
           /\ bool_value(v) \in BOOLEAN
           /\ v.kind = "bool" => bool_value(v) = v.value
           /\ v.kind # "bool" => bool_value(v) = FALSE
<1>1. CASE v \in [kind : {"number"}, whole : Int, frac : BOOLEAN]
  BY <1>1 DEF Number, number_value, bool_value
<1>2. CASE v \in [kind : {"bool"}, value : BOOLEAN]
  BY <1>2 DEF Number, number_value, bool_value
<1>3. CASE v \in {Absent, Other}
  BY <1>3 DEF Absent, Other, Number, number_value, bool_value
<1> QED
  BY <1>1, <1>2, <1>3 DEF FileValue, ValueWith

\* An integer in range is converted to itself, any other to one in range.
LEMMA IntValue ==
    ASSUME NEW x, x.whole \in Int, NEW sat \in BOOLEAN
    PROVE  /\ ToInt(x, sat) \in MinInt .. MaxInt
           /\ x.whole \in MinInt .. MaxInt => ToInt(x, sat) = x.whole
BY IntegerRange DEF ToInt, Clamp

LEMMA UnsignedValue ==
    ASSUME NEW x, x.whole \in Int, NEW sat \in BOOLEAN
    PROVE  /\ ToUnsigned(x, sat) \in 0 .. MaxUnsigned
           /\ x.whole \in 0 .. MaxUnsigned => ToUnsigned(x, sat) = x.whole
<1>1. CASE sat
  BY <1>1, IntegerRange DEF ToUnsigned, Clamp
<1>2. CASE ~sat
  <2> DEFINE n == MaxUnsigned + 1
  <2>1. n \in Nat /\ n > 0 /\ MaxUnsigned = n - 1
    BY IntegerRange
  <2>2. ToUnsigned(x, sat) = x.whole % n
    BY <1>2 DEF ToUnsigned
  <2> HIDE DEF n
  <2>3. x.whole % n \in 0 .. n - 1
    BY <2>1
  <2>4. x.whole \in 0 .. n - 1 => x.whole % n = x.whole
    BY <2>1
  <2> QED
    BY <2>1, <2>2, <2>3, <2>4
<1> QED
  BY <1>1, <1>2

\* What the constructor leaves where the file has no value.
Zero(f) == IF f \in Flags THEN FALSE
           ELSE IF f \in Doubles THEN Number(0, FALSE) ELSE 0

Kind(f) == IF f \in Flags THEN "bool" ELSE "number"

\* What load_from_json makes of one setting.
LEMMA ConvertedValue ==
    ASSUME NEW f \in Settings, NEW v \in FileValue, NEW sat \in BOOLEAN
    PROVE  /\ f \in Doubles => Converted(f, v, sat).kind = "number"
           /\ f \in Ints => Converted(f, v, sat) \in MinInt .. MaxInt
           /\ f \in Flags => Converted(f, v, sat) \in BOOLEAN
           /\ f \in Unsigned => Converted(f, v, sat) \in 0 .. MaxUnsigned
           /\ Fits(f, v) => Converted(f, v, sat) = Says(f, v)
           /\ v.kind # Kind(f) => Converted(f, v, sat) = Zero(f)
<1> DEFINE x == number_value(v)
<1>1. /\ x.kind = "number" /\ x.whole \in Int
      /\ v.kind = "number" => x = v
      /\ v.kind # "number" => x = Number(0, FALSE)
  BY NumberValue
<1>2. x = Number(0, FALSE) => x.whole = 0
  BY DEF Number
<1> HIDE DEF x
<1>3. CASE f \in Doubles
  <2>1. Converted(f, v, sat) = x
    BY <1>3, Kinds DEF Converted, x
  <2>2. Fits(f, v) => v.kind = "number" /\ Says(f, v) = v
    BY <1>3, Kinds DEF Fits, Says
  <2>3. Kind(f) = "number" /\ Zero(f) = Number(0, FALSE)
    BY <1>3, Kinds DEF Kind, Zero
  <2> QED
    BY <1>1, <1>3, <2>1, <2>2, <2>3, Kinds
<1>4. CASE f \in Ints
  <2>1. Converted(f, v, sat) = ToInt(x, sat)
    BY <1>4, Kinds DEF Converted, x
  <2>2. Fits(f, v) => v.kind = "number" /\ v.whole \in MinInt .. MaxInt /\ Says(f, v) = v.whole
    BY <1>4, Kinds DEF Fits, Says
  <2>3. Kind(f) = "number" /\ Zero(f) = 0
    BY <1>4, Kinds DEF Kind, Zero
  <2>4. 0 \in MinInt .. MaxInt
    BY IntegerRange
  <2> QED
    BY <1>1, <1>2, <1>4, <2>1, <2>2, <2>3, <2>4, IntValue, Kinds
<1>5. CASE f \in Flags
  <2>1. Converted(f, v, sat) = bool_value(v)
    BY <1>5, Kinds DEF Converted
  <2>2. Fits(f, v) => v.kind = "bool" /\ Says(f, v) = v.value
    BY <1>5, Kinds DEF Fits, Says
  <2>3. Kind(f) = "bool" /\ Zero(f) = FALSE
    BY <1>5, Kinds DEF Kind, Zero
  <2> QED
    BY <1>5, <2>1, <2>2, <2>3, NumberValue, Kinds
<1>6. CASE f \in Unsigned
  <2>1. Converted(f, v, sat) = ToUnsigned(x, sat)
    BY <1>6, Kinds DEF Converted, x
  <2>2. Fits(f, v) => v.kind = "number" /\ v.whole \in 0 .. MaxUnsigned /\ Says(f, v) = v.whole
    BY <1>6, Kinds DEF Fits, Says
  <2>3. Kind(f) = "number" /\ Zero(f) = 0
    BY <1>6, Kinds DEF Kind, Zero
  <2>4. 0 \in 0 .. MaxUnsigned
    BY IntegerRange
  <2> QED
    BY <1>1, <1>2, <1>6, <2>1, <2>2, <2>3, <2>4, UnsignedValue, Kinds
<1> QED
  BY <1>3, <1>4, <1>5, <1>6, Kinds

-----------------------------------------------------------------------------
(***************************************************************************)
(* The invariant.                                                          *)
(***************************************************************************)
LEMMA InitIInv == Init => IInv
<1> SUFFICES ASSUME Init PROVE IInv
  OBVIOUS
<1> DEFINE e(f) == CASE f = "max_battery_percent" -> Number(100, FALSE)
                     [] f = "min_battery_percent" -> Number(0, FALSE)
                     [] f \in {"general_core", "default_core"} \cup Unsigned -> 0
                     [] f \in Ints \ {"general_core", "default_core"} -> Unset
                     [] f \in Flags -> FALSE
                     [] f \in Lists -> <<>>
<1>0. config = [f \in Settings \cup Lists |-> e(f)]
  BY DEF Init
<1> HIDE DEF e
<1>1. FileOK
  BY ShippedValues DEF Init, FileOK
<1>2. ASSUME NEW f \in Settings \cup Lists
      PROVE  /\ f \in Doubles => config[f].kind = "number"
             /\ f \in Ints => config[f] \in MinInt .. MaxInt
             /\ f \in Flags => config[f] \in BOOLEAN
             /\ f \in Unsigned => config[f] \in 0 .. MaxUnsigned
             /\ f \in Lists => config[f] = <<>>
  <2>1. 0 \in MinInt .. MaxInt /\ Unset \in MinInt .. MaxInt /\ 0 \in 0 .. MaxUnsigned
    BY IntegerRange DEF MinInt, Unset
  <2>2. CASE f \in Doubles
    BY <1>0, <2>2, Kinds DEF e, Doubles, Number
  <2>3. CASE f \in Unsigned \/ f \in {"general_core", "default_core"}
    <3>1. config[f] = 0
      BY <1>0, <2>3 DEF e, Unsigned, Ints, Cores, Flags, Lists
    <3>2. f \in Ints \cup Unsigned
      BY <2>3 DEF Ints, Cores
    <3> QED
      BY <2>1, <3>1, <3>2, Kinds
  <2>4. CASE f \in Ints \ {"general_core", "default_core"}
    <3>1. config[f] = Unset
      BY <1>0, <2>4 DEF e, Unsigned, Ints, Cores, Flags, Lists
    <3> QED
      BY <2>1, <2>4, <3>1, Kinds
  <2>5. CASE f \in Flags
    <3>1. config[f] = FALSE
      BY <1>0, <2>5, Kinds DEF e, Flags, Ints, Cores, Unsigned
    <3> QED
      BY <2>5, <3>1, Kinds
  <2>6. CASE f \in Lists
    <3>1. config[f] = <<>>
      BY <1>0, <2>6 DEF e, Flags, Ints, Cores, Unsigned, Lists
    <3> QED
      BY <2>6, <3>1, Kinds DEF Settings
  <2> QED
    BY <2>2, <2>3, <2>4, <2>5, <2>6, Kinds
<1>3. loaded = FALSE /\ edits = 0 /\ MaxEdits \in Nat
  BY ConfigAssumption DEF Init
<1>4. TypeOK
  <2>1. \A f \in Doubles \cup Ints \cup Flags \cup Unsigned \cup Lists : f \in Settings \cup Lists
    BY DEF Settings
  <2>2. edits \in 0 .. MaxEdits
    BY <1>3
  <2>3. loaded \in BOOLEAN
    BY <1>3, Zenon
  <2> QED
    BY <1>2, <2>1, <2>2, <2>3 DEF TypeOK
<1>5. SettingsInEffect /\ NoDefaultLeft
  BY <1>3 DEF SettingsInEffect, NoDefaultLeft
<1>6. Fields
  BY <1>0 DEF Fields
<1> QED
  BY <1>1, <1>4, <1>5, <1>6 DEF IInv

LEMMA EditStep ==
    ASSUME IInv, NEW name \in Names, NEW v \in Value, Edit(name, v)
    PROVE  IInv'
<1>1. FileOK'
  BY EditedValues DEF IInv, FileOK, Edit
<1>2. TypeOK'
  BY ConfigAssumption DEF IInv, TypeOK, Edit
<1>3. Fields' /\ (SettingsInEffect /\ NoDefaultLeft)'
  BY DEF IInv, Fields, SettingsInEffect, NoDefaultLeft, Edit
<1> QED
  BY <1>1, <1>2, <1>3 DEF IInv

LEMMA DamageStep ==
    ASSUME IInv, Damage
    PROVE  IInv'
<1>1. FileOK'
  BY ShippedValues DEF FileOK, Damage
<1>2. TypeOK' /\ Fields' /\ (SettingsInEffect /\ NoDefaultLeft)'
  BY DEF IInv, TypeOK, Fields, SettingsInEffect, NoDefaultLeft, Damage
<1> QED
  BY <1>1, <1>2 DEF IInv

LEMMA LoadStep ==
    ASSUME IInv, load_from_json
    PROVE  IInv'
<1>1. PICK sat \in BOOLEAN :
        config' = [f \in DOMAIN config |->
                      IF f \in Settings THEN Loaded(f, sat) ELSE config[f]]
  BY DEF load_from_json
<1>2. DOMAIN config = Settings \cup Lists
  BY DEF IInv, Fields
<1>3. UNCHANGED <<file, edits>> /\ loaded' = TRUE /\ FileOK
  BY DEF load_from_json, IInv
<1>4. ASSUME NEW f \in Settings
      PROVE  /\ config'[f] = Converted(f, file[Key(f)], sat)
             /\ file[Key(f)] \in FileValue
  BY <1>1, <1>2, <1>3 DEF Loaded, FileOK, Names
<1>5. \A f \in Settings :
        /\ f \in Doubles => config'[f].kind = "number"
        /\ f \in Ints => config'[f] \in MinInt .. MaxInt
        /\ f \in Flags => config'[f] \in BOOLEAN
        /\ f \in Unsigned => config'[f] \in 0 .. MaxUnsigned
        /\ Fits(f, file[Key(f)]) => config'[f] = Says(f, file[Key(f)])
        /\ file[Key(f)].kind # Kind(f) => config'[f] = Zero(f)
  BY <1>4, ConvertedValue
<1>6. \A f \in Lists : config'[f] = <<>>
  BY <1>1, <1>2, Kinds DEF IInv, TypeOK
<1>7. TypeOK'
  BY <1>3, <1>5, <1>6 DEF IInv, TypeOK, Settings
<1>8. SettingsInEffect'
  BY <1>3, <1>5 DEF SettingsInEffect
<1>9. NoDefaultLeft'
  BY <1>3, <1>5 DEF NoDefaultLeft, Kind, Zero
<1>10. Fields' /\ FileOK'
  BY <1>1, <1>2, <1>3 DEF Fields, FileOK
<1> QED
  BY <1>7, <1>8, <1>9, <1>10 DEF IInv

LEMMA Inductive == Spec => []IInv
<1>1. IInv /\ [Next]_vars => IInv'
  <2> SUFFICES ASSUME IInv, [Next]_vars PROVE IInv'
    OBVIOUS
  <2>1. ASSUME NEW name \in Names, NEW v \in Value, Edit(name, v) PROVE IInv'
    BY <2>1, EditStep
  <2>2. CASE Damage
    BY <2>2, DamageStep
  <2>3. CASE load_from_json
    BY <2>3, LoadStep
  <2>4. CASE UNCHANGED vars
    BY <2>4 DEF vars, IInv, FileOK, Fields, TypeOK, SettingsInEffect, NoDefaultLeft
  <2> QED
    BY <2>1, <2>2, <2>3, <2>4 DEF Next
<1> QED
  BY InitIInv, <1>1, PTL DEF Spec

\* For every width of int and every file, each setting has a value of its C++
\* type, before and after the load (recyclr-client-config.cpp:10-53).
THEOREM TypeCorrect == Spec => []TypeOK
<1>1. IInv => TypeOK
  BY DEF IInv
<1> QED
  BY <1>1, Inductive, PTL

\* Whatever else the file holds or lacks, a value of the right type and size
\* under a setting's own name is in effect after the load
\* (recyclr-client-config.cpp:38-51).
THEOREM EffectCorrect == Spec => []SettingsInEffect
<1>1. IInv => SettingsInEffect
  BY DEF IInv
<1> QED
  BY <1>1, Inductive, PTL

\* Whatever the file, no default of the constructor survives the load of a
\* file without a value of the right type (recyclr-client-config.cpp:10-51).
THEOREM DefaultsLost == Spec => []NoDefaultLeft
<1>1. IInv => NoDefaultLeft
  BY DEF IInv
<1> QED
  BY <1>1, Inductive, PTL

=============================================================================
