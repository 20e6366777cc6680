-------------------------------- MODULE Config --------------------------------
(***************************************************************************)
(* The configuration: the defaults of the constructor of                   *)
(* RecyclrClientConfig, a file that its operator may have edited, and      *)
(* load_from_json, which main calls once.                                  *)
(***************************************************************************)
EXTENDS Integers

CONSTANTS MaxInt,       \* INT_MAX
          Numbers,      \* the whole parts of the numbers that are edited in
          MaxEdits      \* bound: how often the file is edited

ASSUME ConfigAssumption == MaxInt \in Nat /\ Numbers \subseteq Int /\ MaxEdits \in Nat

VARIABLES config,   \* *g_config
          file,     \* what the JSON parser makes of the file
          loaded,   \* main has called load_from_json
          edits

vars == <<config, file, loaded, edits>>

Doubles == {"min_battery_percent", "max_battery_percent"}

Cores == {"general_core", "networking_core", "controller_core",
          "image_controller_core", "default_core"}

Ints == {"messaging_port", "streaming_port"} \cup Cores

Flags == {"calibrate_on_startup", "net_config.enabled", "sync_labels_from_server",
          "sync_streams_from_server"}

Unsigned == {"server_sync_rate"}

Settings == Doubles \cup Ints \cup Flags \cup Unsigned

Lists == {"geo_fence_points", "net_config.supported_messages"}

-----------------------------------------------------------------------------
(***************************************************************************)
(* The file: a value for each name that it or the code knows; the names    *)
(* inside "thread_pinnings" as pinning.general and so on.                  *)
(***************************************************************************)
\* A number is whole, or has a fraction besides its whole part.
Number(n, frac) == [kind |-> "number", whole |-> n, frac |-> frac]
Bool(b)         == [kind |-> "bool", value |-> b]
Absent          == [kind |-> "absent"]
Other           == [kind |-> "other"]

ValueWith(numbers) == [kind : {"number"}, whole : numbers, frac : BOOLEAN]
                        \cup [kind : {"bool"}, value : BOOLEAN]
                        \cup {Absent, Other}

\* What is edited in.
Value == ValueWith(Numbers)

\* "horizontal_communication"."enabled" is the only nested value that is read.
Key(f) == IF f = "net_config.enabled" THEN "horizontal_communication.enabled" ELSE f

\* The names that are read, and those of the pinnings, which are not.
Names == {Key(f) : f \in Settings}
           \cup {"pinning.general", "pinning.networking", "pinning.controller",
                 "pinning.image_controller", "pinning.default"}

\* client-configuration.json, without its two lists.
ShippedValue(name) ==
    CASE name = "min_battery_percent" -> Number(15, FALSE)
      [] name = "max_battery_percent" -> Number(100, FALSE)
      [] name = "messaging_port" -> Number(6528, FALSE)
      [] name = "streaming_port" -> Number(6529, FALSE)
      [] name \in {"pinning.general", "pinning.default"} -> Number(0, FALSE)
      [] name = "pinning.networking" -> Number(1, FALSE)
      [] name = "pinning.controller" -> Number(2, FALSE)
      [] name = "pinning.image_controller" -> Number(3, FALSE)
      [] name = "calibrate_on_startup" -> Bool(FALSE)
      [] name \in {"horizontal_communication.enabled", "sync_labels_from_server",
                   "sync_streams_from_server"} -> Bool(TRUE)
      [] name = "server_sync_rate" -> Number(30, FALSE)
      [] name \in Cores -> Absent

Shipped == [name \in Names |-> ShippedValue(name)]

\* A file that is missing, or is no JSON, has no value for any name.
Broken == [name \in Names |-> Absent]

\* What the constructor writes for ports and cores that are not given.
Unset == -1

\* The constructor.
Init ==
    /\ config = [f \in Settings \cup Lists |->
                    CASE f = "max_battery_percent" -> Number(100, FALSE)
                      [] f = "min_battery_percent" -> Number(0, FALSE)
                      [] f \in {"general_core", "default_core"} \cup Unsigned -> 0
                      [] f \in Ints \ {"general_core", "default_core"} -> Unset
                      [] f \in Flags -> FALSE
                      [] f \in Lists -> <<>>]
    /\ file = Shipped /\ loaded = FALSE /\ edits = 0

Edit(name, v) ==
    /\ ~loaded /\ edits < MaxEdits
    /\ file' = [file EXCEPT ![name] = v] /\ edits' = edits + 1
    /\ UNCHANGED <<config, loaded>>

Damage ==
    /\ ~loaded
    /\ file' = Broken
    /\ UNCHANGED <<config, loaded, edits>>

-----------------------------------------------------------------------------
(***************************************************************************)
(* load_from_json, and the accessors of json11 that it uses.               *)
(***************************************************************************)
MinInt == -MaxInt - 1

MaxUnsigned == 2 * MaxInt + 1

number_value(v) == IF v.kind = "number" THEN v ELSE Number(0, FALSE)

bool_value(v) == v.kind = "bool" /\ v.value

Clamp(n, low, high) == IF n < low THEN low ELSE IF n > high THEN high ELSE n

\* The conversion of a double that is out of range is undefined: it saturates
\* (sat, as on AArch64), or is what x86-64 makes of it.
ToIntWide(x, sat) == x.whole            \* mutant: no conversion

ToInt(x, sat) == IF sat \/ x.whole \in MinInt .. MaxInt
                 THEN Clamp(x.whole, MinInt, MaxInt)
                 ELSE MinInt

ToUnsigned(x, sat) == IF sat THEN Clamp(x.whole, 0, MaxUnsigned)
                             ELSE x.whole % (MaxUnsigned + 1)

\* What the setting f becomes when the file has the value v for it.
Converted(f, v, sat) ==
    CASE f \in Doubles -> number_value(v)
      [] f \in Ints -> ToInt(number_value(v), sat)
      [] f \in Flags -> bool_value(v)
      [] f \in Unsigned -> ToUnsigned(number_value(v), sat)

LoadedCopied(f, sat) ==                 \* mutant: a line copied with its key
    Converted(f, file[IF f = "streaming_port" THEN "messaging_port" ELSE Key(f)], sat)
LoadedIfThere(f, sat) ==                \* mutant: what is absent is left alone
    IF file[Key(f)] = Absent THEN config[f] ELSE Converted(f, file[Key(f)], sat)

\* The setting f after the load.
Loaded(f, sat) == Converted(f, file[Key(f)], sat)

load_from_json ==
    /\ ~loaded
    /\ loaded' = TRUE
    /\ \E sat \in BOOLEAN :
           config' = [f \in DOMAIN config |->
                         IF f \in Settings THEN Loaded(f, sat) ELSE config[f]]
    /\ UNCHANGED <<file, edits>>

Next == \/ \E name \in Names, v \in Value : Edit(name, v)
        \/ Damage
        \/ load_from_json

Spec == Init /\ [][Next]_vars

-----------------------------------------------------------------------------
\* Type invariant.
TypeOK ==
    /\ \A f \in Doubles : config[f].kind = "number"
    /\ \A f \in Ints : config[f] \in MinInt .. MaxInt
    /\ \A f \in Flags : config[f] \in BOOLEAN
    /\ \A f \in Unsigned : config[f] \in 0 .. MaxUnsigned
    /\ \A f \in Lists : config[f] = <<>>
    /\ loaded \in BOOLEAN /\ edits \in 0 .. MaxEdits

\* What the value v, found under its own name, says of the setting f, if its
\* type and size are right.
Fits(f, v) == \/ f \in Doubles /\ v.kind = "number"
              \/ f \in Flags /\ v.kind = "bool"
              \/ f \in Ints /\ v.kind = "number" /\ v.whole \in MinInt .. MaxInt
              \/ f \in Unsigned /\ v.kind = "number" /\ v.whole \in 0 .. MaxUnsigned

Says(f, v) == IF f \in Doubles THEN v ELSE IF f \in Flags THEN v.value ELSE v.whole

\* Each setting is what the file says under the setting's own name, whatever
\* else the file holds or lacks, with its fraction cut off where it is an int
\* (recyclr-client-config.cpp:38-51).
SettingsInEffect ==
    loaded => \A f \in Settings :
                 Fits(f, file[Key(f)]) => config[f] = Says(f, file[Key(f)])

\* No default of the constructor survives a load: what the file lacks, or has
\* with another type, is zero or false, also the battery maximum and the ports,
\* whose defaults are 100 and -1 (recyclr-client-config.cpp:10-27, 38-51).
NoDefaultLeft ==
    LET kind(f) == IF f \in Flags THEN "bool" ELSE "number"
        zero(f) == IF f \in Flags THEN FALSE
                   ELSE IF f \in Doubles THEN Number(0, FALSE) ELSE 0
    IN  loaded => \A f \in Settings :
                     file[Key(f)].kind # kind(f) => config[f] = zero(f)

=============================================================================
