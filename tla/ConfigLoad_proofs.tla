------------------------- MODULE ConfigLoad_proofs -------------------------
(***************************************************************************)
(* Proofs about ConfigLoad, for every set of lines, every width of the     *)
(* integers and every limit on the lists.                                  *)
(***************************************************************************)
EXTENDS ConfigLoad, WellFoundedInduction, TLAPS

-----------------------------------------------------------------------------
(* The last of some lines.  That there is one is an induction on their     *)
(* numbers: a nonempty set of naturals has a least element, because < is   *)
(* well-founded.                                                           *)

LEMMA SmallerIsRelated ==
  ASSUME NEW m \in Nat, NEW n \in Nat, m < n
  PROVE  <<m, n>> \in OpToRel(<, Nat)
BY Zenon DEF OpToRel

LEMMA LeastElement ==
  ASSUME NEW S \in SUBSET Nat, S # {}
  PROVE  \E n \in S : \A m \in S : n =< m
<1> DEFINE R == OpToRel(<, Nat)
<1>1. IsWellFoundedOn(R, Nat)
  BY NatLessThanWellFounded
<1>2. \A m, n \in Nat : m < n => <<m, n>> \in R
  BY SmallerIsRelated
<1> HIDE DEF R
<1>3. PICK n \in S : \A m \in S : ~ (<<m, n>> \in R)
  BY <1>1, WFMin
<1>4. \A m \in S : ~ (m < n)
  BY <1>2, <1>3
<1> QED
  BY <1>4

LEMMA LastElement ==
  ASSUME NEW n \in Nat, NEW S \in SUBSET (1 .. n), S # {}
  PROVE  \E i \in S : \A j \in S : j =< i
<1> DEFINE T == {n - i : i \in S}
<1>1. T \in SUBSET Nat /\ T # {}
  <2>1. \A i \in S : n - i \in Nat
    OBVIOUS
  <2> QED
    BY <2>1
<1> HIDE DEF T
<1>2. PICK m \in T : \A k \in T : m =< k
  BY <1>1, LeastElement
<1>3. PICK i \in S : m = n - i
  BY <1>2 DEF T
<1>4. \A j \in S : n - i =< n - j
  BY <1>2, <1>3 DEF T
<1> QED
  BY <1>4

-----------------------------------------------------------------------------
USE WordAssumption, TrimAssumption, WidthAssumption, BoundAssumption

-----------------------------------------------------------------------------
(* The keys and the defaults.                                              *)

LEMMA ThresholdKeysAre ==
    ThresholdKeys =
    {"cpu_warning_threshold", "cpu_critical_threshold",
     "memory_warning_threshold", "memory_critical_threshold",
     "disk_warning_threshold", "disk_critical_threshold",
     "process_cpu_warning_threshold", "process_cpu_critical_threshold",
     "process_memory_warning_threshold_mib",
     "process_memory_critical_threshold_mib"}
<1>1. \A key \in ThresholdKeys :
         \E pair \in ThresholdPairs : key = pair[1] \/ key = pair[2]
  BY DEF ThresholdKeys
<1>2. \A pair \in ThresholdPairs :
         pair[1] \in ThresholdKeys /\ pair[2] \in ThresholdKeys
  BY DEF ThresholdKeys
<1> QED
  BY <1>1, <1>2 DEF ThresholdPairs, PercentPairs, ProcessPairs

LEMMA PairsAreKeys ==
    \A pair \in ThresholdPairs :
       pair[1] \in ThresholdKeys /\ pair[2] \in ThresholdKeys
BY DEF ThresholdKeys

LEMMA DefaultsAreConfig == IsConfig(Defaults)
<1>1. DOMAIN Defaults = Keys
  BY ThresholdKeysAre DEF Defaults, Keys, NumberKeys, UIntKeys, TextKeys, ListKeys
<1>2. \A key \in UIntKeys : Defaults[key] \in 0 .. UIntMax
  BY DEF Defaults, UIntKeys
<1>3. Defaults.log_max_size \in 0 .. ULongMax
  BY DEF Defaults
<1>4. \A key \in ThresholdKeys : Defaults[key] \in Int
  BY ThresholdKeysAre DEF Defaults
<1>5. \A key \in TextKeys \cup ListKeys : Defaults[key] \in Texts
  <2>1. <<>> \in Texts /\ <<DefaultLogFile>> \in Texts
    BY DEF Texts
  <2> QED
    BY <2>1, SMT DEF Defaults, TextKeys, ListKeys
<1>6. \A key \in TextKeys \cup ListKeys : Fits(Defaults[key])
  <2>1. Fits(<<>>) /\ Fits(<<DefaultLogFile>>)
    BY DEF Fits
  <2> QED
    BY <2>1, SMT DEF Defaults, TextKeys, ListKeys
<1> QED
  BY <1>1, <1>2, <1>3, <1>4, <1>5, <1>6 DEF IsConfig

LEMMA DefaultsAreValid == Valid(Defaults)
<1>1. \A pair \in ThresholdPairs :
         0 =< Defaults[pair[1]] /\ Defaults[pair[1]] < Defaults[pair[2]]
  BY DEF Defaults, ThresholdPairs, PercentPairs, ProcessPairs
<1>2. \A pair \in PercentPairs : Defaults[pair[2]] =< 100
  BY DEF Defaults, PercentPairs
<1>3. Defaults.monitor_interval > 0 /\ Defaults.log_max_size > 0
  BY SMT DEF Defaults
<1>4. ValidPid(Defaults)
  BY SMT DEF ValidPid, Defaults
<1>5. Defaults.process_names = <<>> /\ Defaults.network_interfaces = <<>>
  BY SMT DEF Defaults
<1>6. Defaults.notification_enabled = 0 /\ Defaults.log_file # <<>>
  BY SMT DEF Defaults
<1> HIDE DEF Defaults
<1> QED
  BY <1>1, <1>2, <1>3, <1>4, <1>5, <1>6, SMT DEF Valid

-----------------------------------------------------------------------------
(* Setting a key.                                                          *)

FieldOK(key, value) ==
    /\ key \in UIntKeys => value \in 0 .. UIntMax
    /\ key = "log_max_size" => value \in 0 .. ULongMax
    /\ key \in ThresholdKeys => value \in Int
    /\ key \in TextKeys \cup ListKeys => value \in Texts /\ Fits(value)

LEMMA FieldByField ==
  ASSUME NEW c, DOMAIN c = Keys, \A key \in Keys : FieldOK(key, c[key])
  PROVE  IsConfig(c)
<1>1. /\ UIntKeys \subseteq Keys /\ ThresholdKeys \subseteq Keys
      /\ TextKeys \subseteq Keys /\ ListKeys \subseteq Keys
      /\ "log_max_size" \in Keys
  BY DEF Keys, NumberKeys
<1> QED
  BY <1>1 DEF FieldOK, IsConfig

LEMMA ConfigFields ==
  ASSUME NEW c, IsConfig(c), NEW key \in Keys
  PROVE  FieldOK(key, c[key])
<1>1. key = "log_max_size" => c[key] \in 0 .. ULongMax
  BY DEF IsConfig
<1> QED
  BY <1>1 DEF IsConfig, FieldOK

LEMMA TrimmedIsText ==
  ASSUME NEW text \in Texts
  PROVE  Trimmed(text) \in Texts
<1>1. /\ Len(text) \in Nat
      /\ \A i \in 1 .. Len(text) : text[i] \in Int \cup Words
      /\ DOMAIN text = 1 .. Len(text)
  BY DEF Texts
<1>2. Trimmed(text) \in [1 .. Len(text) -> Int \cup Words]
  BY <1>1 DEF Trimmed
<1> QED
  BY <1>1, <1>2 DEF Texts

LEMMA FirstOfList ==
  ASSUME NEW text \in Texts, NEW max \in Nat, IsList(text, max)
  PROVE  <<text[1]>> \in Texts /\ Fits(<<text[1]>>)
<1>1. 1 \in DOMAIN text
  BY DEF IsList, Texts
<1>2. text[1] \in Int \cup Words /\ text[1] # TooLong
  BY <1>1 DEF IsList, Fits, Texts
<1> QED
  BY <1>2 DEF Texts, Fits

LEMMA StoredFits ==
  ASSUME NEW key \in Keys, NEW text \in Texts, Accepts(key, text)
  PROVE  FieldOK(key, Stored(key, text))
<1> USE DEF UIntKeys, TextKeys, ListKeys
<1>1. CASE key \in UIntKeys
  <2>1. key \in NumberKeys /\ key \notin ThresholdKeys
    BY <1>1, ThresholdKeysAre DEF NumberKeys
  <2>2. text[1] \in 0 .. UIntMax
    BY <1>1, <2>1 DEF Accepts, IsUnsigned
  <2> QED
    BY <1>1, <2>1, <2>2 DEF Stored, FieldOK
<1>2. CASE key = "log_max_size"
  <2>1. key \in NumberKeys /\ key \notin ThresholdKeys
    BY <1>2, ThresholdKeysAre DEF NumberKeys
  <2>2. text[1] \in 0 .. ULongMax
    BY <1>2, <2>1 DEF Accepts, IsUnsigned
  <2> QED
    BY <1>2, <2>1, <2>2 DEF Stored, FieldOK
<1>3. CASE key \in ThresholdKeys
  <2>1. key \in NumberKeys /\ key \notin UIntKeys \cup TextKeys \cup ListKeys
        /\ key # "log_max_size"
    BY <1>3, ThresholdKeysAre DEF NumberKeys
  <2>2. text[1] \in Int
    BY <1>3, <2>1 DEF Accepts, IsDouble
  <2> QED
    BY <1>3, <2>1, <2>2 DEF Stored, FieldOK
<1>4. CASE key \in TextKeys \cup {"process_names"}
  <2>1. key \notin NumberKeys /\ key \notin ThresholdKeys
    BY <1>4, ThresholdKeysAre DEF NumberKeys
  <2>2. Fits(text)
    BY <1>4, <2>1 DEF Accepts, IsList
  <2>3. Stored(key, text) = text
    BY <1>4, <2>1 DEF Stored
  <2> QED
    BY <1>4, <2>1, <2>2, <2>3 DEF FieldOK
<1>5. CASE key = "network_interfaces"
  <2>1. key \notin NumberKeys /\ key \notin ThresholdKeys
    BY <1>5, ThresholdKeysAre DEF NumberKeys
  <2>2. Fits(Trimmed(text))
    BY <1>5, <2>1 DEF Accepts, ValidInterfaces, IsList
  <2>3. Stored(key, text) = Trimmed(text)
    BY <1>5, <2>1 DEF Stored
  <2> QED
    BY <1>5, <2>1, <2>2, <2>3, TrimmedIsText DEF FieldOK
<1> QED
  BY <1>1, <1>2, <1>3, <1>4, <1>5 DEF Keys, NumberKeys

\* Whatever a line that is accepted sets, the result is a configuration.
LEMMA SetValueIsConfig ==
  ASSUME NEW c, IsConfig(c),
         NEW key \in Keys, NEW text \in Texts, Accepts(key, text)
  PROVE  IsConfig(SetValue(c, key, text))
<1> DEFINE d == SetValue(c, key, text)
<1>1. CASE key = "process_names"
  <2>1. d = [c EXCEPT !.process_names = text, !.process_name = <<text[1]>>]
    BY <1>1 DEF SetValue
  <2>2. DOMAIN d = Keys
    BY <2>1 DEF IsConfig
  <2>3. IsList(text, CONFIG_MAX_PROCESS_NAMES)
    BY <1>1, ThresholdKeysAre DEF Accepts, UIntKeys, TextKeys
  <2>4. Fits(text) /\ <<text[1]>> \in Texts /\ Fits(<<text[1]>>)
    BY <2>3, FirstOfList DEF IsList
  <2>5. "process_name" \notin UIntKeys \cup ThresholdKeys
        /\ "process_names" \notin UIntKeys \cup ThresholdKeys
    BY ThresholdKeysAre DEF UIntKeys
  <2>6. ASSUME NEW k \in Keys PROVE FieldOK(k, d[k])
    <3>1. CASE k = "process_names"
      BY <2>1, <2>4, <2>5, <3>1 DEF FieldOK, IsConfig
    <3>2. CASE k = "process_name"
      BY <2>1, <2>4, <2>5, <3>2 DEF FieldOK, IsConfig
    <3>3. CASE k # "process_names" /\ k # "process_name"
      <4>1. d[k] = c[k]
        BY <2>1, <3>3 DEF IsConfig
      <4> QED
        BY <4>1, ConfigFields
    <3> QED
      BY <3>1, <3>2, <3>3
  <2> QED
    BY <2>2, <2>6, FieldByField
<1>2. CASE key # "process_names"
  <2>1. d = [c EXCEPT ![key] = Stored(key, text)]
    BY <1>2 DEF SetValue
  <2>2. DOMAIN d = Keys
    BY <2>1 DEF IsConfig
  <2>3. ASSUME NEW k \in Keys PROVE FieldOK(k, d[k])
    <3>1. CASE k = key
      <4>1. d[k] = Stored(key, text)
        BY <2>1, <3>1 DEF IsConfig
      <4> QED
        BY <3>1, <4>1, StoredFits
    <3>2. CASE k # key
      <4>1. d[k] = c[k]
        BY <2>1, <3>2 DEF IsConfig
      <4> QED
        BY <4>1, ConfigFields
    <3> QED
      BY <3>1, <3>2
  <2> QED
    BY <2>2, <2>3, FieldByField
<1> QED
  BY <1>1, <1>2

-----------------------------------------------------------------------------
(* The meaning of a text, line by line.                                    *)

LEMMA AppendedText ==
  ASSUME NEW text \in Seq(Lines), NEW line \in Lines
  PROVE  LET longer == Append(text, line) IN
         /\ longer \in Seq(Lines)
         /\ DOMAIN longer = DOMAIN text \cup {Len(text) + 1}
         /\ Len(text) + 1 \notin DOMAIN text
         /\ longer[Len(text) + 1] = line
         /\ \A i \in DOMAIN text : longer[i] = text[i] /\ i < Len(text) + 1
         /\ \A i \in DOMAIN longer : i \in Nat
OBVIOUS

LEMMA LastOfAppend ==
  ASSUME NEW text \in Seq(Lines), NEW line \in Lines, NEW key \in Keys
  PROVE  Last(Append(text, line), key) =
         IF Sets(line, key) THEN {Len(text) + 1} ELSE Last(text, key)
<1> DEFINE longer == Append(text, line)
           n == Len(text) + 1
<1>1. /\ DOMAIN longer = DOMAIN text \cup {n}
      /\ n \notin DOMAIN text
      /\ longer[n] = line
      /\ \A i \in DOMAIN text : longer[i] = text[i] /\ i < n
      /\ \A i \in DOMAIN longer : i \in Nat
      /\ n \in Nat
  BY AppendedText
<1> HIDE DEF longer, n
<1>2. CASE Sets(line, key)
  BY <1>1, <1>2 DEF Last, longer, n
<1>3. CASE ~ Sets(line, key)
  BY <1>1, <1>3 DEF Last, longer
<1> QED
  BY <1>2, <1>3 DEF longer, n

LEMMA LastIsIndex ==
  ASSUME NEW text \in Seq(Lines), NEW key \in Keys
  PROVE  Last(text, key) \subseteq DOMAIN text
BY DEF Last

LEMMA SameLast ==
  ASSUME NEW text \in Seq(Lines), NEW line \in Lines, NEW key \in Keys,
         ~ Sets(line, key)
  PROVE  MeaningOf(Append(text, line), key) = MeaningOf(text, key)
<1> DEFINE longer == Append(text, line)
<1>1. Last(longer, key) = Last(text, key)
  BY LastOfAppend
<1>2. \A i \in Last(text, key) : longer[i] = text[i]
  BY AppendedText, LastIsIndex
<1>3. Last(text, key) # {} =>
         longer[The(Last(text, key))] = text[The(Last(text, key))]
  <2>1. Last(text, key) # {} => The(Last(text, key)) \in Last(text, key)
    BY DEF The
  <2> QED
    BY <1>2, <2>1
<1> QED
  BY <1>1, <1>3 DEF MeaningOf

\* A line that sets nothing changes nothing.
LEMMA MeaningOfOther ==
  ASSUME NEW text \in Seq(Lines), NEW line \in Lines, line.kind # "setting"
  PROVE  Meaning(Append(text, line)) = Meaning(text)
<1>1. \A key \in Keys : MeaningOf(Append(text, line), key) = MeaningOf(text, key)
  BY SameLast DEF Sets
<1> QED
  BY <1>1 DEF Meaning

\* A line that sets a key does what config_set_value does.
LEMMA MeaningOfSetting ==
  ASSUME NEW text \in Seq(Lines), NEW line \in Lines, Acceptable(line)
  PROVE  Meaning(Append(text, line)) =
         SetValue(Meaning(text), line.key, line.value)
<1> DEFINE longer == Append(text, line)
           set == SetValue(Meaning(text), line.key, line.value)
<1>1. line.kind = "setting" /\ line.key \in Keys
  BY DEF Acceptable
<1>2. set = [key \in Keys |-> set[key]]
  <2>1. CASE line.key = "process_names"
    BY <2>1 DEF SetValue, Meaning
  <2>2. CASE line.key # "process_names"
    BY <2>2 DEF SetValue, Meaning
  <2> QED
    BY <2>1, <2>2
<1>3. ASSUME NEW key \in Keys PROVE MeaningOf(longer, key) = set[key]
  <2>1. CASE ~ Sets(line, key)
    <3>1. line.key # key /\ ~ (key = "process_name" /\ line.key = "process_names")
      BY <1>1, <2>1 DEF Sets
    <3>2. set[key] = Meaning(text)[key]
      BY <3>1 DEF SetValue, Meaning
    <3> QED
      BY <2>1, <3>2, SameLast DEF Meaning
  <2>2. CASE Sets(line, key)
    <3>1. Last(longer, key) = {Len(text) + 1}
      BY <2>2, LastOfAppend
    <3>2. longer[The(Last(longer, key))] = line
      BY <3>1, AppendedText DEF The
    <3>3. MeaningOf(longer, key) =
             IF line.key = key THEN Stored(key, line.value)
             ELSE <<line.value[1]>>
      BY <3>1, <3>2 DEF MeaningOf
    <3>4. CASE line.key = key
      <4>1. key = "process_names" => Stored(key, line.value) = line.value
        BY ThresholdKeysAre DEF Stored, NumberKeys, UIntKeys
      <4>2. set[key] = Stored(key, line.value)
        BY <1>1, <3>4, <4>1 DEF SetValue, Meaning
      <4> QED
        BY <3>3, <3>4, <4>2
    <3>5. CASE line.key # key
      <4>1. key = "process_name" /\ line.key = "process_names"
        BY <2>2, <3>5 DEF Sets
      <4>2. set[key] = <<line.value[1]>>
        BY <4>1 DEF SetValue, Meaning
      <4> QED
        BY <3>3, <3>5, <4>2
    <3> QED
      BY <3>4, <3>5
  <2> QED
    BY <2>1, <2>2
<1> HIDE DEF set, longer
<1>4. Meaning(longer) = set
  BY <1>2, <1>3 DEF Meaning
<1> QED
  BY <1>4 DEF set, longer

LEMMA MeaningOfNothing == Meaning(<<>>) = Defaults
<1>1. \A key \in Keys : MeaningOf(<<>>, key) = Defaults[key]
  BY DEF MeaningOf, Last
<1>2. Defaults = [key \in Keys |-> Defaults[key]]
  <2>1. DOMAIN Defaults = Keys
    BY DefaultsAreConfig DEF IsConfig
  <2>2. Defaults = [key \in DOMAIN Defaults |-> Defaults[key]]
    BY SMT DEF Defaults
  <2> QED
    BY <2>1, <2>2
<1> QED
  BY <1>1, <1>2 DEF Meaning

-----------------------------------------------------------------------------
(* The targets of a valid configuration.                                   *)

LEMMA FunctionIsSeq ==
  ASSUME NEW S, NEW n \in Nat, NEW f \in [1 .. n -> S]
  PROVE  f \in Seq(S) /\ Len(f) = n
OBVIOUS

LEMMA ConfiguredTargets ==
  ASSUME IsConfig(config)
  PROVE  /\ Configured \in Seq([name : Texts, pid : Int])
         /\ Valid(config) => Monitorable(Configured)
<1> DEFINE names == config.process_names
           pid == AsInt(config.process_pid)
<1>1. config.process_pid \in 0 .. UIntMax
  BY DEF IsConfig, UIntKeys
<1>2. pid \in Int /\ (Valid(config) => pid >= 0)
  BY <1>1 DEF AsInt, Valid, ValidPid
<1>3. /\ names \in Texts /\ Fits(names)
      /\ config.process_name \in Texts /\ Fits(config.process_name)
  BY DEF IsConfig, TextKeys, ListKeys
<1> HIDE DEF pid
<1>4. CASE names # <<>>
  <2>1. Configured = [i \in DOMAIN names |-> [name |-> <<names[i]>>, pid |-> pid]]
    BY <1>4 DEF Configured, pid
  <2>2. /\ DOMAIN names = 1 .. Len(names) /\ Len(names) \in Nat
        /\ \A i \in 1 .. Len(names) :
              names[i] \in Int \cup Words /\ names[i] # TooLong
    BY <1>3 DEF Texts, Fits
  <2>3. \A i \in 1 .. Len(names) :
           <<names[i]>> \in Texts /\ Fits(<<names[i]>>)
    BY <2>2 DEF Texts, Fits
  <2> HIDE DEF names
  <2>4. Configured \in [1 .. Len(names) -> [name : Texts, pid : Int]]
    BY <1>2, <2>1, <2>2, <2>3
  <2>5. Configured \in Seq([name : Texts, pid : Int])
        /\ Len(Configured) = Len(names)
    BY <2>2, <2>4, FunctionIsSeq
  <2>6. Valid(config) => Len(names) =< MAX_MONITORED_PROCESSES
    <3>1. Valid(config) => Len(names) =< CONFIG_MAX_PROCESS_NAMES
      BY DEF Valid, names
    <3> QED
      BY <2>2, <3>1
  <2>7. \A i \in DOMAIN Configured :
           Configured[i].pid = pid /\ Fits(Configured[i].name)
    BY <2>1, <2>2, <2>3
  <2> QED
    BY <1>2, <2>5, <2>6, <2>7 DEF Monitorable
<1>5. CASE names = <<>>
  <2>1. Configured = <<[name |-> config.process_name, pid |-> pid]>>
    BY <1>5 DEF Configured, pid
  <2> QED
    BY <1>2, <1>3, <2>1 DEF Monitorable
<1> QED
  BY <1>4, <1>5

-----------------------------------------------------------------------------
(* The targets a text names.                                               *)

\* The lines that set a key, and what the last of them sets it to.
Setters(text, key) ==
    {i \in DOMAIN text : text[i].kind = "setting" /\ text[i].key = key}
LastValue(text, key) ==
    text[CHOOSE i \in Setters(text, key) :
            \A j \in Setters(text, key) : j =< i].value

LEMMA MeaningOfSetters ==
  ASSUME NEW text \in Seq(Lines), NEW key \in Keys,
         key # "process_name" \/ Setters(text, "process_names") = {}
  PROVE  /\ Setters(text, key) = {} => MeaningOf(text, key) = Defaults[key]
         /\ Setters(text, key) # {} =>
               /\ MeaningOf(text, key) = Stored(key, LastValue(text, key))
               /\ \E i \in Setters(text, key) :
                     LastValue(text, key) = text[i].value
<1> DEFINE S == Setters(text, key)
<1>1. \A i \in DOMAIN text : Sets(text[i], key) <=> i \in S
  BY DEF Sets, Setters
<1>2. S \subseteq DOMAIN text /\ DOMAIN text = 1 .. Len(text) /\ Len(text) \in Nat
  BY DEF Setters
<1>3. \A i \in S : text[i].key = key
  BY DEF Setters
<1>4. LastValue(text, key) = text[CHOOSE i \in S : \A j \in S : j =< i].value
  BY DEF LastValue
<1> HIDE DEF S
<1>5. Last(text, key) = {i \in S : \A j \in S : j =< i}
  BY <1>1, <1>2 DEF Last
<1>6. CASE S = {}
  BY <1>5, <1>6 DEF MeaningOf, S
<1>7. CASE S # {}
  <2>1. PICK n \in S : \A j \in S : j =< n
    BY <1>2, <1>7, LastElement
  <2>2. \A i \in S : (\A j \in S : j =< i) => i = n
    BY <1>2, <2>1
  <2>3. (CHOOSE i \in S : \A j \in S : j =< i) = n
    BY <2>1, <2>2
  <2>4. Last(text, key) = {n}
    BY <1>5, <2>1, <2>2
  <2>5. The(Last(text, key)) = n
    BY <2>4 DEF The
  <2>6. MeaningOf(text, key) = Stored(key, text[n].value)
    BY <1>3, <2>1, <2>4, <2>5 DEF MeaningOf
  <2> QED
    BY <1>4, <1>7, <2>1, <2>3, <2>6 DEF S
<1> QED
  BY <1>6, <1>7

\* A text whose lines are all acceptable says of a key nothing, or what
\* config_set_value accepts.
LEMMA AcceptedMeaning ==
  ASSUME NEW text \in Seq(Lines), AllAcceptable(text), NEW key \in Keys,
         key # "process_name" \/ Setters(text, "process_names") = {}
  PROVE  /\ Setters(text, key) = {} => Meaning(text)[key] = Defaults[key]
         /\ Setters(text, key) # {} =>
               /\ Meaning(text)[key] = Stored(key, LastValue(text, key))
               /\ LastValue(text, key) \in Texts
               /\ LastValue(text, key) # <<>>
               /\ Accepts(key, LastValue(text, key))
<1>1. Meaning(text)[key] = MeaningOf(text, key)
  BY DEF Meaning
<1>2. ASSUME NEW i \in Setters(text, key)
      PROVE  /\ text[i].value \in Texts /\ text[i].value # <<>>
             /\ Accepts(key, text[i].value)
  <2>1. i \in DOMAIN text /\ text[i].kind = "setting" /\ text[i].key = key
    BY DEF Setters
  <2>2. Acceptable(text[i]) /\ text[i] \in Lines
    BY <2>1 DEF AllAcceptable
  <2> QED
    BY <2>1, <2>2, LineAssumption DEF Acceptable
<1> QED
  BY <1>1, <1>2, MeaningOfSetters

TargetText(target) == IF target.name # <<>> THEN target.name ELSE <<target.pid>>

\* What README.md says of the order of precedence is what the targets are.
LEMMA TargetsOfMeaning ==
  ASSUME NEW text \in Seq(Lines), AllAcceptable(text),
         config = Meaning(text), ValidPid(config)
  PROVE  DocumentedTargets(text) =
            {TargetText(Configured[i]) : i \in DOMAIN Configured}
<1> DEFINE S(key) == Setters(text, key)
           last(key) == LastValue(text, key)
<1>1. DocumentedTargets(text) =
         IF S("process_names") # {}
         THEN {<<name>> : name \in {last("process_names")[i] :
                                       i \in DOMAIN last("process_names")}}
         ELSE IF S("process_name") # {} THEN {last("process_name")}
         ELSE IF S("process_pid") # {} THEN {last("process_pid")}
         ELSE {<<0>>}
  BY DEF DocumentedTargets, Setters, LastValue
<1>2. {"process_names", "process_name", "process_pid"} \subseteq Keys
      /\ "process_pid" \in NumberKeys
      /\ {"process_names", "process_name"} \cap NumberKeys = {}
  BY ThresholdKeysAre DEF Keys, NumberKeys, UIntKeys, TextKeys, ListKeys
<1>3. CASE S("process_names") # {}
  <2> DEFINE names == last("process_names")
  <2>1. /\ config.process_names = Stored("process_names", names)
        /\ Accepts("process_names", names)
        /\ names # <<>>
    BY <1>2, <1>3, AcceptedMeaning
  <2>2. config.process_names = names
    BY <1>2, <2>1 DEF Stored
  <2> HIDE DEF names
  <2>3. Configured = [i \in DOMAIN names |-> [name |-> <<names[i]>>,
                                            pid |-> AsInt(config.process_pid)]]
    BY <2>1, <2>2 DEF Configured
  <2>4. \A i \in DOMAIN names : TargetText(Configured[i]) = <<names[i]>>
    BY <2>3 DEF TargetText
  <2>5. DOMAIN Configured = DOMAIN names
    BY <2>3
  <2>6. DocumentedTargets(text) = {<<names[i]>> : i \in DOMAIN names}
    BY <1>1, <1>3 DEF names
  <2> QED
    BY <2>4, <2>5, <2>6
<1>4. CASE S("process_names") = {}
  <2>1. config.process_names = <<>>
    BY <1>2, <1>4, AcceptedMeaning, SMT DEF Defaults
  <2>2. Configured = <<[name |-> config.process_name,
                       pid |-> AsInt(config.process_pid)]>>
    BY <2>1 DEF Configured
  <2>3. {TargetText(Configured[i]) : i \in DOMAIN Configured} =
           {IF config.process_name # <<>> THEN config.process_name
            ELSE <<AsInt(config.process_pid)>>}
    BY <2>2 DEF TargetText
  <2>4. CASE S("process_name") # {}
    <3>1. config.process_name = last("process_name") /\ last("process_name") # <<>>
      BY <1>2, <1>4, <2>4, AcceptedMeaning DEF Stored
    <3> QED
      BY <1>1, <1>4, <2>3, <2>4, <3>1
  <2>5. CASE S("process_name") = {}
    <3>1. config.process_name = <<>>
      BY <1>2, <1>4, <2>5, AcceptedMeaning, SMT DEF Defaults
    <3>2. CASE S("process_pid") # {}
      <4> DEFINE pid == last("process_pid")
      <4>1. /\ config.process_pid = Stored("process_pid", pid)
            /\ Accepts("process_pid", pid) /\ pid \in Texts
        BY <1>2, <3>2, AcceptedMeaning
      <4> HIDE DEF pid
      <4>2. config.process_pid = pid[1]
        BY <1>2, <4>1 DEF Stored
      <4>3. IsUnsigned(pid, UIntMax)
        BY <4>1, ThresholdKeysAre DEF Accepts, UIntKeys, TextKeys
      <4>4. pid = <<pid[1]>>
        BY <4>1, <4>3 DEF IsUnsigned, Texts
      <4>5. AsInt(config.process_pid) = pid[1]
        BY <4>2 DEF AsInt, ValidPid
      <4> QED
        BY <1>1, <1>4, <2>3, <2>5, <3>1, <3>2, <4>4, <4>5 DEF pid
    <3>3. CASE S("process_pid") = {}
      <4>1. config.process_pid = 0
        BY <1>2, <3>3, AcceptedMeaning, SMT DEF Defaults
      <4>2. AsInt(config.process_pid) = 0
        BY <4>1 DEF AsInt
      <4> QED
        BY <1>1, <1>4, <2>3, <2>5, <3>1, <3>3, <4>2
    <3> QED
      BY <3>2, <3>3
  <2> QED
    BY <2>4, <2>5
<1> QED
  BY <1>3, <1>4

-----------------------------------------------------------------------------
(* The inductive invariant.                                                *)

\* As long as no line was refused, config_load's copy is what the lines read so
\* far mean; so is the configuration a reload validates and applies, and the one
\* in force when the targets are set up, unless it is the defaults.
TextInv ==
    /\ pc = "load" => hist.text = <<>>
    /\ starting /\ pc \in {"load", "lines", "close"} => config = Defaults
    /\ ~ starting /\ pc = "load" => reloaded_config = Defaults
    /\ pc \in {"lines", "close"} /\ ~ has_error =>
          AllAcceptable(hist.text) /\ loaded_config = Meaning(hist.text)
    /\ pc \in {"validate", "apply"} /\ ~ starting =>
          AllAcceptable(hist.text) /\ reloaded_config = Meaning(hist.text)
    /\ pc = "targets" \/ (pc = "validate" /\ starting) =>
          \/ config = Defaults
          \/ AllAcceptable(hist.text) /\ config = Meaning(hist.text)

\* Only validated configurations are in force, and they set up their targets.
ValidInv ==
    /\ pc \in {"targets", "run"} \/ ~ starting => Valid(config)
    /\ pc = "apply" => Valid(reloaded_config) /\ ~ starting
    /\ pc # "failed"

IInv == TypeOK /\ TextInv /\ ValidInv

LEMMA InitEstablishes == Init => IInv
<1> SUFFICES ASSUME Init PROVE IInv
  OBVIOUS
<1>1. TypeOK
  <2>1. hist \in [text : Seq(Lines), cut : BOOLEAN]
    BY DEF Init, NewHistory
  <2>2. targets \in Seq([name : Texts, pid : Int])
    BY DEF Init
  <2> QED
    BY <2>1, <2>2, DefaultsAreConfig DEF Init, TypeOK
<1>2. TextInv
  BY DEF Init, TextInv, NewHistory
<1>3. ValidInv
  BY DEF Init, ValidInv
<1> QED
  BY <1>1, <1>2, <1>3 DEF IInv

\* What a line changes.
LEMMA LinePreserves ==
  ASSUME IInv, NEW line \in Lines,
         SkipLine(line) \/ SetLine(line) \/ RefuseLine(line)
  PROVE  IInv'
<1>1. /\ pc = "lines" /\ pc' = "lines"
      /\ UNCHANGED <<starting, config, reloaded_config, targets>>
      /\ hist'.text = Append(hist.text, line) /\ hist'.cut = hist.cut
  <2>1. pc = "lines" /\ UNCHANGED <<pc, starting, config, reloaded_config, targets>>
    BY DEF SkipLine, SetLine, RefuseLine, Reads
  <2>2. hist' = [hist EXCEPT !.text = Append(@, line)]
    BY DEF SkipLine, SetLine, RefuseLine, Reads
  <2> QED
    BY <2>1, <2>2
<1>2. /\ hist.text \in Seq(Lines) /\ hist'.text \in Seq(Lines)
      /\ hist' \in [text : Seq(Lines), cut : BOOLEAN]
  <2>1. hist \in [text : Seq(Lines), cut : BOOLEAN]
    BY DEF IInv, TypeOK
  <2>2. Append(hist.text, line) \in Seq(Lines)
    BY <2>1, AppendedText
  <2>3. hist' = [hist EXCEPT !.text = Append(@, line)]
    BY DEF SkipLine, SetLine, RefuseLine, Reads
  <2> QED
    BY <1>1, <2>1, <2>2, <2>3
<1>3. AllAcceptable(hist.text) /\ (line.kind = "skipped" \/ Acceptable(line))
      => AllAcceptable(hist'.text)
  BY <1>1, <1>2, AppendedText DEF AllAcceptable
<1>4. ValidInv'
  BY <1>1 DEF IInv, ValidInv
<1>5. CASE SkipLine(line)
  <2>1. loaded_config' = loaded_config /\ has_error' = has_error
        /\ line.kind = "skipped"
    BY <1>5 DEF SkipLine
  <2>2. TypeOK'
    BY <1>1, <1>2, <2>1 DEF IInv, TypeOK
  <2>3. Meaning(hist'.text) = Meaning(hist.text)
    BY <1>1, <1>2, <2>1, MeaningOfOther
  <2>4. TextInv'
    BY <1>1, <1>3, <2>1, <2>3 DEF IInv, TextInv
  <2> QED
    BY <1>4, <2>2, <2>4 DEF IInv
<1>6. CASE SetLine(line)
  <2>1. /\ Acceptable(line) /\ has_error' = has_error
        /\ loaded_config' = SetValue(loaded_config, line.key, line.value)
    BY <1>6 DEF SetLine, ErrorAfterSetting
  <2>2. IsConfig(loaded_config')
    <3>1. line.key \in Keys /\ line.value \in Texts
          /\ Accepts(line.key, line.value)
      BY <2>1, LineAssumption DEF Acceptable
    <3>2. IsConfig(loaded_config)
      BY DEF IInv, TypeOK
    <3> QED
      BY <2>1, <3>1, <3>2, SetValueIsConfig
  <2>3. TypeOK'
    BY <1>1, <1>2, <2>1, <2>2 DEF IInv, TypeOK
  <2>4. Meaning(hist'.text) = SetValue(Meaning(hist.text), line.key, line.value)
    BY <1>1, <1>2, <2>1, MeaningOfSetting
  <2>5. TextInv'
    BY <1>1, <1>3, <2>1, <2>4 DEF IInv, TextInv
  <2> QED
    BY <1>4, <2>3, <2>5 DEF IInv
<1>7. CASE RefuseLine(line)
  <2>1. has_error' = TRUE /\ loaded_config' = loaded_config
    BY <1>7 DEF RefuseLine
  <2>2. TypeOK'
    BY <1>1, <1>2, <2>1 DEF IInv, TypeOK
  <2>3. TextInv'
    BY <1>1, <2>1 DEF IInv, TextInv
  <2> QED
    BY <1>4, <2>2, <2>3 DEF IInv
<1> QED
  BY <1>5, <1>6, <1>7

LEMMA LoadPreserves ==
  ASSUME IInv, OpenFails \/ Open \/ EndOfFile \/ ReadFails \/ CloseFails \/ Close
  PROVE  IInv'
<1>1. CASE OpenFails \/ CloseFails
  <2>1. /\ pc \in {"load", "close"}
        /\ pc' = IF starting THEN "validate" ELSE "run"
        /\ UNCHANGED <<starting, config, reloaded_config, loaded_config, has_error,
                       targets, hist>>
    BY <1>1 DEF OpenFails, CloseFails, LoadFails
  <2>2. TypeOK'
    BY <2>1 DEF IInv, TypeOK
  <2>3. TextInv'
    BY <2>1 DEF IInv, TextInv
  <2>4. ValidInv'
    BY <2>1 DEF IInv, ValidInv
  <2> QED
    BY <2>2, <2>3, <2>4 DEF IInv
<1>2. CASE Open
  <2>1. /\ pc = "load" /\ pc' = "lines" /\ has_error' = FALSE
        /\ loaded_config' = IF starting THEN config ELSE reloaded_config
        /\ UNCHANGED <<starting, config, reloaded_config, targets, hist>>
    BY <1>2 DEF Open
  <2>2. TypeOK'
    BY <2>1 DEF IInv, TypeOK
  <2>3. hist.text = <<>> /\ loaded_config' = Defaults
    BY <2>1 DEF IInv, TextInv, TypeOK
  <2>4. AllAcceptable(hist'.text) /\ loaded_config' = Meaning(hist'.text)
    BY <2>1, <2>3, MeaningOfNothing DEF AllAcceptable
  <2>5. TextInv'
    BY <2>1, <2>4 DEF IInv, TextInv
  <2>6. ValidInv'
    BY <2>1 DEF IInv, ValidInv
  <2> QED
    BY <2>2, <2>5, <2>6 DEF IInv
<1>3. CASE EndOfFile \/ ReadFails
  <2>1. /\ pc = "lines" /\ pc' = "close"
        /\ UNCHANGED <<starting, config, reloaded_config, loaded_config, has_error,
                       targets>>
        /\ hist' = hist \/ hist' = [hist EXCEPT !.cut = TRUE]
    BY <1>3 DEF EndOfFile, ReadFails
  <2>2. hist'.text = hist.text
        /\ hist' \in [text : Seq(Lines), cut : BOOLEAN]
    BY <2>1 DEF IInv, TypeOK
  <2>3. TypeOK'
    BY <2>1, <2>2 DEF IInv, TypeOK
  <2>4. TextInv'
    BY <2>1, <2>2 DEF IInv, TextInv
  <2>5. ValidInv'
    BY <2>1 DEF IInv, ValidInv
  <2> QED
    BY <2>3, <2>4, <2>5 DEF IInv
<1>4. CASE Close
  <2>1. CASE has_error
    <3>1. /\ pc = "close"
          /\ pc' = IF starting THEN "validate" ELSE "run"
          /\ UNCHANGED <<starting, config, reloaded_config, loaded_config,
                         has_error, targets, hist>>
      BY <1>4, <2>1 DEF Close, LoadFails
    <3>2. TypeOK'
      BY <3>1 DEF IInv, TypeOK
    <3>3. TextInv'
      BY <3>1 DEF IInv, TextInv
    <3>4. ValidInv'
      BY <3>1 DEF IInv, ValidInv
    <3> QED
      BY <3>2, <3>3, <3>4 DEF IInv
  <2>2. CASE ~ has_error
    <3>1. /\ pc = "close" /\ pc' = "validate"
          /\ UNCHANGED <<starting, loaded_config, has_error, targets, hist>>
      BY <1>4, <2>2 DEF Close
    <3>2. /\ starting => config' = loaded_config /\ reloaded_config' = reloaded_config
          /\ ~ starting => reloaded_config' = loaded_config /\ config' = config
      BY <1>4, <2>2 DEF Close
    <3>3. TypeOK'
      BY <3>1, <3>2 DEF IInv, TypeOK
    <3>4. TextInv'
      BY <2>2, <3>1, <3>2 DEF IInv, TextInv
    <3>5. ValidInv'
      BY <3>1, <3>2 DEF IInv, ValidInv
    <3> QED
      BY <3>3, <3>4, <3>5 DEF IInv
  <2> QED
    BY <2>1, <2>2
<1> QED
  BY <1>1, <1>2, <1>3, <1>4

LEMMA CallersPreserve ==
  ASSUME IInv,
         ValidateAtStart \/ ValidateReloaded \/ ApplyFails \/ Apply
            \/ SetUpTargets \/ Reload
  PROVE  IInv'
<1>1. CASE ValidateAtStart
  <2>1. /\ pc = "validate" /\ pc' = "targets" /\ starting
        /\ config' = Fallback
        /\ UNCHANGED <<starting, reloaded_config, loaded_config, has_error,
                       targets, hist>>
    BY <1>1 DEF ValidateAtStart
  <2>2. IsConfig(config') /\ Valid(config')
    BY <2>1, DefaultsAreConfig, DefaultsAreValid DEF Fallback, IInv, TypeOK
  <2>3. TypeOK'
    BY <2>1, <2>2 DEF IInv, TypeOK
  <2>4. TextInv'
    <3>1. config' = Defaults \/ config' = config
      BY <2>1 DEF Fallback
    <3>2. config = Defaults \/ (AllAcceptable(hist.text) /\ config = Meaning(hist.text))
      BY <2>1 DEF IInv, TextInv
    <3>3. \/ config' = Defaults
          \/ AllAcceptable(hist'.text) /\ config' = Meaning(hist'.text)
      BY <2>1, <3>1, <3>2
    <3> QED
      BY <2>1, <3>3 DEF TextInv
  <2>5. ValidInv'
    BY <2>1, <2>2 DEF IInv, ValidInv
  <2> QED
    BY <2>3, <2>4, <2>5 DEF IInv
<1>2. CASE ValidateReloaded \/ ApplyFails
  <2>1. /\ ~ starting /\ pc \in {"validate", "apply"}
        /\ pc' \in {"apply", "run"}
        /\ pc' = "apply" => Valid(reloaded_config)
        /\ UNCHANGED <<starting, config, reloaded_config, loaded_config,
                       has_error, targets, hist>>
    BY <1>2 DEF ValidateReloaded, ApplyFails, IInv, ValidInv
  <2>2. TypeOK'
    BY <2>1 DEF IInv, TypeOK
  <2>3. TextInv'
    BY <2>1 DEF IInv, TextInv
  <2>4. ValidInv'
    BY <2>1 DEF IInv, ValidInv
  <2> QED
    BY <2>2, <2>3, <2>4 DEF IInv
<1>3. CASE Apply
  <2>1. /\ pc = "apply" /\ pc' = "targets" /\ config' = reloaded_config
        /\ UNCHANGED <<starting, reloaded_config, loaded_config, has_error,
                       targets, hist>>
    BY <1>3 DEF Apply
  <2>2. TypeOK'
    BY <2>1 DEF IInv, TypeOK
  <2>3. TextInv'
    <3>1. ~ starting
      BY <2>1 DEF IInv, ValidInv
    <3>2. AllAcceptable(hist.text) /\ reloaded_config = Meaning(hist.text)
      BY <2>1, <3>1 DEF IInv, TextInv
    <3>3. AllAcceptable(hist'.text) /\ config' = Meaning(hist'.text)
      BY <2>1, <3>2
    <3> QED
      BY <2>1, <3>1, <3>3 DEF TextInv
  <2>4. ValidInv'
    <3>1. Valid(config')
      BY <2>1 DEF IInv, ValidInv
    <3> QED
      BY <2>1, <3>1 DEF ValidInv
  <2> QED
    BY <2>2, <2>3, <2>4 DEF IInv
<1>4. CASE SetUpTargets
  <2>1. IsConfig(config) /\ Valid(config) /\ pc = "targets"
    BY <1>4 DEF SetUpTargets, IInv, TypeOK, ValidInv
  <2>2. /\ Monitorable(Configured)
        /\ Configured \in Seq([name : Texts, pid : Int])
    BY <2>1, ConfiguredTargets
  <2>3. /\ pc' = "run" /\ targets' = Configured
        /\ UNCHANGED <<starting, config, reloaded_config, loaded_config,
                       has_error, hist>>
    BY <1>4, <2>2 DEF SetUpTargets
  <2>4. TypeOK'
    BY <2>2, <2>3 DEF IInv, TypeOK
  <2>5. TextInv'
    BY <2>3 DEF IInv, TextInv
  <2>6. ValidInv'
    BY <2>1, <2>3 DEF IInv, ValidInv
  <2> QED
    BY <2>4, <2>5, <2>6 DEF IInv
<1>5. CASE Reload
  <2>1. /\ pc = "run" /\ pc' = "load" /\ starting' = FALSE
        /\ reloaded_config' = Defaults /\ loaded_config' = Defaults
        /\ has_error' = FALSE
        /\ UNCHANGED <<config, targets>>
    BY <1>5 DEF Reload, ReloadBase
  <2>2. hist'.text = <<>> /\ hist' \in [text : Seq(Lines), cut : BOOLEAN]
    BY <1>5 DEF Reload, NewHistory
  <2>3. TypeOK'
    BY <2>1, <2>2, DefaultsAreConfig DEF IInv, TypeOK
  <2>4. TextInv'
    BY <2>1, <2>2 DEF IInv, TextInv
  <2>5. ValidInv'
    BY <2>1 DEF IInv, ValidInv
  <2> QED
    BY <2>3, <2>4, <2>5 DEF IInv
<1> QED
  BY <1>1, <1>2, <1>3, <1>4, <1>5

LEMMA StutterPreserves == IInv /\ UNCHANGED vars => IInv'
<1> SUFFICES ASSUME IInv, UNCHANGED vars PROVE IInv'
  OBVIOUS
<1>1. TypeOK'
  BY DEF IInv, TypeOK, vars
<1>2. TextInv'
  BY DEF IInv, TextInv, vars
<1>3. ValidInv'
  BY DEF IInv, ValidInv, vars
<1> QED
  BY <1>1, <1>2, <1>3 DEF IInv

LEMMA NextPreserves == IInv /\ [Next]_vars => IInv'
BY LinePreserves, LoadPreserves, CallersPreserve, StutterPreserves DEF Next

LEMMA Invariant == Spec => []IInv
BY InitEstablishes, NextPreserves, PTL DEF Spec

-----------------------------------------------------------------------------
(* The theorems.                                                           *)

\* The type invariant: every field of the three configurations is in its range.
THEOREM TypeCorrect == Spec => []TypeOK
<1>1. IInv => TypeOK
  BY DEF IInv
<1> QED
  BY <1>1, Invariant, PTL

\* Whatever the lines of the file, a configuration in force is a usable one.
THEOREM InForceIsAlwaysUsable == Spec => []InForceIsUsable
<1>1. IInv => InForceIsUsable
  <2> SUFFICES ASSUME IInv, pc \in {"targets", "run"} \/ ~ starting
               PROVE  InForceIsUsable
    BY DEF InForceIsUsable
  <2>1. Valid(config) /\ IsConfig(config)
    BY DEF IInv, ValidInv, TypeOK
  <2>2. \A i, j \in DOMAIN config.network_interfaces :
           config.network_interfaces[i] = config.network_interfaces[j] => i = j
    <3>1. CASE config.network_interfaces = <<>>
      BY <3>1
    <3>2. CASE IsList(config.network_interfaces, CONFIG_MAX_NETWORK_INTERFACES)
      BY <3>2 DEF IsList
    <3> QED
      BY <2>1, <3>1, <3>2 DEF Valid
  <2>3. /\ config.monitor_interval > 0 /\ config.log_max_size > 0
        /\ config.log_file # <<>>
        /\ config.notification_enabled = 1 => config.notification_command # <<>>
    BY <2>1 DEF Valid
  <2>4. \A pair \in ThresholdPairs :
           0 =< config[pair[1]] /\ config[pair[1]] < config[pair[2]]
    BY <2>1 DEF Valid
  <2> QED
    BY <2>2, <2>3, <2>4 DEF InForceIsUsable
<1> QED
  BY <1>1, Invariant, PTL

\* No configuration that was accepted ends the daemon when it sets up targets.
THEOREM TargetsAlwaysMonitorable == Spec => []TargetsMonitorable
<1>1. IInv => TargetsMonitorable
  BY DEF IInv, ValidInv, TargetsMonitorable
<1> QED
  BY <1>1, Invariant, PTL

\* The configuration in force only ever becomes what one whole text means.
THEOREM WholeTextLoaded == Spec => WholeTextOrNothing
<1> DEFINE Whole ==
       config' # config /\ config' # Defaults =>
          AllAcceptable(hist.text) /\ config' = Meaning(hist.text)
<1>1. ASSUME IInv, Next PROVE Whole
  <2>1. CASE Close
    BY <1>1, <2>1 DEF Close, LoadFails, IInv, TextInv
  <2>2. CASE Apply
    BY <1>1, <2>2 DEF Apply, IInv, TextInv, ValidInv
  <2>3. CASE ValidateAtStart
    BY <2>3 DEF ValidateAtStart, Fallback
  <2>4. CASE ~ (Close \/ Apply \/ ValidateAtStart)
    <3>1. config' = config
      BY <1>1, <2>4 DEF Next, OpenFails, CloseFails, LoadFails, Open, SkipLine,
            SetLine, RefuseLine, Reads, EndOfFile, ReadFails, ValidateReloaded,
            ApplyFails, SetUpTargets, Reload
    <3> QED
      BY <3>1
  <2> QED
    BY <2>1, <2>2, <2>3, <2>4
<1>2. IInv /\ [Next]_vars => [Whole]_vars
  BY <1>1
<1> QED
  BY <1>2, Invariant, PTL DEF Spec, WholeTextOrNothing

\* The targets are those the text in force names, in the order of precedence of
\* README.md, in whatever order the lines come.
THEOREM TargetsFollowTheText == Spec => TargetsAsDocumented
<1> DEFINE Documented ==
       pc = "targets" /\ pc' = "run" /\ config # Defaults =>
          DocumentedTargets(hist.text) =
             {IF targets'[i].name # <<>> THEN targets'[i].name
              ELSE <<targets'[i].pid>> : i \in DOMAIN targets'}
<1>1. ASSUME IInv, Next, pc = "targets", pc' = "run", config # Defaults
      PROVE  DocumentedTargets(hist.text) =
                {TargetText(targets'[i]) : i \in DOMAIN targets'}
  <2>1. SetUpTargets
    BY <1>1 DEF Next, OpenFails, CloseFails, LoadFails, Open, SkipLine,
          SetLine, RefuseLine, Reads, EndOfFile, ReadFails, Close,
          ValidateAtStart, ValidateReloaded, ApplyFails, Apply, Reload
  <2>2. targets' = Configured
    BY <1>1, <2>1 DEF SetUpTargets
  <2>3. AllAcceptable(hist.text) /\ config = Meaning(hist.text)
    BY <1>1 DEF IInv, TextInv
  <2>4. ValidPid(config) /\ hist.text \in Seq(Lines)
    BY <1>1 DEF IInv, ValidInv, Valid, TypeOK
  <2> QED
    BY <2>2, <2>3, <2>4, TargetsOfMeaning
<1>2. IInv /\ Next => Documented
  BY <1>1 DEF TargetText
<1>3. IInv /\ [Next]_vars => [Documented]_vars
  BY <1>2
<1> QED
  BY <1>3, Invariant, PTL DEF Spec, TargetsAsDocumented

=============================================================================
