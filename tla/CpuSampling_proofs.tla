------------------------- MODULE CpuSampling_proofs -------------------------
(***************************************************************************)
(* Proofs about CpuSampling, for counters of any width.                    *)
(***************************************************************************)
EXTENDS CpuSampling, TLAPS

LEMMA WordFacts == Word \in Nat /\ Word > 2 * MaxSpent /\ MaxSpent \in Nat \ {0}
BY CpuAssumption

\* The remainder of a number is the one number below Word that differs from it
\* by a multiple of Word.
LEMMA Remainder ==
    ASSUME NEW w \in Nat \ {0}, NEW r \in 0 .. w - 1
    PROVE  /\ r % w = r
           /\ (r + w) % w = r /\ (r - w) % w = r
           /\ (r + 2 * w) % w = r /\ (r - 2 * w) % w = r
OBVIOUS

\* A counter after some time: it has grown by that time, or wrapped once.
LEMMA Wrapped ==
    ASSUME NEW before \in 0 .. Word - 1, NEW time \in -1 .. MaxSpent
    PROVE  /\ (before + time) % Word \in 0 .. Word - 1
           /\ \E k \in {-1, 0, 1} : (before + time) % Word = before + time + k * Word
<1>1. /\ Word \in Nat \ {0} /\ Word > 2 * MaxSpent /\ MaxSpent \in Nat \ {0}
      /\ before \in Int /\ time \in Int
  BY WordFacts
<1>2. CASE before + time < 0
  <2>1. before + time + Word \in 0 .. Word - 1
    BY <1>1, <1>2
  <2>2. ((before + time + Word) - Word) % Word = before + time + Word
    BY <1>1, <2>1, Remainder
  <2>3. (before + time + Word) - Word = before + time
    BY <1>1
  <2> QED BY <1>1, <2>1, <2>2, <2>3
<1>3. CASE before + time \in 0 .. Word - 1
  <2>1. (before + time) % Word = before + time
    BY <1>1, <1>3, Remainder
  <2>2. (before + time) % Word = before + time + 0 * Word
    BY <1>1, <2>1
  <2> QED BY <1>3, <2>1, <2>2
<1>4. CASE before + time >= Word
  <2>1. before + time - Word \in 0 .. Word - 1
    BY <1>1, <1>4
  <2>2. ((before + time - Word) + Word) % Word = before + time - Word
    BY <1>1, <2>1, Remainder
  <2>3. (before + time - Word) + Word = before + time
    BY <1>1
  <2> QED BY <1>1, <2>1, <2>2, <2>3
<1> QED BY <1>1, <1>2, <1>3, <1>4

\* A number known up to a few multiples of Word.
LEMMA Unwrapped ==
    ASSUME NEW r \in 0 .. Word - 1, NEW k \in {-2, -1, 0, 1, 2}
    PROVE  (r + k * Word) % Word = r
<1>1. Word \in Nat \ {0} /\ r \in Int
  BY WordFacts
<1>2. /\ r + 0 * Word = r /\ r + 1 * Word = r + Word /\ r + 2 * Word = r + 2 * Word
      /\ r + (-1) * Word = r - Word /\ r + (-2) * Word = r - 2 * Word
  BY <1>1
<1> QED BY <1>1, <1>2, Remainder

\* The usage between two readings is the share of the time at work, unless the
\* time taken back from iowait cancels the rest.
LEMMA UsageOfReadings ==
    ASSUME NEW before \in Readings, NEW time \in Spent,
           NEW usage, usage = CalculateCpuUsage(before, Advanced(before, time))
    PROVE  LET whole == time.work + time.idle
           IN  /\ usage.whole \in Nat \ {0}
               /\ whole > 0 => usage.part = time.work /\ usage.whole = whole
               /\ ~ (whole > 0) => usage.part = 0
<1> DEFINE bw == before.work
           bi == before.idle
           tw == time.work
           ti == time.idle
           aw == (bw + tw) % Word
           ai == (bi + ti) % Word
           idle == (ai - bi) % Word
           total == (aw + ai - bw - bi) % Word
<1>1. /\ Word \in Nat \ {0} /\ Word > 2 * MaxSpent /\ MaxSpent \in Nat \ {0}
      /\ bw \in 0 .. Word - 1 /\ bi \in 0 .. Word - 1
      /\ tw \in 0 .. MaxSpent /\ ti \in -1 .. MaxSpent - 1
      /\ tw \in -1 .. MaxSpent /\ ti \in -1 .. MaxSpent
  BY WordFacts DEF Readings, Spent
<1>2. usage = [part |-> IF total = 0 THEN 0 ELSE (total - idle) % Word,
               whole |-> IF total = 0 THEN 1 ELSE total]
  BY DEF CalculateCpuUsage, Advanced
<1>3. PICK j \in {-1, 0, 1} : aw = bw + tw + j * Word
  BY <1>1, Wrapped
<1>4. PICK k \in {-1, 0, 1} : ai = bi + ti + k * Word
  BY <1>1, Wrapped
<1> HIDE DEF bw, bi, tw, ti, aw, ai
<1>5. /\ ai - bi = ti + k * Word
      /\ aw + ai - bw - bi = tw + ti + (j + k) * Word
      /\ j + k \in {-2, -1, 0, 1, 2}
  BY <1>1, <1>3, <1>4
<1>6. CASE tw + ti >= 0
  <2>1. total = tw + ti
    BY <1>1, <1>5, <1>6, Unwrapped
  <2>2. idle = IF ti >= 0 THEN ti ELSE ti + Word
    <3>1. CASE ti >= 0
      BY <1>1, <1>5, <3>1, Unwrapped
    <3>2. CASE ti < 0
      <4>1. ti + k * Word = (ti + Word) + (k - 1) * Word /\ k - 1 \in {-2, -1, 0, 1, 2}
        BY <1>1
      <4>2. ti + Word \in 0 .. Word - 1
        BY <1>1, <3>2
      <4> QED BY <1>1, <1>5, <3>2, <4>1, <4>2, Unwrapped
    <3> QED BY <1>1, <3>1, <3>2
  <2> HIDE DEF total, idle
  <2>3. (total - idle) % Word = tw
    <3>1. CASE ti >= 0
      <4>1. total - idle = tw + 0 * Word
        BY <1>1, <2>1, <2>2, <3>1
      <4> QED BY <1>1, <4>1, Unwrapped
    <3>2. CASE ti < 0
      <4>1. total - idle = tw + (-1) * Word
        BY <1>1, <2>1, <2>2, <3>2
      <4> QED BY <1>1, <4>1, Unwrapped
    <3> QED BY <1>1, <3>1, <3>2
  <2> QED BY <1>1, <1>2, <1>6, <2>1, <2>3 DEF tw, ti
<1>7. CASE tw + ti < 0
  <2>1. tw = 0 /\ ti = -1
    BY <1>1, <1>7
  <2>2. /\ tw + ti + (j + k) * Word = (Word - 1) + (j + k - 1) * Word
        /\ ti + k * Word = (Word - 1) + (k - 1) * Word
    BY <1>1, <2>1
  <2>3. k - 1 \in {-2, -1, 0, 1, 2} /\ Word - 1 \in 0 .. Word - 1
    BY <1>1
  <2>4. idle = Word - 1
    BY <1>5, <2>2, <2>3, Unwrapped
  <2>5. total \in Nat
    BY <1>1, <1>5
  <2>6. total = Word - 1
    <3>1. CASE j + k = -2
      <4>1. /\ aw >= 0 /\ ai >= 0 /\ bw =< Word - 1 /\ bi =< Word - 1
        BY <1>1, Wrapped DEF aw, ai
      <4>2. aw = bw + tw + (-1) * Word
        BY <1>3, <1>4, <3>1
      <4> QED BY <1>1, <2>1, <4>1, <4>2
    <3>2. CASE j + k # -2
      <4>1. j + k - 1 \in {-2, -1, 0, 1, 2}
        BY <3>2
      <4> QED BY <1>5, <2>2, <2>3, <4>1, Unwrapped
    <3> QED BY <3>1, <3>2
  <2> HIDE DEF total, idle
  <2>7. (total - idle) % Word = 0
    <3>1. total - idle = 0 + 0 * Word
      BY <1>1, <2>4, <2>6
    <3> QED BY <1>1, <3>1, Unwrapped
  <2> QED BY <1>1, <1>2, <2>1, <2>6, <2>7 DEF tw, ti
<1> QED BY <1>1, <1>6, <1>7

\* The time a level is judged by.
Share(time) ==
    LET whole == time.work + time.idle
    IN  IF whole > 0 /\ time.work > 0
        THEN [part |-> time.work, whole |-> whole]
        ELSE [part |-> 0, whole |-> 1]

\* No work is no share of any time.
LEMMA LevelOfReadings ==
    ASSUME NEW before \in Readings, NEW time \in Spent, NEW limits \in Thresholds
    PROVE  EvaluatePercentage(
               CalculateCpuUsage(before, Advanced(before, time)), limits)
             = EvaluatePercentage(Share(time), limits)
<1>1. PICK usage : usage = CalculateCpuUsage(before, Advanced(before, time))
  OBVIOUS
<1>2. /\ usage.whole \in Nat \ {0}
      /\ time.work + time.idle > 0 =>
            usage.part = time.work /\ usage.whole = time.work + time.idle
      /\ ~ (time.work + time.idle > 0) => usage.part = 0
  BY <1>1, UsageOfReadings
<1>3. time.work \in Nat
  BY WordFacts DEF Spent
<1>4. /\ limits.warning \in Nat /\ limits.critical \in Nat /\ limits.critical > 0
  <2>1. limits \in [warning : 0 .. 100, critical : 0 .. 100]
    BY CpuAssumption
  <2>2. limits.warning < limits.critical
    BY CpuAssumption
  <2> QED BY <2>1, <2>2
<1>5. CASE time.work + time.idle > 0 /\ time.work > 0
  <2>1. Share(time).part = usage.part /\ Share(time).whole = usage.whole
    BY <1>2, <1>5 DEF Share
  <2> QED BY <1>1, <2>1 DEF EvaluatePercentage
<1>6. CASE ~ (time.work + time.idle > 0 /\ time.work > 0)
  <2>1. usage.part = 0 /\ Share(time).part = 0 /\ Share(time).whole = 1
    BY <1>2, <1>3, <1>6 DEF Share
  <2>2. ASSUME NEW c \in Nat, NEW w \in Nat \ {0} PROVE (0 >= c * w) <=> (c = 0)
    <3>1. c # 0 => c * w > 0
      OBVIOUS
    <3>2. 0 * w = 0
      OBVIOUS
    <3> QED BY <3>1, <3>2
  <2>3. ASSUME NEW u, u.part = 0, u.whole \in Nat \ {0}
        PROVE  EvaluatePercentage(u, limits) =
                 IF limits.warning = 0 THEN WARNING ELSE NORMAL
    <3>1. 100 * u.part = 0
      BY <2>3
    <3>2. /\ ~ (100 * u.part >= limits.critical * u.whole)
          /\ 100 * u.part < limits.warning * u.whole <=> limits.warning # 0
      <4>1. /\ (0 >= limits.critical * u.whole) <=> limits.critical = 0
            /\ (0 >= limits.warning * u.whole) <=> limits.warning = 0
        BY <1>4, <2>2, <2>3
      <4>2. limits.warning * u.whole \in Int
        BY <1>4, <2>3
      <4> QED BY <1>4, <3>1, <4>1, <4>2
    <3> QED BY <3>2 DEF EvaluatePercentage
  <2>4. usage.whole \in Nat \ {0} /\ Share(time).whole \in Nat \ {0}
    BY <1>2, <2>1
  <2> QED BY <1>1, <2>1, <2>3, <2>4
<1> QED BY <1>5, <1>6

-----------------------------------------------------------------------------
(* The steps.                                                              *)

\* Before the CPU is read, the reading of the round before is the last one.
IInv ==
    /\ thresholds \in Thresholds /\ current_cpu \in Readings
    /\ pc \in {"idle", "cpu"} => previous_cpu = current_cpu
    /\ CpuLevelIsBusyShare

LEMMA AdvancedType ==
    ASSUME NEW before \in Readings, NEW time \in Spent
    PROVE  Advanced(before, time) \in Readings
<1>1. /\ before.work \in 0 .. Word - 1 /\ before.idle \in 0 .. Word - 1
      /\ time.work \in -1 .. MaxSpent /\ time.idle \in -1 .. MaxSpent
  BY WordFacts DEF Readings, Spent
<1> QED BY <1>1, Wrapped DEF Readings, Advanced

LEMMA Inductive == CSpec => []IInv
<1>1. CInit => IInv
  BY DEF CInit, Init, IInv, CpuLevelIsBusyShare
<1>2. IInv /\ [CNext]_all => IInv'
  <2> SUFFICES ASSUME IInv, [CNext]_all PROVE IInv'
    OBVIOUS
  <2>1. CASE UNCHANGED all
    BY <2>1 DEF all, vars, cpu, IInv, CpuLevelIsBusyShare
  <2>2. CASE SampleCpu
    <3>1. /\ pc = "cpu" /\ pc' = "memory" /\ previous_cpu = current_cpu
          /\ spent' \in Spent /\ thresholds' = thresholds
          /\ current_cpu' = Advanced(current_cpu, spent')
          /\ level'["cpu"] = EvaluatePercentage(
                CalculateCpuUsage(previous_cpu, current_cpu'), thresholds)
      BY <2>2 DEF SampleCpu, Sample, After, IInv
    <3>2. current_cpu' \in Readings
      BY <3>1, AdvancedType DEF IInv
    <3>3. level'["cpu"] = EvaluatePercentage(Share(spent'), thresholds')
      BY <3>1, LevelOfReadings DEF IInv
    <3>4. CpuLevelIsBusyShare'
      BY <3>3 DEF CpuLevelIsBusyShare, Share
    <3> QED BY <3>1, <3>2, <3>4 DEF IInv
  <2>3. CASE RoundEnds
    BY <2>3 DEF RoundEnds, EndRound, NextPrevious, IInv, CpuLevelIsBusyShare
  <2>4. CASE ReloadThresholds
    BY <2>4 DEF ReloadThresholds, Reload, IInv, CpuLevelIsBusyShare
  <2>5. CASE OtherSteps
    <3>1. /\ pc' # "memory"
          /\ pc' \in {"idle", "cpu"} => pc = "idle"
          /\ UNCHANGED <<thresholds, previous_cpu, current_cpu>>
      BY <2>5 DEF OtherSteps, StartRound, Stop, SystemStatus, CountSample, Fails,
                  Sample, After, Metrics
    <3> QED BY <3>1 DEF IInv, CpuLevelIsBusyShare
  <2> QED BY <2>1, <2>2, <2>3, <2>4, <2>5 DEF CNext
<1> QED BY <1>1, <1>2, PTL DEF CSpec

\* For counters of any width, the level of the CPU is that of the share of the
\* time since the round before spent at work, wrapped counters or not, across
\* reloads; only time taken back from iowait distorts it.
THEOREM CpuLevelIsExact == CSpec => []CpuLevelIsBusyShare
<1>1. IInv => CpuLevelIsBusyShare
  BY DEF IInv
<1> QED BY Inductive, <1>1, PTL

\* Whatever is proved of SystemAlerts holds of it with the CPU sampled.
THEOREM RoundsRefined == CSpec => Spec
<1>1. CInit => Init
  BY DEF CInit
<1>2. [CNext]_all => [Next]_vars
  <2>1. SampleCpu => Next
    BY DEF SampleCpu, Next, Metrics
  <2>2. RoundEnds \/ ReloadThresholds \/ OtherSteps => Next
    BY DEF RoundEnds, ReloadThresholds, OtherSteps, Next
  <2>3. UNCHANGED all => UNCHANGED vars
    BY DEF all
  <2> QED BY <2>1, <2>2, <2>3 DEF CNext
<1> QED BY <1>1, <1>2, PTL DEF CSpec, Spec

=============================================================================
