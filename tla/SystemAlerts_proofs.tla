------------------------- MODULE SystemAlerts_proofs -------------------------
(***************************************************************************)
(* Proofs about SystemAlerts, for any levels the samples may evaluate to.  *)
(***************************************************************************)
EXTENDS SystemAlerts, TLAPS

\* The metrics sampled so far, while there are some to come or to be judged.
Sampled ==
    CASE pc = "memory" -> {"cpu"} [] pc = "disk" -> {"cpu", "memory"}
      [] pc = "system" -> Metrics [] OTHER -> {}

\* A metric is compared with the level it was last sampled at, and the status
\* is known only when all the metrics are.
KnownInv ==
    /\ \A m \in Metrics : initialized[m] => previous[m] = level[m]
    /\ \A m \in Metrics :
          initialized["system"] \/ m \in Sampled => initialized[m]

\* The levels at the start of the round: the status is the highest of them, and
\* a level that differs by now was notified.
StartedFrom(old) ==
    /\ previous["system"] = Highest(old)
    /\ \A m \in Metrics :
          level[m] # old[m] => /\ m \in Sampled
                               /\ Report(m, old[m], level[m]) \in hist.changed

StatusInv ==
    initialized["system"] =>
        /\ pc \in {"memory", "disk", "system"} =>
              \E old \in [Metrics -> Levels] : StartedFrom(old)
        /\ pc \in {"idle", "cpu", "count", "print"} =>
              previous["system"] = Highest(level)

CountInv == hist.since = log_sample_counter

\* Until the status is judged, a metric not sampled yet is still at the level of
\* the round before, and so is the status; the others were told if they changed.
LastInv ==
    /\ pc \in {"idle", "cpu", "memory", "disk", "system"} =>
          /\ \A m \in Metrics :
                (hist.last[m] = NoLevel) <=> ~ initialized["system"]
          /\ \A m \in Metrics \ Sampled : hist.last[m] = Known(m)
          /\ initialized["system"] => previous["system"] = Highest(hist.last)
    /\ pc \in {"cpu", "memory", "disk", "system"} => hist.changed = Changes(Sampled)
    /\ pc \in {"count", "print"} => initialized["system"]
    /\ TellsWhatTheRoundChanged

IInv ==
    TypeOK /\ KnownInv /\ StatusInv /\ CountInv /\ StatusChangeExplained /\ LastInv

-----------------------------------------------------------------------------

\* The higher of two levels is one of them, and not below either.
LEMMA HigherLevelFacts ==
    ASSUME NEW a \in Levels, NEW b \in Levels
    PROVE  /\ HigherLevel(a, b) \in Levels
           /\ HigherLevel(a, b) >= a /\ HigherLevel(a, b) >= b
           /\ HigherLevel(a, b) \in {a, b}
BY DEF HigherLevel, Levels, NORMAL, WARNING, CRITICAL

LEMMA HighestFacts ==
    ASSUME NEW f \in [Metrics -> Levels]
    PROVE  /\ Highest(f) \in Levels
           /\ \A m \in Metrics : f[m] =< Highest(f)
           /\ \E m \in Metrics : f[m] = Highest(f)
<1>1. /\ f["cpu"] \in Levels /\ f["memory"] \in Levels /\ f["disk"] \in Levels
      /\ Metrics = {"cpu", "memory", "disk"}
  BY DEF Metrics
<1>2. DEFINE two == HigherLevel(f["cpu"], f["memory"])
<1>3. /\ two \in Levels /\ two >= f["cpu"] /\ two >= f["memory"]
      /\ two \in {f["cpu"], f["memory"]}
  BY <1>1, HigherLevelFacts
<1>4. /\ Highest(f) \in Levels /\ Highest(f) >= two /\ Highest(f) >= f["disk"]
      /\ Highest(f) \in {two, f["disk"]}
  <2> HIDE DEF two
  <2>1. Highest(f) = HigherLevel(two, f["disk"])
    BY DEF Highest, two
  <2> QED BY <1>1, <1>3, <2>1, HigherLevelFacts
<1> HIDE DEF two
<1>5. \A l \in Levels : l \in Nat
  BY DEF Levels, NORMAL, WARNING, CRITICAL
<1> QED BY <1>1, <1>3, <1>4, <1>5

LEMMA SystemLevelIsHighest == SystemLevel = Highest(level)
BY DEF SystemLevel, Highest

\* A change of the highest level comes from a metric that changed.
LEMMA HighestChanged ==
    ASSUME NEW old \in [Metrics -> Levels], NEW new \in [Metrics -> Levels],
           Highest(old) # Highest(new)
    PROVE  \E m \in Metrics :
              /\ old[m] # new[m]
              /\ IF Highest(new) > Highest(old) THEN new[m] = Highest(new)
                 ELSE old[m] = Highest(old)
<1>1. \A l \in Levels : l \in Nat
  BY DEF Levels, NORMAL, WARNING, CRITICAL
<1>2. /\ Highest(old) \in Nat /\ Highest(new) \in Nat
      /\ \A m \in Metrics : old[m] \in Nat /\ new[m] \in Nat
  BY <1>1, HighestFacts
<1>3. CASE Highest(new) > Highest(old)
  <2>1. PICK m \in Metrics : new[m] = Highest(new)
    BY HighestFacts
  <2>2. old[m] =< Highest(old)
    BY HighestFacts
  <2> QED BY <1>2, <1>3, <2>1, <2>2
<1>4. CASE ~ (Highest(new) > Highest(old))
  <2>1. PICK m \in Metrics : old[m] = Highest(old)
    BY HighestFacts
  <2>2. new[m] =< Highest(new)
    BY HighestFacts
  <2> QED BY <1>2, <1>4, <2>1, <2>2
<1> QED BY <1>3, <1>4
-----------------------------------------------------------------------------
(* The steps.                                                              *)

LEMMA InitInv == Init => IInv
<1> SUFFICES ASSUME Init PROVE IInv
  OBVIOUS
<1>1. TypeOK
  BY DEF Init, TypeOK, Metrics, Streams, Levels, Reports, NoReport,
         LOG_INTERVAL_SAMPLES, NORMAL, NoLevels
<1>2. Sampled = {}
  BY DEF Init, Sampled
<1>3. KnownInv /\ StatusInv /\ CountInv /\ StatusChangeExplained
  BY <1>2 DEF Init, KnownInv, StatusInv, CountInv, StatusChangeExplained,
              Metrics, Streams, NoReport
<1>4. LastInv
  <2>1. /\ \A m \in Metrics : hist.last[m] = NoLevel /\ Known(m) = NoLevel
        /\ pc = "idle" /\ ~ initialized["system"]
    BY DEF Init, NoLevels, Known, Streams, Metrics
  <2> QED BY <2>1 DEF LastInv, TellsWhatTheRoundChanged
<1> QED BY <1>1, <1>3, <1>4 DEF IInv

\* Type correctness of one step.
LEMMA TypeStep == TypeOK /\ [Next]_vars => TypeOK'
<1> SUFFICES ASSUME TypeOK, [Next]_vars PROVE TypeOK'
  OBVIOUS
<1> USE DEF TypeOK, NoReport, NORMAL
<1>1. CASE UNCHANGED vars
  BY <1>1 DEF vars
<1>2. CASE StartRound
  BY <1>2 DEF StartRound, Metrics
<1>3. CASE Reload
  BY <1>3 DEF Reload, InitializedAfterReload, CounterAfterReload, Metrics, NoLevels
<1>4. CASE Stop
  BY <1>4 DEF Stop
<1>5. ASSUME NEW m \in Metrics, Sample(m) PROVE TypeOK'
  <2>1. PICK new \in Samples[m] :
          /\ level' = [level EXCEPT ![m] = new]
          /\ previous' = [previous EXCEPT ![m] = new]
          /\ out' = IF Differs(m, new) THEN Report(m, previous[m], new)
                    ELSE NoReport
          /\ hist' = IF Differs(m, new)
                     THEN [hist EXCEPT !.changed =
                             @ \cup {Report(m, previous[m], new)}]
                     ELSE hist
    BY <1>5 DEF Sample, PreviousAfter
  <2>2. m \in Streams /\ new \in Levels
    BY SampleAssumption, <2>1 DEF Streams
  <2>3. Report(m, previous[m], new) \in Reports(Metrics) \cap Reports(Streams)
    BY <2>2 DEF Report, Reports
  <2>4. After(m) \in Metrics \cup {"system"}
    BY DEF After, Metrics
  <2>5. level' \in [Metrics -> Levels] /\ previous' \in [Streams -> Levels]
    BY <2>1, <2>2
  <2>6. hist' \in [changed : SUBSET Reports(Metrics), since : Nat,
                 last : [Metrics -> Levels \cup {NoLevel}]]
    BY <2>1, <2>3
  <2>7. out' \in Reports(Streams) \cup {NoReport}
    BY <2>1, <2>3
  <2>8. /\ initialized' \in [Streams -> BOOLEAN]
        /\ log_sample_counter' = log_sample_counter /\ pc' = After(m)
    BY <1>5 DEF Sample
  <2> QED BY <2>4, <2>5, <2>6, <2>7, <2>8
<1>6. CASE SystemStatus
  <2>1. SystemLevel \in Levels
    BY SystemLevelIsHighest, HighestFacts
  <2>2. "system" \in Streams
    BY DEF Streams
  <2>3. Report("system", previous["system"], SystemLevel) \in Reports(Streams)
    BY <2>1, <2>2 DEF Report, Reports
  <2> QED BY <1>6, <2>1, <2>2, <2>3 DEF SystemStatus
<1>7. CASE CountSample
  BY <1>7 DEF CountSample, Due, LOG_INTERVAL_SAMPLES
<1>8. CASE EndRound
  BY <1>8 DEF EndRound
<1>9. CASE Fails
  BY <1>9 DEF Fails
<1> QED BY <1>1, <1>2, <1>3, <1>4, <1>5, <1>6, <1>7, <1>8, <1>9 DEF Next

\* The steps that sample nothing.
LEMMA OtherStep ==
    ASSUME IInv, [Next]_vars, ~ \E m \in Metrics : Sample(m), ~ SystemStatus
    PROVE  (KnownInv /\ StatusInv /\ CountInv /\ StatusChangeExplained)'
<1> USE DEF IInv, NoReport
<1>1. CASE UNCHANGED vars
  BY <1>1 DEF vars, KnownInv, StatusInv, CountInv, StatusChangeExplained,
              Sampled, StartedFrom
<1>2. CASE StartRound
  <2>1. Sampled' = {}
    BY <1>2 DEF StartRound, Sampled
  <2> QED BY <1>2, <2>1 DEF StartRound, KnownInv, StatusInv, CountInv,
             StatusChangeExplained
<1>3. CASE Reload
  <2>1. Sampled' = {} /\ pc' = "cpu" /\ out'.stream # "system"
    BY <1>3 DEF Reload, Sampled
  <2>2. /\ ~ initialized'["system"] /\ \A m \in Metrics : ~ initialized'[m]
    BY <1>3 DEF Reload, InitializedAfterReload, Streams
  <2>3. hist'.since = log_sample_counter'
    BY <1>3 DEF Reload, CounterAfterReload, CountInv, TypeOK
  <2> QED BY <2>1, <2>2, <2>3 DEF KnownInv, StatusInv, CountInv,
             StatusChangeExplained
<1>4. CASE Stop \/ EndRound \/ Fails
  <2>1. /\ Sampled' = {} /\ pc' \in {"stopped", "idle", "failed"}
        /\ pc' = "idle" => pc = "print"
        /\ UNCHANGED <<level, previous, initialized, log_sample_counter>>
        /\ out' = NoReport
    BY <1>4 DEF Stop, EndRound, Fails, Sampled
  <2>2. hist'.since = hist.since /\ out'.stream # "system"
    BY <1>4, <2>1 DEF Stop, EndRound, Fails, TypeOK
  <2> QED BY <2>1, <2>2 DEF KnownInv, StatusInv, CountInv, StatusChangeExplained
<1>5. CASE CountSample
  <2>1. Sampled' = {}
    BY <1>5 DEF CountSample, Sampled
  <2>2. hist'.since = log_sample_counter'
    BY <1>5 DEF CountSample, CountInv, TypeOK
  <2> QED BY <1>5, <2>1, <2>2 DEF CountSample, KnownInv, StatusInv, CountInv,
             StatusChangeExplained
<1> QED BY <1>1, <1>2, <1>3, <1>4, <1>5 DEF Next

\* A metric is sampled: the levels the round started from stay the same.
LEMMA SampleStep ==
    ASSUME IInv, NEW m \in Metrics, Sample(m)
    PROVE  (KnownInv /\ StatusInv /\ CountInv /\ StatusChangeExplained)'
<1>1. PICK new \in Samples[m] :
          /\ level' = [level EXCEPT ![m] = new]
          /\ previous' = [previous EXCEPT ![m] = new]
          /\ out' = IF Differs(m, new) THEN Report(m, previous[m], new)
                    ELSE NoReport
          /\ hist' = IF Differs(m, new)
                     THEN [hist EXCEPT !.changed =
                             @ \cup {Report(m, previous[m], new)}]
                     ELSE hist
  BY DEF Sample, PreviousAfter
<1>2. /\ pc = m /\ pc' = After(m)
      /\ initialized' = [initialized EXCEPT ![m] = TRUE]
      /\ UNCHANGED log_sample_counter
  BY DEF Sample
<1>3. TypeOK /\ KnownInv /\ StatusInv /\ CountInv
  BY DEF IInv
<1>4. m \in Streams /\ m # "system" /\ Metrics \subseteq Streams /\ "system" \in Streams
  BY DEF Streams, Metrics
<1>5. /\ initialized'["system"] = initialized["system"]
      /\ previous'["system"] = previous["system"]
      /\ initialized'[m] /\ previous'[m] = new /\ level'[m] = new
      /\ \A n \in Metrics \ {m} : /\ initialized'[n] = initialized[n]
                                  /\ previous'[n] = previous[n]
                                  /\ level'[n] = level[n]
  BY <1>1, <1>2, <1>3, <1>4 DEF TypeOK
<1>6. m \notin Sampled /\ Sampled' = Sampled \cup {m}
  BY <1>2 DEF Sampled, Metrics, After
<1>7. KnownInv'
  BY <1>3, <1>5, <1>6 DEF KnownInv
<1>8. CountInv'
  BY <1>1, <1>2, <1>3 DEF CountInv, TypeOK
<1>9. StatusChangeExplained'
  BY <1>1, <1>4 DEF StatusChangeExplained, Report, NoReport
<1>10. ASSUME initialized["system"]
       PROVE  \E old \in [Metrics -> Levels] : StartedFrom(old)'
  <2>1. initialized[m] /\ previous[m] = level[m]
    BY <1>3, <1>10 DEF KnownInv
  <2>2. PICK old \in [Metrics -> Levels] : StartedFrom(old)
    <3>1. CASE pc = "cpu"
      <4>1. previous["system"] = Highest(level)
        BY <1>3, <1>10, <3>1 DEF StatusInv
      <4> QED BY <1>3, <4>1 DEF StartedFrom, TypeOK
    <3>2. CASE pc \in {"memory", "disk"}
      BY <1>3, <1>10, <3>2 DEF StatusInv
    <3> QED BY <1>2, <3>1, <3>2 DEF Metrics
  <2>3. old[m] = level[m]
    BY <1>6, <2>2 DEF StartedFrom
  <2>4. hist.changed \subseteq hist'.changed
    BY <1>1, <1>3 DEF TypeOK
  <2>5. ASSUME level'[m] # old[m]
        PROVE  Report(m, old[m], level'[m]) \in hist'.changed
    BY <1>1, <1>3, <1>5, <2>1, <2>3, <2>5 DEF Differs, TypeOK
  <2>6. ASSUME NEW n \in Metrics, level'[n] # old[n]
        PROVE  n \in Sampled' /\ Report(n, old[n], level'[n]) \in hist'.changed
    <3>1. CASE n = m
      BY <1>6, <2>5, <2>6, <3>1
    <3>2. CASE n # m
      BY <1>5, <1>6, <2>2, <2>4, <2>6, <3>2 DEF StartedFrom
    <3> QED BY <3>1, <3>2
  <2>7. previous'["system"] = Highest(old)
    BY <1>5, <2>2 DEF StartedFrom
  <2> QED BY <2>6, <2>7 DEF StartedFrom
<1>11. pc' \in {"memory", "disk", "system"}
  BY <1>2 DEF After, Metrics
<1>12. StatusInv'
  BY <1>5, <1>10, <1>11 DEF StatusInv
<1> QED BY <1>7, <1>8, <1>9, <1>12

\* The status is judged: a change of it is a change of the highest level.
LEMMA StatusStep ==
    ASSUME IInv, SystemStatus
    PROVE  (KnownInv /\ StatusInv /\ CountInv /\ StatusChangeExplained)'
<1>1. /\ pc = "system" /\ pc' = "count" /\ UNCHANGED <<level, log_sample_counter, hist>>
      /\ previous' = [previous EXCEPT !["system"] = Highest(level)]
      /\ initialized' = [initialized EXCEPT !["system"] = TRUE]
      /\ out' = IF Differs("system", Highest(level))
                THEN Report("system", previous["system"], Highest(level))
                ELSE NoReport
  BY SystemLevelIsHighest DEF SystemStatus
<1>2. TypeOK /\ KnownInv /\ StatusInv /\ CountInv
  BY DEF IInv
<1>3. "system" \in Streams /\ Metrics \subseteq Streams /\ "system" \notin Metrics
  BY DEF Streams, Metrics
<1>4. Sampled = Metrics /\ Sampled' = {}
  BY <1>1 DEF Sampled
<1>5. /\ initialized'["system"] /\ previous'["system"] = Highest(level)
      /\ \A m \in Metrics : /\ initialized'[m] = initialized[m]
                            /\ previous'[m] = previous[m] /\ level'[m] = level[m]
  BY <1>1, <1>2, <1>3 DEF TypeOK
<1>6. KnownInv'
  BY <1>2, <1>4, <1>5 DEF KnownInv
<1>7. StatusInv'
  <2>1. Highest(level)' = Highest(level)
    BY <1>1 DEF Highest
  <2> QED BY <1>1, <1>5, <2>1 DEF StatusInv
<1>8. CountInv'
  BY <1>1, <1>2 DEF CountInv
<1>9. ASSUME out'.stream = "system"
      PROVE  \E c \in hist'.changed :
                IF out'.to > out'.from THEN c.to = out'.to ELSE c.from = out'.from
  <2>1. initialized["system"] /\ previous["system"] # Highest(level)
    BY <1>1, <1>9 DEF Differs, NoReport
  <2>2. PICK old \in [Metrics -> Levels] : StartedFrom(old)
    BY <1>1, <1>2, <2>1 DEF StatusInv
  <2>3. out'.from = Highest(old) /\ out'.to = Highest(level)
    BY <1>1, <2>1, <2>2 DEF Differs, Report, StartedFrom
  <2>4. PICK m \in Metrics :
              /\ old[m] # level[m]
              /\ IF Highest(level) > Highest(old) THEN level[m] = Highest(level)
                 ELSE old[m] = Highest(old)
    BY <1>2, <2>1, <2>2, HighestChanged DEF StartedFrom, TypeOK
  <2>5. Report(m, old[m], level[m]) \in hist'.changed
    BY <1>1, <2>2, <2>4 DEF StartedFrom
  <2>6. /\ Report(m, old[m], level[m]).to = level[m]
        /\ Report(m, old[m], level[m]).from = old[m]
    BY DEF Report
  <2> QED BY <2>3, <2>4, <2>5, <2>6
<1>10. StatusChangeExplained'
  BY <1>9 DEF StatusChangeExplained
<1> QED BY <1>6, <1>7, <1>8, <1>10

\* The steps that sample nothing: a round ends, or starts from one or from none.
LEMMA LastOther ==
    ASSUME IInv, [Next]_vars, ~ \E m \in Metrics : Sample(m), ~ SystemStatus
    PROVE  LastInv'
<1>1. TypeOK /\ KnownInv /\ StatusInv /\ LastInv
  BY DEF IInv
<1>2. "system" \in Streams /\ Metrics \subseteq Streams /\ "system" \notin Metrics
  BY DEF Streams, Metrics
<1>3. CASE UNCHANGED vars
  BY <1>1, <1>3 DEF vars, LastInv, TellsWhatTheRoundChanged, Sampled, Known, Changes
<1>4. CASE StartRound
  <2>1. /\ pc = "idle" /\ pc' = "cpu" /\ Sampled = {} /\ Sampled' = {}
        /\ hist'.last = hist.last /\ hist'.changed = {}
        /\ UNCHANGED <<level, previous, initialized>>
    BY <1>1, <1>4 DEF StartRound, Sampled, TypeOK
  <2>2. Changes(Sampled)' = {}
    BY <2>1 DEF Changes
  <2> QED BY <1>1, <2>1, <2>2 DEF LastInv, TellsWhatTheRoundChanged, Known
<1>5. CASE Reload
  <2>1. /\ pc' = "cpu" /\ Sampled' = {} /\ hist'.changed = {}
        /\ \A m \in Metrics : hist'.last[m] = NoLevel
        /\ \A s \in Streams : ~ initialized'[s]
    BY <1>1, <1>5 DEF Reload, InitializedAfterReload, Sampled, NoLevels, TypeOK
  <2>2. Changes(Sampled)' = {}
    BY <2>1 DEF Changes
  <2>3. \A m \in Metrics : Known(m)' = NoLevel
    BY <1>2, <2>1 DEF Known
  <2> QED BY <1>2, <2>1, <2>2, <2>3 DEF LastInv, TellsWhatTheRoundChanged
<1>6. CASE EndRound
  <2>1. /\ pc = "print" /\ pc' = "idle" /\ hist'.last = level
        /\ UNCHANGED <<level, previous, initialized>>
    BY <1>1, <1>6 DEF EndRound, TypeOK
  <2>2. /\ initialized["system"] /\ previous["system"] = Highest(level)
        /\ \A m \in Metrics : initialized[m] /\ previous[m] = level[m]
    BY <1>1, <2>1 DEF LastInv, StatusInv, KnownInv
  <2>3. \A m \in Metrics : level[m] # NoLevel
    BY <1>1 DEF TypeOK, Levels, NoLevel, NORMAL, WARNING, CRITICAL
  <2>4. \A m \in Metrics : Known(m)' = level[m]
    BY <2>1, <2>2 DEF Known
  <2>5. Highest(hist'.last) = Highest(level)
    BY <2>1
  <2> QED BY <2>1, <2>2, <2>3, <2>4, <2>5 DEF LastInv, TellsWhatTheRoundChanged
<1>7. CASE CountSample
  <2>1. pc' = "print" /\ initialized'["system"]
    BY <1>1, <1>7 DEF CountSample, LastInv
  <2> QED BY <2>1 DEF LastInv, TellsWhatTheRoundChanged
<1>8. CASE Stop \/ Fails
  <2>1. pc' \in {"stopped", "failed"}
    BY <1>8 DEF Stop, Fails
  <2> QED BY <2>1 DEF LastInv, TellsWhatTheRoundChanged
<1> QED BY <1>3, <1>4, <1>5, <1>6, <1>7, <1>8 DEF Next

\* A metric is sampled: told if it is known and the level is another one, that is,
\* if there was a round before and it gave another level.
LEMMA LastSampled ==
    ASSUME IInv, NEW m \in Metrics, Sample(m)
    PROVE  LastInv'
<1>1. PICK new \in Samples[m] :
          /\ level' = [level EXCEPT ![m] = new]
          /\ previous' = [previous EXCEPT ![m] = new]
          /\ hist' = IF Differs(m, new)
                     THEN [hist EXCEPT !.changed =
                             @ \cup {Report(m, previous[m], new)}]
                     ELSE hist
  BY DEF Sample, PreviousAfter
<1>2. /\ pc = m /\ pc' = After(m)
      /\ initialized' = [initialized EXCEPT ![m] = TRUE]
  BY DEF Sample
<1>3. TypeOK /\ LastInv
  BY DEF IInv
<1>4. m \in Streams /\ m # "system" /\ Metrics \subseteq Streams /\ "system" \in Streams
  BY DEF Streams, Metrics
<1>5. /\ initialized'["system"] = initialized["system"]
      /\ previous'["system"] = previous["system"] /\ level'[m] = new
      /\ \A n \in Metrics \ {m} : /\ initialized'[n] = initialized[n]
                                  /\ previous'[n] = previous[n]
                                  /\ level'[n] = level[n]
  BY <1>1, <1>2, <1>3, <1>4 DEF TypeOK
<1>6. /\ m \notin Sampled /\ Sampled' = Sampled \cup {m} /\ Sampled \subseteq Metrics
      /\ pc \in {"cpu", "memory", "disk"} /\ pc' \in {"memory", "disk", "system"}
  BY <1>2 DEF Sampled, Metrics, After
<1>7. hist'.last = hist.last
  BY <1>1, <1>3 DEF TypeOK
<1>8. hist.last[m] = Known(m) /\ hist.changed = Changes(Sampled)
  BY <1>3, <1>6 DEF LastInv
<1>9. \A n \in Metrics \ Sampled' : hist'.last[n] = Known(n)'
  BY <1>3, <1>5, <1>6, <1>7 DEF LastInv, Known
<1>10. Differs(m, new) <=> hist.last[m] \notin {NoLevel, new}
  <2>1. previous[m] # NoLevel
    BY <1>3, <1>4 DEF TypeOK, Levels, NoLevel, NORMAL, WARNING, CRITICAL
  <2> QED BY <1>8, <2>1 DEF Differs, Known
<1>11. hist'.changed = Changes(Sampled)'
  <2>1. Changes(Sampled)' =
           {Report(n, hist.last[n], level'[n]) :
              n \in {k \in Sampled \cup {m} : hist.last[k] \notin {NoLevel, level'[k]}}}
    BY <1>6, <1>7 DEF Changes
  <2>2. \A n \in Sampled : level'[n] = level[n]
    BY <1>5, <1>6
  <2>3. CASE Differs(m, new)
    <3>1. hist'.changed = hist.changed \cup {Report(m, previous[m], new)}
      BY <1>1, <1>3, <2>3 DEF TypeOK
    <3>2. hist.last[m] = previous[m]
      BY <1>8, <2>3 DEF Differs, Known
    <3> QED BY <1>5, <1>8, <1>10, <2>1, <2>2, <2>3, <3>1, <3>2 DEF Changes
  <2>4. CASE ~ Differs(m, new)
    <3>1. hist'.changed = hist.changed
      BY <1>1, <2>4
    <3> QED BY <1>5, <1>8, <1>10, <2>1, <2>2, <2>4, <3>1 DEF Changes
  <2> QED BY <2>3, <2>4
<1>12. /\ \A n \in Metrics : (hist'.last[n] = NoLevel) <=> ~ initialized'["system"]
       /\ initialized'["system"] => previous'["system"] = Highest(hist'.last)
  BY <1>3, <1>5, <1>6, <1>7 DEF LastInv
<1> QED BY <1>6, <1>9, <1>11, <1>12 DEF LastInv, TellsWhatTheRoundChanged

\* The status is judged: told if the highest level of the round before was another.
LEMMA LastStatus ==
    ASSUME IInv, SystemStatus
    PROVE  LastInv'
<1>1. /\ pc = "system" /\ pc' = "count" /\ UNCHANGED <<level, hist>>
      /\ initialized' = [initialized EXCEPT !["system"] = TRUE]
      /\ out' = IF Differs("system", Highest(level))
                THEN Report("system", previous["system"], Highest(level))
                ELSE NoReport
  BY SystemLevelIsHighest DEF SystemStatus
<1>2. TypeOK /\ LastInv
  BY DEF IInv
<1>3. "system" \in Streams /\ "cpu" \in Metrics
  BY DEF Streams, Metrics
<1>4. initialized'["system"]
  BY <1>1, <1>2, <1>3 DEF TypeOK
<1>5. Sampled = Metrics
  BY <1>1 DEF Sampled
<1>6. hist'.changed = Changes(Metrics)'
  BY <1>1, <1>2, <1>5 DEF LastInv, Changes
<1>7. hist.last # NoLevels <=> initialized["system"]
  <2>1. \A m \in Metrics : (hist.last[m] = NoLevel) <=> ~ initialized["system"]
    BY <1>1, <1>2 DEF LastInv
  <2>2. hist.last \in [Metrics -> Levels \cup {NoLevel}]
    BY <1>2 DEF TypeOK
  <2>3. CASE initialized["system"]
    BY <1>3, <2>1, <2>3 DEF NoLevels
  <2>4. CASE ~ initialized["system"]
    BY <2>1, <2>2, <2>4 DEF NoLevels
  <2> QED BY <2>3, <2>4
<1>8. out'.stream = "system" <=> Differs("system", Highest(level))
  BY <1>1 DEF Report, NoReport
<1>9. initialized["system"] => previous["system"] = Highest(hist.last)
  BY <1>1, <1>2 DEF LastInv
<1>10. Differs("system", Highest(level)) <=>
          hist'.last # NoLevels /\ Highest(hist'.last) # Highest(level')
  BY <1>1, <1>7, <1>9 DEF Differs
<1>11. TellsWhatTheRoundChanged'
  BY <1>6, <1>8, <1>10 DEF TellsWhatTheRoundChanged
<1> QED BY <1>1, <1>4, <1>11 DEF LastInv

LEMMA Inductive == Spec => []IInv
<1>1. IInv /\ [Next]_vars => IInv'
  <2> SUFFICES ASSUME IInv, [Next]_vars PROVE IInv'
    OBVIOUS
  <2>1. TypeOK'
    BY TypeStep DEF IInv
  <2>2. (KnownInv /\ StatusInv /\ CountInv /\ StatusChangeExplained)'
    BY OtherStep, SampleStep, StatusStep
  <2>3. LastInv'
    BY LastOther, LastSampled, LastStatus
  <2> QED BY <2>1, <2>2, <2>3 DEF IInv
<1> QED BY InitInv, <1>1, PTL DEF Spec

-----------------------------------------------------------------------------
(* The theorems.                                                           *)

\* The variables keep their types: in particular the counter of rounds never
\* reaches LOG_INTERVAL_SAMPLES.
THEOREM TypeCorrect == Spec => []TypeOK
<1>1. IInv => TypeOK
  BY DEF IInv
<1> QED BY Inductive, <1>1, PTL

\* Log and notifications tell one story: between rounds the status last logged
\* is the highest of the levels last notified.
THEOREM StatusIsHighest == Spec => []StatusIsHighestNotified
<1>1. IInv => StatusIsHighestNotified
  <2> SUFFICES ASSUME IInv, pc = "idle", initialized["system"]
               PROVE  /\ \A m \in Metrics :
                            initialized[m] /\ previous[m] <= previous["system"]
                      /\ \E m \in Metrics : previous[m] = previous["system"]
    BY DEF StatusIsHighestNotified
  <2>1. level \in [Metrics -> Levels] /\ previous["system"] = Highest(level)
    BY DEF IInv, TypeOK, StatusInv
  <2>2. \A m \in Metrics : initialized[m] /\ previous[m] = level[m]
    BY DEF IInv, KnownInv
  <2> QED BY <2>1, <2>2, HighestFacts
<1> QED BY Inductive, <1>1, PTL

\* No change of the status is logged that a change of a metric, notified in the
\* same round, does not explain, whatever reloads came before.
THEOREM ChangeExplained == Spec => []StatusChangeExplained
<1>1. IInv => StatusChangeExplained
  BY DEF IInv
<1> QED BY Inductive, <1>1, PTL

\* A round tells exactly what changed since the round before it, and nothing when
\* a reload lies between, for any samples.
THEOREM RoundsTold == Spec => []TellsWhatTheRoundChanged
<1>1. IInv => TellsWhatTheRoundChanged
  BY DEF IInv, LastInv
<1> QED BY <1>1, Inductive, PTL

\* The measurements are recorded at least every LOG_INTERVAL_SAMPLES rounds.
THEOREM Recorded == Spec => []RecordedRegularly
<1>1. IInv => RecordedRegularly
  BY DEF IInv, TypeOK, CountInv, RecordedRegularly, LOG_INTERVAL_SAMPLES
<1> QED BY Inductive, <1>1, PTL

-----------------------------------------------------------------------------
(* The refinement of AlertStream.                                          *)

Silence == [from |-> NoLevel, to |-> NoLevel]

\* What AlertStream lets a step do to stream s.
Moves(s) ==
    \/ Known(s) = NoLevel /\ Known(s)' \in Levels /\ Told(s)' = Silence
    \/ /\ Known(s) # NoLevel
       /\ Known(s)' \in Levels \ {Known(s)}
       /\ Told(s)' = [from |-> Known(s), to |-> Known(s)']
    \/ Known(s)' \in {NoLevel, Known(s)} /\ Told(s)' = Silence

LEMMA MovesSuffice ==
    ASSUME \A s \in Streams : Moves(s)
    PROVE  Stream!Next
BY DEF Moves, Silence, Stream!Next, Stream!Establish, Stream!Change,
       Stream!Forget, Stream!Quiet, Stream!Silent

\* One stream is compared with a level and told of a difference; the others
\* keep theirs, and nothing is told of them.
LEMMA ComparedMoves ==
    ASSUME TypeOK, NEW s \in Streams, NEW new \in Levels,
           previous' = [previous EXCEPT ![s] = new],
           initialized' = [initialized EXCEPT ![s] = TRUE],
           out' = IF Differs(s, new) THEN Report(s, previous[s], new) ELSE NoReport
    PROVE  \A t \in Streams : Moves(t)
<1>1. NoLevel \notin Levels /\ \A l \in Levels : l # NoLevel
  BY DEF NoLevel, Levels, NORMAL, WARNING, CRITICAL
<1>2. "none" \notin Streams
  BY DEF Streams, Metrics
<1>3. Moves(s)
  <2>1. Known(s)' = new /\ previous[s] \in Levels
    BY DEF TypeOK, Known
  <2>2. CASE Differs(s, new)
    <3>1. Told(s)' = [from |-> previous[s], to |-> new]
      BY <2>2 DEF Told, Report
    <3>2. Known(s) = previous[s] /\ new # previous[s]
      BY <2>2 DEF Known, Differs
    <3> QED BY <1>1, <2>1, <3>1, <3>2 DEF Moves
  <2>3. CASE ~ Differs(s, new)
    <3>1. Told(s)' = Silence
      BY <1>2, <2>3 DEF Told, NoReport, Silence
    <3>2. Known(s) \in {NoLevel, new}
      BY <2>3 DEF Known, Differs
    <3> QED BY <1>1, <2>1, <3>1, <3>2 DEF Moves
  <2> QED BY <2>2, <2>3
<1>4. ASSUME NEW t \in Streams, t # s PROVE Moves(t)
  <2>1. Known(t)' = Known(t)
    BY <1>4 DEF TypeOK, Known
  <2>2. Told(t)' = Silence
    BY <1>2, <1>4 DEF Told, Report, NoReport, Silence
  <2> QED BY <2>1, <2>2 DEF Moves
<1> QED BY <1>3, <1>4

\* The metrics and the status of the system implement AlertStream: every change
\* is told once, from the level last established or told, and nothing else is.
THEOREM StreamsRefined == Spec => StreamsImplemented
<1>0. "none" \notin Streams
  BY DEF Streams, Metrics
<1>1. Init => Stream!Init
  <2> SUFFICES ASSUME Init PROVE Stream!Init
    OBVIOUS
  <2>1. \A s \in Streams : Known(s) = NoLevel /\ Told(s) = Silence
    BY <1>0 DEF Init, Known, Told, NoReport, Silence
  <2> QED BY <2>1 DEF Stream!Init, Stream!Silent, Silence
<1>2. TypeOK /\ [Next]_vars => [Stream!Next]_(Stream!vars)
  <2> SUFFICES ASSUME TypeOK, [Next]_vars PROVE [Stream!Next]_(Stream!vars)
    OBVIOUS
  <2>1. ASSUME NEW m \in Metrics, Sample(m) PROVE Stream!Next
    <3>1. PICK new \in Samples[m] :
            /\ previous' = [previous EXCEPT ![m] = new]
            /\ out' = IF Differs(m, new) THEN Report(m, previous[m], new)
                      ELSE NoReport
      BY <2>1 DEF Sample, PreviousAfter
    <3>2. new \in Levels /\ m \in Streams
      BY <3>1, SampleAssumption DEF Streams
    <3>3. initialized' = [initialized EXCEPT ![m] = TRUE]
      BY <2>1 DEF Sample
    <3> QED BY <3>1, <3>2, <3>3, ComparedMoves, MovesSuffice
  <2>2. CASE SystemStatus
    <3>1. SystemLevel \in Levels /\ "system" \in Streams
      BY SystemLevelIsHighest, HighestFacts DEF TypeOK, Streams
    <3> QED BY <2>2, <3>1, ComparedMoves, MovesSuffice DEF SystemStatus
  <2>3. CASE StartRound \/ Stop \/ CountSample \/ EndRound \/ Fails \/ Reload
    <3>1. ASSUME NEW s \in Streams PROVE Moves(s)
      <4>1. out' = NoReport
        BY <2>3 DEF StartRound, Stop, CountSample, EndRound, Fails, Reload
      <4>2. Told(s)' = Silence
        BY <1>0, <4>1 DEF Told, NoReport, Silence
      <4>3. \/ UNCHANGED <<previous, initialized>>
            \/ initialized' = [t \in Streams |-> FALSE]
        BY <2>3 DEF StartRound, Stop, CountSample, EndRound, Fails, Reload,
                    InitializedAfterReload
      <4>4. Known(s)' \in {NoLevel, Known(s)}
        BY <4>3 DEF Known
      <4> QED BY <4>2, <4>4 DEF Moves
    <3> QED BY <3>1, MovesSuffice
  <2>4. CASE UNCHANGED vars
    BY <2>4 DEF vars, Stream!vars, Known, Told
  <2> QED BY <2>1, <2>2, <2>3, <2>4 DEF Next
<1> QED BY <1>1, <1>2, TypeCorrect, PTL DEF Spec, StreamsImplemented, Stream!Spec

=============================================================================
