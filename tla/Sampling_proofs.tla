-------------------------- MODULE Sampling_proofs --------------------------
(***************************************************************************)
(* Proofs about Sampling, for any finite set of interfaces and any         *)
(* selections of them: the traffic behind every speed, and that sampling   *)
(* leaves the main loop the one of Daemon.                                 *)
(***************************************************************************)
EXTENDS Sampling, Daemon_proofs, FiniteSetTheorems

-----------------------------------------------------------------------------
(* The sum of a finite set, by induction on its subsets: among the subsets *)
(* where a fact fails one would be minimal, because strict inclusion is    *)
(* well-founded.                                                           *)

LEMMA SubsetInduction ==
  ASSUME NEW S, IsFiniteSet(S), NEW Good \in SUBSET (SUBSET S),
         \A s \in SUBSET S :
            (\A t \in SUBSET s : t # s => t \in Good) => s \in Good
  PROVE  S \in Good
<1> DEFINE R == StrictSubsetOrdering(S)
           Bad == (SUBSET S) \ Good
<1>1. IsWellFoundedOn(R, SUBSET S)
  BY FS_StrictSubsetOrderingWellFounded, FS_FiniteSubsetsOfFinite
<1>2. \A t, s \in SUBSET S : t \subseteq s /\ t # s => <<t, s>> \in R
  BY DEF StrictSubsetOrdering
<1> HIDE DEF R
<1>3. CASE Bad # {}
  <2>1. Bad \subseteq SUBSET S
    OBVIOUS
  <2> HIDE DEF Bad
  <2>2. PICK s \in Bad : \A t \in Bad : ~ (<<t, s>> \in R)
    BY <1>1, <1>3, <2>1, WFMin
  <2>3. ASSUME NEW t \in SUBSET s, t # s PROVE t \in Good
    <3>1. t \in SUBSET S /\ s \in SUBSET S
      BY <2>1, <2>2
    <3>2. <<t, s>> \in R
      BY <1>2, <2>3, <3>1
    <3>3. t \notin Bad
      BY <2>2, <3>2
    <3> QED
      BY <3>1, <3>3 DEF Bad
  <2>4. s \in Good
    BY <2>1, <2>2, <2>3
  <2> QED
    BY <2>2, <2>4 DEF Bad
<1>4. CASE Bad = {}
  <2>1. S \in SUBSET S
    OBVIOUS
  <2> QED
    BY <1>4, <2>1
<1> QED
  BY <1>3, <1>4

Pick(s) == CHOOSE x \in s : TRUE

\* g is the sum of f on each subset of S, and Chosen(f, S) the one the
\* definition of SumFunctionOnSet takes.
SumsOn(g, f, S) ==
    g = [s \in SUBSET S |->
           IF s = {} THEN 0 ELSE f[Pick(s)] + g[s \ {Pick(s)}]]
Chosen(f, S) == CHOOSE g : SumsOn(g, f, S)

LEMMA SumIsChosen ==
  ASSUME NEW f, NEW S
  PROVE  SumFunctionOnSet(f, S) = Chosen(f, S)[S]
BY DEF SumFunctionOnSet, FoldFunctionOnSet, MapThenFoldSet, Pick, Chosen, SumsOn

LEMMA PickRemoved ==
  ASSUME NEW s, s # {}
  PROVE  /\ Pick(s) \in s
         /\ s \ {Pick(s)} \in SUBSET s /\ s \ {Pick(s)} # s
<1>1. Pick(s) \in s
  BY DEF Pick
<1> QED
  BY <1>1

LEMMA SumsAt ==
  ASSUME NEW g, NEW f, NEW S, SumsOn(g, f, S), NEW s \in SUBSET S
  PROVE  g[s] = IF s = {} THEN 0 ELSE f[Pick(s)] + g[s \ {Pick(s)}]
BY DEF SumsOn

LEMMA SumsAgree ==
  ASSUME NEW f, NEW S, NEW T, NEW g, NEW h, SumsOn(g, f, S), SumsOn(h, f, T),
         NEW s, IsFiniteSet(s), s \subseteq S, s \subseteq T
  PROVE  g[s] = h[s]
<1> DEFINE Good == {t \in SUBSET s : g[t] = h[t]}
<1>1. ASSUME NEW t \in SUBSET s, \A u \in SUBSET t : u # t => u \in Good
      PROVE  t \in Good
  <2>1. g[t] = IF t = {} THEN 0 ELSE f[Pick(t)] + g[t \ {Pick(t)}]
    BY SumsAt
  <2>2. h[t] = IF t = {} THEN 0 ELSE f[Pick(t)] + h[t \ {Pick(t)}]
    BY SumsAt
  <2>3. CASE t # {}
    <3>1. t \ {Pick(t)} \in Good
      BY <1>1, <2>3, PickRemoved
    <3> QED
      BY <2>1, <2>2, <3>1
  <2> QED
    BY <2>1, <2>2, <2>3
<1>2. s \in Good
  <2>1. Good \in SUBSET (SUBSET s)
    OBVIOUS
  <2> HIDE DEF Good
  <2> QED
    BY <1>1, <2>1, SubsetInduction
<1> QED
  BY <1>2

LEMMA SumsExist ==
  ASSUME NEW f, NEW S, IsFiniteSet(S)
  PROVE  SumsOn(Chosen(f, S), f, S)
<1> DEFINE Good == {s \in SUBSET S : SumsOn(Chosen(f, s), f, s)}
<1>1. ASSUME NEW s \in SUBSET S, \A t \in SUBSET s : t # s => t \in Good
      PROVE  s \in Good
  <2> DEFINE at(t) == Chosen(f, t)[t]
             g == [t \in SUBSET s |->
                     IF t = {} THEN 0 ELSE f[Pick(t)] + at(t \ {Pick(t)})]
  <2>1. ASSUME NEW t \in SUBSET s, t # s
        PROVE  g[t] = at(t)
    <3>1. SumsOn(Chosen(f, t), f, t)
      BY <1>1, <2>1
    <3>2. at(t) = IF t = {} THEN 0
                  ELSE f[Pick(t)] + Chosen(f, t)[t \ {Pick(t)}]
      BY <3>1, SumsAt
    <3>3. CASE t # {}
      <4> DEFINE u == t \ {Pick(t)}
      <4>1. u \in SUBSET t /\ u \in SUBSET s /\ u # s
        BY <2>1, <3>3, PickRemoved
      <4>2. SumsOn(Chosen(f, u), f, u)
        BY <1>1, <4>1
      <4>3. IsFiniteSet(u)
        BY <4>1, FS_Subset
      <4>4. Chosen(f, t)[u] = at(u)
        BY <3>1, <4>1, <4>2, <4>3, SumsAgree
      <4> QED
        BY <3>2, <3>3, <4>4
    <3> QED
      BY <3>2, <3>3
  <2>2. ASSUME NEW t \in SUBSET s, t # {}
        PROVE  at(t \ {Pick(t)}) = g[t \ {Pick(t)}]
    <3>1. t \ {Pick(t)} \in SUBSET s /\ t \ {Pick(t)} # s
      BY <2>2, PickRemoved
    <3> HIDE DEF g, at
    <3> QED
      BY <2>1, <3>1
  <2>3. g = [t \in SUBSET s |->
               IF t = {} THEN 0 ELSE f[Pick(t)] + g[t \ {Pick(t)}]]
    BY <2>2
  <2> HIDE DEF g
  <2>4. SumsOn(g, f, s)
    BY <2>3 DEF SumsOn
  <2>5. SumsOn(Chosen(f, s), f, s)
    BY <2>4 DEF Chosen
  <2> QED
    BY <2>5
<1>2. S \in Good
  <2>1. Good \in SUBSET (SUBSET S)
    OBVIOUS
  <2> HIDE DEF Good
  <2> QED
    BY <1>1, <2>1, SubsetInduction
<1> QED
  BY <1>2

\* The sum of a finite set, one element at a time.
LEMMA SumStep ==
  ASSUME NEW f, NEW S, IsFiniteSet(S)
  PROVE  SumFunctionOnSet(f, S) =
            IF S = {} THEN 0
            ELSE f[Pick(S)] + SumFunctionOnSet(f, S \ {Pick(S)})
<1> DEFINE T == S \ {Pick(S)}
<1>1. IsFiniteSet(T)
  BY FS_Subset
<1>2. SumsOn(Chosen(f, S), f, S) /\ SumsOn(Chosen(f, T), f, T)
  BY <1>1, SumsExist
<1>3. Chosen(f, S)[T] = Chosen(f, T)[T]
  BY <1>1, <1>2, SumsAgree
<1>4. Chosen(f, S)[S] = IF S = {} THEN 0 ELSE f[Pick(S)] + Chosen(f, S)[T]
  BY <1>2, SumsAt
<1> QED
  BY <1>3, <1>4, SumIsChosen

LEMMA SumIsNat ==
  ASSUME NEW f, NEW S, IsFiniteSet(S), \A x \in S : f[x] \in Nat
  PROVE  SumFunctionOnSet(f, S) \in Nat
<1> DEFINE Good == {s \in SUBSET S : SumFunctionOnSet(f, s) \in Nat}
<1>1. ASSUME NEW s \in SUBSET S, \A t \in SUBSET s : t # s => t \in Good
      PROVE  s \in Good
  <2>1. SumFunctionOnSet(f, s) =
           IF s = {} THEN 0 ELSE f[Pick(s)] + SumFunctionOnSet(f, s \ {Pick(s)})
    BY SumStep, FS_Subset
  <2>2. CASE s # {}
    <3>1. Pick(s) \in S /\ s \ {Pick(s)} \in Good
      BY <1>1, <2>2, PickRemoved
    <3> QED
      BY <2>1, <2>2, <3>1
  <2> QED
    BY <2>1, <2>2
<1>2. S \in Good
  <2>1. Good \in SUBSET (SUBSET S)
    OBVIOUS
  <2> HIDE DEF Good
  <2> QED
    BY <1>1, <2>1, SubsetInduction
<1> QED
  BY <1>2

\* When one summand changes, the sum changes by as much.
LEMMA SumOfChanged ==
  ASSUME NEW f, NEW h, NEW S, IsFiniteSet(S), NEW i,
         \A x \in S : f[x] \in Nat /\ h[x] \in Nat,
         \A x \in S : x # i => h[x] = f[x]
  PROVE  SumFunctionOnSet(h, S) =
            SumFunctionOnSet(f, S) + (IF i \in S THEN h[i] - f[i] ELSE 0)
<1> DEFINE change(s) == IF i \in s THEN h[i] - f[i] ELSE 0
           Good == {s \in SUBSET S : SumFunctionOnSet(h, s) =
                                        SumFunctionOnSet(f, s) + change(s)}
<1>1. ASSUME NEW s \in SUBSET S, \A t \in SUBSET s : t # s => t \in Good
      PROVE  s \in Good
  <2>0. IsFiniteSet(s)
    BY FS_Subset
  <2>1. SumFunctionOnSet(f, s) =
           IF s = {} THEN 0 ELSE f[Pick(s)] + SumFunctionOnSet(f, s \ {Pick(s)})
    BY <2>0, SumStep
  <2>2. SumFunctionOnSet(h, s) =
           IF s = {} THEN 0 ELSE h[Pick(s)] + SumFunctionOnSet(h, s \ {Pick(s)})
    BY <2>0, SumStep
  <2>3. CASE s # {}
    <3> DEFINE x == Pick(s)
               t == s \ {x}
    <3>1. x \in s /\ t \in Good
      BY <1>1, <2>3, PickRemoved
    <3>2. IsFiniteSet(t)
      BY <2>0, FS_Subset
    <3>3. SumFunctionOnSet(f, t) \in Nat
      BY <3>2, SumIsNat
    <3> HIDE DEF x
    <3>4. f[x] \in Nat /\ h[x] \in Nat /\ (x # i => h[x] = f[x])
      BY <3>1
    <3>5. i \in s => f[i] \in Nat /\ h[i] \in Nat
      OBVIOUS
    <3>6. SumFunctionOnSet(h, t) = SumFunctionOnSet(f, t) + change(t)
      BY <3>1
    <3>7. CASE x = i
      <4>1. change(t) = 0 /\ change(s) = h[x] - f[x]
        BY <3>1, <3>7
      <4> QED
        BY <2>1, <2>2, <2>3, <3>3, <3>4, <3>6, <4>1 DEF x
    <3>8. CASE x # i
      <4>1. change(t) = change(s) /\ change(s) \in Int
        BY <3>5, <3>8
      <4> QED
        BY <2>1, <2>2, <2>3, <3>3, <3>4, <3>6, <3>8, <4>1 DEF x
    <3> QED
      BY <3>7, <3>8
  <2> QED
    BY <2>1, <2>2, <2>3
<1>2. S \in Good
  <2>1. Good \in SUBSET (SUBSET S)
    OBVIOUS
  <2> HIDE DEF Good
  <2> QED
    BY <1>1, <2>1, SubsetInduction
<1> QED
  BY <1>2

-----------------------------------------------------------------------------
(* The readings.                                                           *)

BytesOK == bytes \in [Interfaces -> {Absent} \cup 0 .. MaxBytes]

LEMMA SelectedAreInterfaces ==
  ASSUME NEW v \in Versions \cup {0}
  PROVE  Selected(v) \subseteq Interfaces /\ IsFiniteSet(Selected(v))
<1>1. Selected(v) \subseteq Interfaces
  BY ListedAssumption DEF Selected
<1> QED
  BY <1>1, FS_Subset, TrafficAssumption

LEMMA CountedIsNat ==
  ASSUME BytesOK
  PROVE  \A i \in Interfaces :
            counted[i] \in Nat /\ counted[i] = IF bytes[i] = Absent THEN 0 ELSE bytes[i]
BY TrafficAssumption DEF BytesOK, counted, Absent

LEMMA ReadingIsNat ==
  ASSUME BytesOK, NEW v \in Versions \cup {0}
  PROVE  ReadNetworkInfo(v) \in Nat
BY SelectedAreInterfaces, CountedIsNat, SumIsNat DEF ReadNetworkInfo

\* What a reading would give after the counter of one interface changed.
LEMMA ReadingChanges ==
  ASSUME BytesOK, BytesOK', NEW v \in Versions \cup {0}, NEW i \in Interfaces,
         \A j \in Interfaces : j # i => bytes'[j] = bytes[j]
  PROVE  SumFunctionOnSet(counted', Selected(v)) =
            ReadNetworkInfo(v)
               + (IF i \in Selected(v) THEN counted'[i] - counted[i] ELSE 0)
<1>1. Selected(v) \subseteq Interfaces /\ IsFiniteSet(Selected(v))
  BY SelectedAreInterfaces
<1>2. \A j \in Interfaces : counted[j] \in Nat /\ counted'[j] \in Nat
  <2>1. \A j \in Interfaces : counted'[j] \in Nat
    BY TrafficAssumption DEF BytesOK, counted, Absent
  <2> QED
    BY <2>1, CountedIsNat
<1>3. \A j \in Interfaces : j # i => counted'[j] = counted[j]
  BY DEF counted
<1> QED
  BY <1>1, <1>2, <1>3, SumOfChanged DEF ReadNetworkInfo

-----------------------------------------------------------------------------
(* The steps of the main loop are those of Daemon.                         *)

LEMMA StartsAsDaemon == SInit => Init
BY DEF SInit

LEMMA StepsAsDaemon == [SNext]_all => [Next]_vars
<1>1. Kernel => UNCHANGED vars
  BY DEF Kernel, Carry, Go, Come
<1>2. SMain => Main
  BY DEF SMain, FirstReading, ReloadReading, ReloadReadingFails, BaselineReading,
        SpeedReading, RoundEnds, ReadsNothing, Main
<1>3. UNCHANGED all => UNCHANGED vars
  BY DEF all
<1> QED
  BY <1>1, <1>2, <1>3 DEF SNext, SOutside, Next

\* Sampling refines Daemon: counters that move at any time change nothing in
\* the order of signals, sleeps, reloads and rounds.
THEOREM SamplingRefinesDaemon == SSpec => Spec
BY StartsAsDaemon, StepsAsDaemon, PTL DEF SSpec, Spec

\* What the signals and the reload promise holds while the counters move.
THEOREM DaemonKeptWhileSampling ==
    SSpec => [](TypeOK /\ ReloadNotLost /\ SpeedBaseComparable
                  /\ OneSleepAfterStop)
BY SamplingRefinesDaemon, DaemonTypes, ReloadKept, SpeedComparable, StopPrompt, PTL

LEMMA LoopInvariant == SSpec => []IInv
BY SamplingRefinesDaemon, Inductive, PTL

-----------------------------------------------------------------------------
(* The inductive invariant: what the counters say now is what they said at *)
(* the baseline and what was carried since.                                *)

InLoop == pc \notin Ended \cup {"install handlers", "start"}

\* The next speed is computed from previous; once the network of a round was
\* read, from current, which becomes the baseline at the end of the round.
Baseline == IF pc = "rest" THEN current ELSE previous

TrafficInv ==
    InLoop =>
       /\ ~ traffic.came =>
             ReadNetworkInfo(config) =< Baseline + traffic.carried
       /\ ~ traffic.came /\ ~ traffic.gone =>
             ReadNetworkInfo(config) = Baseline + traffic.carried

SInv == STypeOK /\ TrafficInv

LEMMA SInitEstablishes == SInit => SInv
<1> SUFFICES ASSUME SInit PROVE SInv
  OBVIOUS
<1>1. bytes \in [Interfaces -> {Absent} \cup 0 .. MaxBytes]
  BY TrafficAssumption DEF SInit
<1>2. traffic \in [carried : 0 .. MaxCarried, gone : BOOLEAN, came : BOOLEAN]
  BY TrafficAssumption DEF SInit, NoTraffic
<1>3. STypeOK
  BY <1>1, <1>2 DEF SInit, STypeOK
<1>4. ~ InLoop
  BY DEF SInit, Init, InLoop
<1> QED
  BY <1>3, <1>4 DEF SInv, TrafficInv

\* A step of the kernel moves one counter.
LEMMA KernelPreserves ==
  ASSUME SInv, IInv, Kernel
  PROVE  SInv'
<1>1. UNCHANGED <<vars, previous, current, speed>>
  BY DEF Kernel, Carry, Go, Come
<1>2. pc' = pc /\ config' = config
  BY <1>1 DEF vars
<1>3. config \in Versions \cup {0} /\ previous_network.config = config
  BY DEF IInv, TypeOK, BaselineInv
<1>4. Measured = Selected(config)
  BY <1>3 DEF Measured
<1>5. BytesOK /\ previous \in Nat /\ current \in Nat /\ speed \in Nat
      /\ traffic \in [carried : 0 .. MaxCarried, gone : BOOLEAN, came : BOOLEAN]
  BY DEF SInv, STypeOK, BytesOK
<1>6. ReadNetworkInfo(config) \in Nat /\ Baseline \in Nat
      /\ traffic.carried \in Nat
  BY <1>3, <1>5, ReadingIsNat, TrafficAssumption DEF Baseline
<1>7. InLoop' = InLoop /\ Baseline' = Baseline
  BY <1>1, <1>2 DEF InLoop, Baseline
<1>8. ReadNetworkInfo(config)' = SumFunctionOnSet(counted', Selected(config))
  BY <1>2 DEF ReadNetworkInfo, Selected
<1>9. ASSUME BytesOK', NEW i \in Interfaces,
             \A j \in Interfaces : j # i => bytes'[j] = bytes[j],
             traffic' \in [carried : 0 .. MaxCarried, gone : BOOLEAN, came : BOOLEAN],
             \/ traffic'.came
             \/ /\ traffic'.came = traffic.came
                /\ traffic'.gone
                /\ traffic'.carried = traffic.carried
                /\ i \in Selected(config) => counted'[i] =< counted[i]
             \/ /\ traffic'.came = traffic.came
                /\ traffic'.gone = traffic.gone
                /\ traffic'.carried - traffic.carried =
                      IF i \in Selected(config) THEN counted'[i] - counted[i] ELSE 0
      PROVE  SInv'
  <2>1. STypeOK'
    BY <1>1, <1>5, <1>9 DEF STypeOK, BytesOK
  <2>2. ReadNetworkInfo(config)' = ReadNetworkInfo(config) +
           (IF i \in Selected(config) THEN counted'[i] - counted[i] ELSE 0)
    BY <1>3, <1>5, <1>8, <1>9, ReadingChanges
  <2>3. counted[i] \in Nat /\ counted'[i] \in Nat /\ traffic'.carried \in Nat
    <3>1. counted'[i] \in Nat
      BY <1>9, TrafficAssumption DEF BytesOK, counted, Absent
    <3> QED
      BY <1>5, <1>9, <3>1, CountedIsNat, TrafficAssumption
  <2>4. TrafficInv'
    <3> SUFFICES ASSUME InLoop', ~ traffic'.came
                 PROVE  /\ ReadNetworkInfo(config)' =< Baseline' + traffic'.carried
                        /\ ~ traffic'.gone =>
                              ReadNetworkInfo(config)' = Baseline' + traffic'.carried
      BY DEF TrafficInv
    <3>1. /\ ~ traffic.came =>
                ReadNetworkInfo(config) =< Baseline + traffic.carried
          /\ ~ traffic.came /\ ~ traffic.gone =>
                ReadNetworkInfo(config) = Baseline + traffic.carried
      BY <1>7 DEF SInv, TrafficInv
    <3> QED
      BY <1>6, <1>7, <1>9, <2>2, <2>3, <3>1
  <2> QED
    BY <2>1, <2>4 DEF SInv
<1>10. ASSUME NEW i \in Interfaces, Carry(i) PROVE SInv'
  <2>1. /\ bytes[i] \in 0 .. MaxBytes - 1 /\ traffic.carried < MaxCarried
        /\ bytes' = [bytes EXCEPT ![i] = @ + 1]
        /\ traffic' = [traffic EXCEPT !.carried =
                         IF i \in Selected(config) THEN @ + 1 ELSE @]
    BY <1>4, <1>10 DEF Carry
  <2>2. BytesOK'
    BY <1>5, <2>1, TrafficAssumption DEF BytesOK
  <2>3. counted[i] = bytes[i] /\ counted'[i] = bytes[i] + 1
    BY <1>5, <2>1, TrafficAssumption DEF BytesOK, counted, Absent
  <2>4. \A j \in Interfaces : j # i => bytes'[j] = bytes[j]
    BY <1>5, <2>1 DEF BytesOK
  <2>5. traffic' \in [carried : 0 .. MaxCarried, gone : BOOLEAN, came : BOOLEAN]
    BY <1>5, <2>1, TrafficAssumption
  <2>6. /\ traffic'.came = traffic.came /\ traffic'.gone = traffic.gone
        /\ traffic'.carried =
              IF i \in Selected(config) THEN traffic.carried + 1 ELSE traffic.carried
    BY <1>5, <2>1
  <2>7. traffic'.carried - traffic.carried =
           IF i \in Selected(config) THEN counted'[i] - counted[i] ELSE 0
    BY <1>6, <2>1, <2>3, <2>6, TrafficAssumption
  <2> QED
    BY <1>9, <2>2, <2>4, <2>5, <2>6, <2>7
<1>11. ASSUME NEW i \in Interfaces, Go(i) PROVE SInv'
  <2>1. /\ bytes[i] # Absent
        /\ bytes' = [bytes EXCEPT ![i] = Absent]
        /\ traffic' = [traffic EXCEPT !.gone =
                         @ \/ (i \in Selected(config) /\ bytes[i] > 0)]
    BY <1>4, <1>11 DEF Go
  <2>2. BytesOK'
    BY <1>5, <2>1 DEF BytesOK
  <2>3. counted[i] = bytes[i] /\ counted'[i] = 0 /\ bytes[i] \in Nat
    BY <1>5, <2>1, TrafficAssumption DEF BytesOK, counted, Absent
  <2>4. \A j \in Interfaces : j # i => bytes'[j] = bytes[j]
    BY <1>5, <2>1 DEF BytesOK
  <2>5. /\ traffic'.came = traffic.came /\ traffic'.carried = traffic.carried
        /\ traffic'.gone = (traffic.gone \/ (i \in Selected(config) /\ bytes[i] > 0))
    BY <1>5, <2>1
  <2>6. traffic' \in [carried : 0 .. MaxCarried, gone : BOOLEAN, came : BOOLEAN]
    BY <1>5, <2>1
  <2>7. CASE i \in Selected(config) /\ bytes[i] > 0
    BY <1>9, <2>2, <2>3, <2>4, <2>5, <2>6, <2>7
  <2>8. CASE ~ (i \in Selected(config) /\ bytes[i] > 0)
    <3>1. traffic'.gone = traffic.gone
      BY <1>5, <2>5, <2>8
    <3>2. traffic'.carried - traffic.carried =
             IF i \in Selected(config) THEN counted'[i] - counted[i] ELSE 0
      BY <1>6, <2>3, <2>5, <2>8
    <3> QED
      BY <1>9, <2>2, <2>4, <2>5, <2>6, <3>1, <3>2
  <2> QED
    BY <2>7, <2>8
<1>12. ASSUME NEW i \in Interfaces, Come(i) PROVE SInv'
  <2>1. PICK n \in {0, MaxBytes} :
           /\ bytes' = [bytes EXCEPT ![i] = n]
           /\ traffic' = [traffic EXCEPT !.came =
                            @ \/ (i \in Selected(config) /\ n > 0)]
    BY <1>4, <1>12 DEF Come
  <2>2. BytesOK' /\ n \in Nat
    BY <1>5, <2>1, TrafficAssumption DEF BytesOK
  <2>3. bytes[i] = Absent
    BY <1>12 DEF Come
  <2>4. counted[i] = 0 /\ counted'[i] = n
    BY <1>5, <2>1, <2>2, <2>3, TrafficAssumption DEF BytesOK, counted, Absent
  <2>5. \A j \in Interfaces : j # i => bytes'[j] = bytes[j]
    BY <1>5, <2>1 DEF BytesOK
  <2>6. /\ traffic'.gone = traffic.gone /\ traffic'.carried = traffic.carried
        /\ traffic'.came = (traffic.came \/ (i \in Selected(config) /\ n > 0))
    BY <1>5, <2>1
  <2>7. traffic' \in [carried : 0 .. MaxCarried, gone : BOOLEAN, came : BOOLEAN]
    BY <1>5, <2>1
  <2>8. CASE i \in Selected(config) /\ n > 0
    BY <1>9, <2>2, <2>5, <2>6, <2>7, <2>8
  <2>9. CASE ~ (i \in Selected(config) /\ n > 0)
    <3>1. traffic'.came = traffic.came
      BY <1>5, <2>6, <2>9
    <3>2. traffic'.carried - traffic.carried =
             IF i \in Selected(config) THEN counted'[i] - counted[i] ELSE 0
      BY <1>6, <2>2, <2>4, <2>6, <2>9
    <3> QED
      BY <1>9, <2>2, <2>5, <2>6, <2>7, <3>1, <3>2
  <2> QED
    BY <2>8, <2>9
<1> QED
  BY <1>10, <1>11, <1>12 DEF Kernel

\* A step that reads nothing leaves the loop or stays between the same readings.
LEMMA QuietSteps ==
  ASSUME IInv,
         \/ InstallHandlers \/ LoopTest \/ FallAsleep \/ WakeUp \/ AfterSleep
         \/ Load \/ MeasureFirst \/ Fails \/ ShutDown \/ Outside \/ UNCHANGED vars
  PROVE  /\ config' = config
         /\ InLoop' => InLoop /\ (pc' = "rest" <=> pc = "rest")
<1> USE DEF InLoop, Ended
<1>1. CASE InstallHandlers
  BY <1>1 DEF InstallHandlers
<1>2. CASE LoopTest
  BY <1>2 DEF LoopTest
<1>3. CASE FallAsleep
  BY <1>3 DEF FallAsleep
<1>4. CASE WakeUp
  BY <1>4 DEF WakeUp
<1>5. CASE AfterSleep
  BY <1>5 DEF AfterSleep
<1>6. CASE Load
  BY <1>6 DEF Load, ReloadEnds
<1>7. CASE MeasureFirst
  BY <1>7 DEF MeasureFirst
<1>8. CASE Fails
  BY <1>8 DEF Fails
<1>9. CASE ShutDown
  BY <1>9 DEF ShutDown
<1>10. CASE Edit
  BY <1>10 DEF Edit
<1>11. CASE StopSignal
  BY <1>11 DEF StopSignal, Interrupts
<1>12. CASE ReloadSignal
  BY <1>12 DEF ReloadSignal, Interrupts
<1>13. CASE EarlySignal
  BY <1>13 DEF EarlySignal
<1>14. CASE UNCHANGED vars
  BY <1>14 DEF vars
<1> QED
  BY <1>1, <1>2, <1>3, <1>4, <1>5, <1>6, <1>7, <1>8, <1>9, <1>10, <1>11, <1>12,
     <1>13, <1>14 DEF Outside

LEMMA QuietPreserves ==
  ASSUME SInv, IInv, UNCHANGED <<bytes, readings>>,
         \/ InstallHandlers \/ LoopTest \/ FallAsleep \/ WakeUp \/ AfterSleep
         \/ Load \/ MeasureFirst \/ Fails \/ ShutDown \/ Outside \/ UNCHANGED vars
  PROVE  SInv'
<1>1. UNCHANGED <<bytes, previous, current, speed, traffic>>
  BY DEF readings
<1>2. STypeOK'
  BY <1>1 DEF SInv, STypeOK
<1>3. config' = config /\ (InLoop' => InLoop /\ (pc' = "rest" <=> pc = "rest"))
  BY QuietSteps
<1>4. ReadNetworkInfo(config)' = ReadNetworkInfo(config)
  BY <1>1, <1>3 DEF ReadNetworkInfo, Selected, counted
<1>5. InLoop' => InLoop /\ Baseline' = Baseline
  BY <1>1, <1>3 DEF Baseline
<1>6. TrafficInv'
  BY <1>1, <1>4, <1>5 DEF SInv, TrafficInv
<1> QED
  BY <1>2, <1>6 DEF SInv

\* After a reading that becomes the baseline, no traffic was carried yet.
LEMMA ReadingPreserves ==
  ASSUME SInv, IInv, IInv',
         FirstReading \/ ReloadReading \/ BaselineReading \/ SpeedReading
  PROVE  SInv'
<1>1. BytesOK /\ previous \in Nat /\ current \in Nat /\ speed \in Nat
  BY DEF SInv, STypeOK, BytesOK
<1>2. /\ config \in Versions \cup {0} /\ config' \in Versions \cup {0}
      /\ reloaded_config \in Versions \cup {0}
  BY DEF IInv, TypeOK
<1>3. ReadNetworkInfo(config) \in Nat /\ ReadNetworkInfo(reloaded_config) \in Nat
  BY <1>1, <1>2, ReadingIsNat
<1>4. bytes' = bytes /\ traffic' = NoTraffic
  BY DEF FirstReading, ReloadReading, BaselineReading, SpeedReading
<1>5. ReadNetworkInfo(config)' = ReadNetworkInfo(config')
  BY <1>4 DEF ReadNetworkInfo, Selected, counted
<1>6. /\ previous' \in Nat /\ current' \in Nat /\ speed' \in Nat
      /\ Baseline' = ReadNetworkInfo(config')
  <2>1. CASE FirstReading
    BY <1>1, <1>3, <2>1 DEF FirstReading, Started, Baseline
  <2>2. CASE ReloadReading
    BY <1>1, <1>3, <2>2 DEF ReloadReading, Apply, ReloadEnds, Baseline
  <2>3. CASE BaselineReading
    BY <1>1, <1>3, <2>3 DEF BaselineReading, ResetNetworkBaseline, Baseline
  <2>4. CASE SpeedReading
    BY <1>1, <1>3, <2>4 DEF SpeedReading, CalculateSpeed, Difference, Baseline
  <2> QED
    BY <2>1, <2>2, <2>3, <2>4
<1>7. STypeOK'
  <2>1. traffic' \in [carried : 0 .. MaxCarried, gone : BOOLEAN, came : BOOLEAN]
    BY <1>4, TrafficAssumption DEF NoTraffic
  <2> QED
    BY <1>1, <1>4, <1>6, <2>1 DEF STypeOK, BytesOK
<1>8. TrafficInv'
  <2>1. ReadNetworkInfo(config)' = Baseline' /\ Baseline' \in Nat
    BY <1>5, <1>6 DEF Baseline
  <2>2. traffic'.carried = 0
    BY <1>4 DEF NoTraffic
  <2>3. /\ ReadNetworkInfo(config)' = Baseline' + traffic'.carried
        /\ ReadNetworkInfo(config)' =< Baseline' + traffic'.carried
    <3>1. \A r \in Nat : r = r + 0 /\ r =< r + 0
      OBVIOUS
    <3> QED
      BY <2>1, <2>2, <3>1, Zenon
  <2> QED
    BY <2>3, Zenon DEF TrafficInv
<1> QED
  BY <1>7, <1>8 DEF SInv

\* The reading of a failed reload is not used; the one of a round becomes the
\* baseline at its end.
LEMMA OthersPreserve ==
  ASSUME SInv, IInv, ReloadReadingFails \/ RoundEnds
  PROVE  SInv'
<1>1. BytesOK /\ previous \in Nat /\ current \in Nat /\ speed \in Nat
  BY DEF SInv, STypeOK, BytesOK
<1>2. reloaded_config \in Versions \cup {0}
  BY DEF IInv, TypeOK
<1>3. /\ bytes' = bytes /\ traffic' = traffic /\ speed' = speed
      /\ config' = config /\ pc' # "rest" /\ InLoop
  <2>1. CASE ReloadReadingFails
    BY <2>1 DEF ReloadReadingFails, ApplyFails, ReloadEnds, InLoop, Ended
  <2>2. CASE RoundEnds
    BY <2>2 DEF RoundEnds, EndRound, InLoop, Ended
  <2> QED
    BY <2>1, <2>2
<1>4. previous' \in Nat /\ current' \in Nat /\ Baseline' = Baseline
  <2>1. CASE ReloadReadingFails
    <3>1. ReadNetworkInfo(reloaded_config) \in Nat
      BY <1>1, <1>2, ReadingIsNat
    <3>2. pc = "apply" /\ previous' = previous
          /\ current' \in {current, ReadNetworkInfo(reloaded_config)}
      BY <2>1 DEF ReloadReadingFails, ApplyFails
    <3> QED
      BY <1>1, <1>3, <3>1, <3>2 DEF Baseline
  <2>2. CASE RoundEnds
    BY <1>1, <1>3, <2>2 DEF RoundEnds, EndRound, BaselineAfter, Baseline
  <2> QED
    BY <2>1, <2>2
<1>5. STypeOK'
  BY <1>3, <1>4 DEF SInv, STypeOK
<1>6. ReadNetworkInfo(config)' = ReadNetworkInfo(config)
  BY <1>3 DEF ReadNetworkInfo, Selected, counted
<1>7. TrafficInv'
  BY <1>3, <1>4, <1>6 DEF SInv, TrafficInv
<1> QED
  BY <1>5, <1>7 DEF SInv

LEMMA SNextPreserves == SInv /\ IInv /\ IInv' /\ [SNext]_all => SInv'
<1> SUFFICES ASSUME SInv, IInv, IInv', [SNext]_all PROVE SInv'
  OBVIOUS
<1>1. CASE Kernel
  BY <1>1, KernelPreserves
<1>2. CASE SMain
  BY <1>2, QuietPreserves, ReadingPreserves, OthersPreserve DEF SMain, ReadsNothing
<1>3. CASE Outside /\ UNCHANGED <<bytes, readings>>
  BY <1>3, QuietPreserves
<1>4. CASE UNCHANGED all
  BY <1>4, QuietPreserves DEF all
<1> QED
  BY <1>1, <1>2, <1>3, <1>4 DEF SNext, SOutside

LEMMA SInvariant == SSpec => []SInv
BY SInitEstablishes, SNextPreserves, LoopInvariant, PTL DEF SSpec

-----------------------------------------------------------------------------
(* The theorems.                                                           *)

\* Sums and speeds are natural numbers, whatever interfaces go and come.
THEOREM SamplingTypes == SSpec => []STypeOK
<1>1. SInv => STypeOK
  BY DEF SInv
<1> QED
  BY <1>1, SInvariant, PTL

\* A speed is the traffic the selected interfaces carried since the baseline,
\* across rounds and reloads, for any number of interfaces and any selections.
THEOREM SpeedIsAlwaysTraffic == SSpec => SpeedIsTraffic
<1> DEFINE Traffic ==
       pc = "network" /\ pc' = "rest" /\ ~ network_baseline_reset =>
          /\ ~ traffic.came => speed' =< traffic.carried
          /\ ~ traffic.came /\ ~ traffic.gone => speed' = traffic.carried
<1>1. ASSUME SInv, IInv, SNext,
             pc = "network", pc' = "rest", ~ network_baseline_reset
      PROVE  Traffic
  <2>1. SpeedReading
    <3>1. ~ Kernel
      BY <1>1 DEF Kernel, Carry, Go, Come, vars
    <3>2. ~ Outside
      BY <1>1 DEF Outside, Edit, StopSignal, ReloadSignal, EarlySignal, Interrupts
    <3>3. SMain
      BY <1>1, <3>1, <3>2 DEF SNext, SOutside
    <3>4. ~ (FirstReading \/ ReloadReading \/ ReloadReadingFails
               \/ BaselineReading \/ RoundEnds)
      BY <1>1 DEF FirstReading, Started, ReloadReading, Apply, ReloadEnds,
            ReloadReadingFails, ApplyFails, BaselineReading,
            ResetNetworkBaseline, RoundEnds, EndRound
    <3>5. ~ ReadsNothing
      BY <1>1 DEF ReadsNothing, InstallHandlers, LoopTest, FallAsleep, WakeUp,
            AfterSleep, Load, MeasureFirst, Fails, ShutDown
    <3> QED
      BY <3>3, <3>4, <3>5 DEF SMain
  <2>2. speed' = Difference
    BY <2>1 DEF SpeedReading
  <2>3. /\ ReadNetworkInfo(config) \in Nat /\ previous \in Nat
        /\ traffic.carried \in Nat
    <3>1. BytesOK /\ previous \in Nat /\ config \in Versions \cup {0}
      BY <1>1 DEF SInv, STypeOK, BytesOK, IInv, TypeOK
    <3>2. traffic.carried \in Nat
      BY <1>1, TrafficAssumption DEF SInv, STypeOK
    <3> QED
      BY <3>1, <3>2, ReadingIsNat
  <2>4. InLoop /\ Baseline = previous
    BY <1>1 DEF InLoop, Ended, Baseline
  <2> QED
    BY <1>1, <2>2, <2>3, <2>4 DEF SInv, TrafficInv, Difference
<1>2. SInv /\ IInv /\ [SNext]_all => [Traffic]_all
  BY <1>1
<1> QED
  BY <1>2, SInvariant, LoopInvariant, PTL DEF SSpec, SpeedIsTraffic

=============================================================================
