---------------------------- MODULE Logger_proofs ----------------------------
(***************************************************************************)
(* Proofs about Logger, for any paths, limits, records and runs.           *)
(***************************************************************************)
EXTENDS Logger, SequenceTheorems, TLAPS

\* A record is only written to a file that has room under the limit.
RoomInv == pc = "append" => file[config.path].size < current_log_max_size

\* What is kept of a path was written in the order of the ids and of the runs,
\* so far; a torn record is the last one of its run, and that run is over.
OrderInv(p) ==
    /\ \A i \in 1 .. Len(Kept[p]) : Kept[p][i].id =< written /\ Kept[p][i].run =< run
    /\ pc # "down" => \A i \in 1 .. Len(Kept[p]) :
                         ~ Kept[p][i].whole => Kept[p][i].run < run
    /\ \A i \in 1 .. Len(Kept[p]) - 1 :
          ~ Kept[p][i].whole => Kept[p][i].run < Kept[p][i + 1].run

IInv ==
    /\ TypeOK /\ RoomInv /\ OverrunBelowOneRecord /\ LossLeavesFullBackup
    /\ \A p \in Paths : OrderInv(p)
    /\ pc # "down" => run > 0

-----------------------------------------------------------------------------
(* What is kept of a path after each step that changes it.                 *)

LEMMA KeptType ==
    ASSUME TypeOK, NEW p \in Paths
    PROVE  /\ file[p].records \in Seq(Record) /\ backup[p].records \in Seq(Record)
           /\ file[p].size \in Nat /\ backup[p].size \in Nat
           /\ Kept[p] = backup[p].records \o file[p].records
           /\ Kept[p] \in Seq(Record)
           /\ Len(Kept[p]) \in Nat
           /\ Len(Kept[p]) = Len(backup[p].records) + Len(file[p].records)
<1>1. file[p] \in File /\ backup[p] \in File
  BY DEF TypeOK
<1>2. /\ file[p].records \in Seq(Record) /\ backup[p].records \in Seq(Record)
      /\ file[p].size \in Nat /\ backup[p].size \in Nat
  BY <1>1 DEF File
<1>3. Kept[p] = backup[p].records \o file[p].records
  BY DEF Kept
<1>4. /\ Kept[p] \in Seq(Record)
      /\ Len(Kept[p]) = Len(backup[p].records) + Len(file[p].records)
  <2>1. \A s, t \in Seq(Record) : /\ s \o t \in Seq(Record)
                                  /\ Len(s \o t) = Len(s) + Len(t)
    BY ConcatProperties
  <2> QED BY <1>2, <1>3, <2>1
<1> QED BY <1>2, <1>3, <1>4, LenProperties

\* A record that reaches the file is the last one kept of its path, and it is
\* the newest, of the run that writes it.
LEMMA ReachKeeps ==
    ASSUME TypeOK, NEW n \in Nat, NEW whole \in BOOLEAN, Reach(n, whole),
           backup' = backup, run' = run
    PROVE  LET r == [id |-> written + 1, run |-> run, whole |-> whole]
               p == config.path
           IN  /\ Kept'[p] = Append(Kept[p], r)
               /\ Kept' = [Kept EXCEPT ![p] = Append(@, r)]
               /\ written' = written + 1 /\ written' \in 1 .. MaxRecords
               /\ file'[p].records = Append(file[p].records, r)
               /\ file'[p].size = file[p].size + n
               /\ \A q \in Paths \ {p} : file'[q] = file[q] /\ Kept'[q] = Kept[q]
<1> DEFINE r == [id |-> written + 1, run |-> run, whole |-> whole]
           p == config.path
<1>1. p \in Paths
  BY DEF TypeOK, Configs
<1>2. /\ file' = [file EXCEPT ![p] = [records |-> Append(file[p].records, r),
                                      size |-> file[p].size + n]]
      /\ written' = written + 1 /\ written < MaxRecords
  BY DEF Reach
<1>3. /\ file'[p] = [records |-> Append(file[p].records, r), size |-> file[p].size + n]
      /\ \A q \in Paths \ {p} : file'[q] = file[q]
  BY <1>1, <1>2 DEF TypeOK
<1>4. file'[p].records = Append(file[p].records, r) /\ file'[p].size = file[p].size + n
  BY <1>3
<1> HIDE DEF r, p
<1>5. \A q \in Paths : Kept'[q] = backup[q].records \o file'[q].records
  BY DEF Kept
<1>6. \A q \in Paths \ {p} : Kept'[q] = Kept[q]
  BY <1>3, <1>5 DEF Kept
<1>7. Kept'[p] = Append(Kept[p], r)
  <2>1. DEFINE S == Record \cup {r}
               b == backup[p].records
               f == file[p].records
  <2>2. b \in Seq(S) /\ f \in Seq(S) /\ r \in S
    BY <1>1, KeptType, SeqMonotonic
  <2>3. b \o Append(f, r) = Append(b \o f, r)
    <3> HIDE DEF S, b, f
    <3> QED BY <2>2, AppendIsConcat, ConcatAssociative, ConcatProperties
  <2> QED BY <1>1, <1>4, <1>5, <2>3, KeptType
<1>8. Kept' = [Kept EXCEPT ![p] = Append(Kept[p], r)]
  BY <1>1, <1>6, <1>7 DEF Kept
<1>9. written' \in 1 .. MaxRecords
  BY <1>2, BoundAssumption DEF TypeOK
<1> QED BY <1>2, <1>3, <1>4, <1>6, <1>7, <1>8, <1>9 DEF r, p

\* A rotation that renames leaves the last file of a path as all that is kept.
LEMMA RotateKeeps ==
    ASSUME TypeOK, Rotate
    PROVE  LET p == config.path
           IN  /\ p \in Paths
               /\ Kept'[p] = file[p].records
               /\ Kept' = [Kept EXCEPT ![p] = file[p].records]
               /\ \A i \in 1 .. Len(file[p].records) :
                     file[p].records[i] = Kept[p][Len(backup[p].records) + i]
               /\ \A q \in Paths \ {p} : Kept'[q] = Kept[q]
<1> DEFINE p == config.path
<1>1. p \in Paths
  BY DEF TypeOK, Configs
<1>2. /\ backup' = [backup EXCEPT ![p] = file[p]]
      /\ file' = [file EXCEPT ![p] = Empty]
  BY DEF Rotate, LeftByRotation
<1> HIDE DEF p
<1>3. /\ backup'[p] = file[p] /\ file'[p] = Empty
      /\ \A q \in Paths \ {p} : backup'[q] = backup[q] /\ file'[q] = file[q]
  BY <1>1, <1>2 DEF TypeOK
<1>4. \A q \in Paths : Kept'[q] = backup'[q].records \o file'[q].records
  BY DEF Kept
<1>5. Kept'[p] = file[p].records
  <2>1. file'[p].records = <<>>
    BY <1>3 DEF Empty
  <2>2. PICK s : s = file[p].records
    OBVIOUS
  <2>3. s \in Seq(Record)
    BY <1>1, <2>2, KeptType
  <2>4. s \o <<>> = s
    BY <2>3, ConcatEmptySeq
  <2>5. Kept'[p] = s \o <<>>
    BY <1>1, <1>3, <1>4, <2>1, <2>2
  <2> QED BY <2>2, <2>4, <2>5
<1>6. \A q \in Paths \ {p} : Kept'[q] = Kept[q]
  BY <1>3, <1>4 DEF Kept
<1>7. Kept' = [Kept EXCEPT ![p] = file[p].records]
  BY <1>1, <1>5, <1>6 DEF Kept
<1>8. \A i \in 1 .. Len(file[p].records) :
         file[p].records[i] = Kept[p][Len(backup[p].records) + i]
  <2> SUFFICES ASSUME NEW i \in 1 .. Len(file[p].records)
               PROVE  file[p].records[i] = Kept[p][Len(backup[p].records) + i]
    OBVIOUS
  <2>1. PICK s, t : s = backup[p].records /\ t = file[p].records
    OBVIOUS
  <2>2. s \in Seq(Record) /\ t \in Seq(Record) /\ Kept[p] = s \o t
    BY <1>1, <2>1, KeptType
  <2>3. \A j \in 1 .. Len(s) + Len(t) :
           (s \o t)[j] = IF j <= Len(s) THEN s[j] ELSE t[j - Len(s)]
    BY <2>2, ConcatProperties
  <2>4. /\ Len(s) \in Nat /\ Len(t) \in Nat /\ i \in 1 .. Len(t)
    BY <2>1, <2>2, LenProperties
  <2>5. /\ Len(s) + i \in 1 .. Len(s) + Len(t) /\ ~ (Len(s) + i <= Len(s))
        /\ (Len(s) + i) - Len(s) = i
    BY <2>4
  <2> QED BY <2>1, <2>2, <2>3, <2>5
<1> QED BY <1>1, <1>5, <1>6, <1>7, <1>8 DEF p

-----------------------------------------------------------------------------
(* The steps.                                                              *)

LEMMA InitInv == Init => IInv
<1> SUFFICES ASSUME Init PROVE IInv
  OBVIOUS
<1>1. Empty \in File /\ Len(Empty.records) = 0
  <2>1. \A S : <<>> \in Seq(S) /\ Len(<<>>) = 0
    BY EmptySeq
  <2> QED BY <2>1 DEF Empty, File
<1>2. TypeOK
  <2>1. file \in [Paths -> File] /\ backup \in [Paths -> File]
    BY <1>1 DEF Init
  <2>2. config \in Configs /\ current_log_max_size \in Limits
    BY DEF Init, Configs, LimitOf
  <2>3. NewHistory \in [allowed : Limits \cup {0}, dropped : BOOLEAN]
    BY DEF NewHistory
  <2>4. written \in 0 .. MaxRecords /\ run \in 0 .. MaxRuns
    BY BoundAssumption DEF Init
  <2> QED BY <2>1, <2>2, <2>3, <2>4 DEF Init, TypeOK
<1>3. \A p \in Paths : file[p].records = <<>> /\ backup[p].records = <<>>
  BY DEF Init, Empty
<1>4. \A p \in Paths : Len(Kept[p]) = 0
  <2>1. \A p \in Paths : Len(file[p].records) = 0 /\ Len(backup[p].records) = 0
    BY <1>1 DEF Init
  <2> TAKE p \in Paths
  <2>2. Len(Kept[p]) = Len(backup[p].records) + Len(file[p].records)
    BY <1>2, KeptType
  <2>3. Len(file[p].records) = 0 /\ Len(backup[p].records) = 0
    BY <2>1
  <2> QED BY <2>2, <2>3
<1>5. \A p \in Paths : OrderInv(p)
  <2>1. 1 .. 0 = {} /\ 1 .. 0 - 1 = {}
    OBVIOUS
  <2> QED BY <1>4, <2>1 DEF OrderInv
<1> QED BY <1>2, <1>3, <1>5
        DEF IInv, Init, RoomInv, OverrunBelowOneRecord, LossLeavesFullBackup,
            NewHistory

\* The steps that write and rotate nothing.
LEMMA QuietStep ==
    ASSUME IInv, Start \/ Reload \/ Log \/ NoRotation \/ RotationFails \/ Kill
    PROVE  IInv'
<1>0. TypeOK /\ RoomInv /\ MaxRuns \in Nat
  BY BoundAssumption DEF IInv
<1>1. /\ UNCHANGED <<file, backup, hist, written>>
      /\ run' \in {run, run + 1} /\ run \in Nat
      /\ pc' # "down" /\ pc = "down" => run' = run + 1
      /\ TypeOK' /\ RoomInv'
  <2>1. CASE Start
    <3>1. config' \in Configs /\ current_log_max_size' \in Limits
      BY <2>1 DEF Start, Configs, LimitOf
    <3>2. run' = run + 1 /\ run \in Nat /\ run' \in 0 .. MaxRuns
      BY <1>0, <2>1 DEF Start, TypeOK
    <3>3. UNCHANGED <<file, backup, hist, written>> /\ pc' = "check" /\ closing' = FALSE
      BY <2>1 DEF Start, files
    <3>4. TypeOK'
      BY <1>0, <3>1, <3>2, <3>3 DEF TypeOK
    <3> QED BY <3>2, <3>3, <3>4 DEF RoomInv
  <2>2. CASE Reload
    BY <1>0, <2>2 DEF Reload, TypeOK, RoomInv, Configs, LimitOf, files
  <2>3. CASE Log \/ RotationFails \/ Kill
    BY <1>0, <2>3 DEF Log, RotationFails, Kill, AfterFailure, TypeOK, RoomInv, files
  <2>4. CASE NoRotation
    <3>1. config.path \in Paths /\ current_log_max_size \in Nat
      BY <1>0, LimitAssumption DEF TypeOK, Configs
    <3>2. file[config.path].size \in Nat
      BY <1>0, <3>1, KeptType
    <3>3. TypeOK' /\ pc' = "append" /\ run' = run /\ run \in Nat
      BY <1>0, <2>4 DEF NoRotation, TypeOK, files
    <3>4. UNCHANGED <<file, backup, hist, written, config, current_log_max_size>>
      BY <2>4 DEF NoRotation, files
    <3>5. file[config.path].size < current_log_max_size /\ pc # "down"
      BY <2>4, <3>1, <3>2 DEF NoRotation, Full
    <3> QED BY <3>3, <3>4, <3>5 DEF RoomInv
  <2> QED BY <2>1, <2>2, <2>3, <2>4
<1>4. OverrunBelowOneRecord' /\ LossLeavesFullBackup'
  BY <1>1 DEF IInv, OverrunBelowOneRecord, LossLeavesFullBackup
<1>5. Kept' = Kept
  BY <1>1 DEF Kept
<1>6. ASSUME NEW p \in Paths PROVE OrderInv(p)'
  <2>1. OrderInv(p) /\ Kept[p] \in Seq(Record)
    BY KeptType DEF IInv
  <2>2. \A i \in 1 .. Len(Kept[p]) : Kept[p][i].run \in Nat
    <3>1. \A i \in 1 .. Len(Kept[p]) : Kept[p][i] \in Record
      BY <2>1, ElementOfSeq
    <3> QED BY <3>1, BoundAssumption DEF Record
  <2>3. \A i \in 1 .. Len(Kept[p]) :
           Kept[p][i].id =< written' /\ Kept[p][i].run =< run'
    BY <1>1, <2>1, <2>2 DEF OrderInv
  <2>4. pc' # "down" => \A i \in 1 .. Len(Kept[p]) :
                           ~ Kept[p][i].whole => Kept[p][i].run < run'
    BY <1>1, <2>1, <2>2 DEF OrderInv
  <2> QED BY <1>5, <2>1, <2>3, <2>4 DEF OrderInv
<1>7. pc' # "down" => run' > 0
  BY <1>1 DEF IInv
<1> QED BY <1>1, <1>4, <1>6, <1>7 DEF IInv

\* A rotation loses the backup: what is left was in order before, and the backup
\* now holds a file that had reached the limit.
LEMMA RotateStep == ASSUME IInv, Rotate PROVE IInv'
<1> DEFINE p == config.path
<1>0. /\ TypeOK /\ p \in Paths /\ \A q \in Paths : OrderInv(q)
      /\ current_log_max_size \in Limits /\ current_log_max_size \in Nat \ {0}
  BY LimitAssumption DEF IInv, TypeOK, Configs
<1>1. /\ pc' = "append" /\ pc # "down"
      /\ UNCHANGED <<config, current_log_max_size, closing, written, run>>
      /\ backup' = [backup EXCEPT ![p] = file[p]]
      /\ file' = [file EXCEPT ![p] = Empty]
      /\ hist' = [hist EXCEPT ![p].dropped = @ \/ backup[p].records # <<>>]
      /\ file[p].size >= current_log_max_size
  BY DEF Rotate, Full, LeftByRotation
<1>2. Empty \in File /\ Empty.records = <<>> /\ Empty.size = 0
  <2>1. \A S : <<>> \in Seq(S)
    BY EmptySeq
  <2> QED BY <2>1 DEF Empty, File
<1> HIDE DEF p
<1>3. TypeOK'
  <2>1. file' \in [Paths -> File] /\ backup' \in [Paths -> File]
    BY <1>0, <1>1, <1>2 DEF TypeOK
  <2>2. hist' \in [Paths -> [allowed : Limits \cup {0}, dropped : BOOLEAN]]
    BY <1>0, <1>1 DEF TypeOK
  <2> QED BY <1>0, <1>1, <2>1, <2>2 DEF TypeOK
<1>4. RoomInv'
  BY <1>0, <1>1, <1>2 DEF RoomInv, p, TypeOK
<1>5. OverrunBelowOneRecord'
  <2> SUFFICES ASSUME NEW q \in Paths, file'[q].records # <<>>
               PROVE  file'[q].size < hist'[q].allowed + MaxRecordSize
    BY DEF OverrunBelowOneRecord
  <2>1. q # p /\ file'[q] = file[q] /\ hist'[q] = hist[q]
    BY <1>0, <1>1, <1>2 DEF TypeOK
  <2> QED BY <2>1 DEF IInv, OverrunBelowOneRecord
<1>6. LossLeavesFullBackup'
  <2> SUFFICES ASSUME NEW q \in Paths, hist'[q].dropped
               PROVE  \E l \in Limits : backup'[q].size >= l
    BY DEF LossLeavesFullBackup
  <2>1. CASE q = p
    BY <1>0, <1>1, <2>1 DEF TypeOK
  <2>2. CASE q # p
    <3>1. backup'[q] = backup[q] /\ hist'[q] = hist[q]
      BY <1>0, <1>1, <2>2 DEF TypeOK
    <3> QED BY <3>1 DEF IInv, LossLeavesFullBackup
  <2> QED BY <2>1, <2>2
<1>7. ASSUME NEW q \in Paths PROVE OrderInv(q)'
  <2>1. CASE q # p
    <3>1. Kept'[q] = Kept[q]
      BY <1>0, <2>1, RotateKeeps DEF p
    <3> QED BY <1>0, <1>1, <3>1 DEF OrderInv
  <2>2. CASE q = p
    <3>1. /\ Kept'[p] = file[p].records
          /\ \A i \in 1 .. Len(file[p].records) :
                Kept'[p][i] = Kept[p][Len(backup[p].records) + i]
      BY <1>0, RotateKeeps DEF p
    <3>2. PICK b, f : b = Len(backup[p].records) /\ f = Len(file[p].records)
      OBVIOUS
    <3>3. b \in Nat /\ f \in Nat /\ Len(Kept[p]) = b + f /\ Len(Kept'[p]) = f
      <4>1. \A s \in Seq(Record) : Len(s) \in Nat
        BY LenProperties
      <4> QED BY <1>0, <3>1, <3>2, <4>1, KeptType
    <3>4. \A i \in 1 .. f : b + i \in 1 .. Len(Kept[p])
      BY <3>3
    <3>5. \A i \in 1 .. f - 1 : /\ b + i \in 1 .. Len(Kept[p]) - 1
                               /\ i \in 1 .. f /\ i + 1 \in 1 .. f
                               /\ b + (i + 1) = (b + i) + 1
      BY <3>3
    <3>6. OrderInv(p)
      BY <1>0
    <3>7. \A i \in 1 .. f : Kept'[p][i] = Kept[p][b + i]
      BY <3>1, <3>2
    <3>8. \A i \in 1 .. f :
             /\ Kept'[p][i].id =< written' /\ Kept'[p][i].run =< run'
             /\ ~ Kept'[p][i].whole => Kept'[p][i].run < run'
      BY <1>1, <3>4, <3>6, <3>7 DEF OrderInv
    <3>9. \A i \in 1 .. f - 1 :
             ~ Kept'[p][i].whole => Kept'[p][i].run < Kept'[p][i + 1].run
      <4> SUFFICES ASSUME NEW i \in 1 .. f - 1, ~ Kept'[p][i].whole
                   PROVE  Kept'[p][i].run < Kept'[p][i + 1].run
        OBVIOUS
      <4>1. /\ Kept'[p][i] = Kept[p][b + i]
            /\ Kept'[p][i + 1] = Kept[p][(b + i) + 1]
        BY <3>5, <3>7
      <4>2. b + i \in 1 .. Len(Kept[p]) - 1
        BY <3>5
      <4> QED BY <3>6, <4>1, <4>2 DEF OrderInv
    <3> QED BY <2>2, <3>3, <3>8, <3>9 DEF OrderInv
  <2> QED BY <2>1, <2>2
<1>8. run' > 0
  BY <1>1 DEF IInv
<1> QED BY <1>3, <1>4, <1>5, <1>6, <1>7, <1>8 DEF IInv

\* A record reaches the file, whole, or as the last one of the run.
LEMMA ReachStep ==
    ASSUME IInv, pc = "append", NEW n \in 1 .. MaxRecordSize, NEW whole \in BOOLEAN,
           Reach(n, whole), pc' \in {"up", "down"}, ~ whole => pc' = "down",
           UNCHANGED <<backup, config, current_log_max_size, closing, run>>
    PROVE  IInv'
<1> DEFINE p == config.path
           r == [id |-> written + 1, run |-> run, whole |-> whole]
<1>0. /\ TypeOK /\ p \in Paths /\ \A q \in Paths : OrderInv(q)
      /\ current_log_max_size \in Nat \ {0} /\ current_log_max_size \in Limits
      /\ run \in 1 .. MaxRuns /\ written \in Nat /\ n \in Nat /\ MaxRecordSize \in Nat
      /\ file[p].size < current_log_max_size
  BY LimitAssumption, RecordAssumption, BoundAssumption
     DEF IInv, TypeOK, Configs, RoomInv
<1>1. /\ Kept'[p] = Append(Kept[p], r)
      /\ written' = written + 1 /\ written' \in 1 .. MaxRecords
      /\ file'[p].records = Append(file[p].records, r)
      /\ file'[p].size = file[p].size + n
      /\ \A q \in Paths \ {p} : file'[q] = file[q] /\ Kept'[q] = Kept[q]
  BY <1>0, ReachKeeps
<1>2. /\ file' = [file EXCEPT ![p] = [records |-> Append(file[p].records, r),
                                      size |-> file[p].size + n]]
      /\ hist' = [hist EXCEPT ![p].allowed = current_log_max_size]
  BY DEF Reach
<1>r. r \in Record /\ r.id = written + 1 /\ r.run = run /\ r.whole = whole
  BY <1>0, <1>1 DEF Record
<1> HIDE DEF p, r
<1>3. TypeOK'
  <2>1. [records |-> Append(file[p].records, r), size |-> file[p].size + n] \in File
    <3>1. \A s \in Seq(Record) : Append(s, r) \in Seq(Record)
      BY <1>r, AppendProperties
    <3>2. file[p].records \in Seq(Record) /\ file[p].size \in Nat
      BY <1>0, KeptType
    <3>3. Append(file[p].records, r) \in Seq(Record) /\ file[p].size + n \in Nat
      BY <1>0, <3>1, <3>2
    <3> QED BY <3>3 DEF File
  <2>2. file' \in [Paths -> File]
    BY <1>0, <1>2, <2>1 DEF TypeOK
  <2>3. hist' \in [Paths -> [allowed : Limits \cup {0}, dropped : BOOLEAN]]
    BY <1>0, <1>2 DEF TypeOK
  <2> QED BY <1>0, <1>1, <2>2, <2>3 DEF TypeOK
<1>4. RoomInv'
  BY DEF RoomInv
<1>5. OverrunBelowOneRecord'
  <2> SUFFICES ASSUME NEW q \in Paths, file'[q].records # <<>>
               PROVE  file'[q].size < hist'[q].allowed + MaxRecordSize
    BY DEF OverrunBelowOneRecord
  <2>1. CASE q = p
    <3>1. hist'[p].allowed = current_log_max_size
      BY <1>0, <1>2 DEF TypeOK
    <3>2. file[p].size \in Nat
      BY <1>0, KeptType
    <3> QED BY <1>0, <1>1, <2>1, <3>1, <3>2
  <2>2. CASE q # p
    <3>1. file'[q] = file[q] /\ hist'[q] = hist[q]
      BY <1>0, <1>2, <2>2 DEF TypeOK
    <3> QED BY <3>1 DEF IInv, OverrunBelowOneRecord
  <2> QED BY <2>1, <2>2
<1>6. LossLeavesFullBackup'
  <2>1. \A q \in Paths : hist'[q].dropped = hist[q].dropped
    BY <1>0, <1>2 DEF TypeOK
  <2> QED BY <2>1 DEF IInv, LossLeavesFullBackup
<1>7. ASSUME NEW q \in Paths PROVE OrderInv(q)'
  <2>0. \A i \in 1 .. Len(Kept[q]) :
           Kept[q][i].id \in Nat /\ Kept[q][i].run \in Nat
    <3>1. \A s \in Seq(Record) : \A i \in 1 .. Len(s) : s[i] \in Record
      BY ElementOfSeq
    <3>2. \A i \in 1 .. Len(Kept[q]) : Kept[q][i] \in Record
      BY <1>0, <3>1, KeptType
    <3> QED BY <3>2, BoundAssumption DEF Record
  <2>1. CASE q # p
    <3>1. OrderInv(q) /\ Kept'[q] = Kept[q]
      BY <1>0, <1>1, <2>1
    <3>2. \A i \in 1 .. Len(Kept[q]) : Kept[q][i].id =< written'
      BY <1>0, <1>1, <2>0, <3>1 DEF OrderInv
    <3> QED BY <3>1, <3>2 DEF OrderInv
  <2>2. CASE q = p
    <3>1. PICK s, t : s = Kept[p] /\ t = Kept'[p]
      OBVIOUS
    <3>2. /\ t = Append(s, r) /\ s \in Seq(Record) /\ Len(s) \in Nat
      BY <1>0, <1>1, <3>1, KeptType
    <3>3. /\ Len(t) = Len(s) + 1 /\ t[Len(s) + 1] = r
          /\ \A i \in 1 .. Len(s) : t[i] = s[i]
      BY <1>r, <3>2, AppendProperties
    <3>4. /\ \A i \in 1 .. Len(s) : s[i].id =< written /\ s[i].run =< run
          /\ \A i \in 1 .. Len(s) : ~ s[i].whole => s[i].run < run
          /\ \A i \in 1 .. Len(s) - 1 : ~ s[i].whole => s[i].run < s[i + 1].run
          /\ \A i \in 1 .. Len(s) : s[i].id \in Nat /\ s[i].run \in Nat
      BY <1>0, <2>0, <2>2, <3>1 DEF OrderInv
    <3>5. ASSUME NEW i \in 1 .. Len(t)
          PROVE  t[i].id =< written' /\ t[i].run =< run'
      <4>1. CASE i \in 1 .. Len(s)
        <5>1. t[i] = s[i]
          BY <3>3, <4>1
        <5>2. s[i].id =< written /\ s[i].run =< run /\ s[i].id \in Nat
          BY <3>4, <4>1
        <5> QED BY <1>0, <1>1, <5>1, <5>2
      <4>2. CASE i = Len(s) + 1
        BY <1>0, <1>1, <1>r, <3>3, <4>2
      <4> QED BY <3>2, <3>3, <4>1, <4>2
    <3>6. ASSUME NEW i \in 1 .. Len(t), pc' # "down", ~ t[i].whole
          PROVE  t[i].run < run'
      <4>1. CASE i \in 1 .. Len(s)
        <5>1. t[i] = s[i]
          BY <3>3, <4>1
        <5>2. ~ s[i].whole => s[i].run < run
          BY <3>4, <4>1
        <5> QED BY <3>6, <5>1, <5>2
      <4>2. CASE i = Len(s) + 1
        BY <1>r, <3>3, <3>6, <4>2
      <4> QED BY <3>2, <3>3, <4>1, <4>2
    <3>7. ASSUME NEW i \in 1 .. Len(t) - 1, ~ t[i].whole
          PROVE  t[i].run < t[i + 1].run
      <4>1. i \in 1 .. Len(s) /\ t[i] = s[i]
        BY <3>2, <3>3
      <4>2. CASE i \in 1 .. Len(s) - 1
        <5>1. i + 1 \in 1 .. Len(s)
          BY <3>2, <4>2
        <5>2. t[i + 1] = s[i + 1]
          BY <3>3, <5>1
        <5>3. ~ s[i].whole => s[i].run < s[i + 1].run
          BY <3>4, <4>2
        <5> QED BY <3>7, <4>1, <5>2, <5>3
      <4>3. CASE i = Len(s)
        <5>1. t[i + 1] = r
          BY <3>3, <4>3
        <5>2. ~ s[i].whole => s[i].run < run
          BY <3>4, <4>1
        <5> QED BY <1>r, <3>7, <4>1, <5>1, <5>2
      <4> QED BY <3>2, <4>1, <4>2, <4>3
    <3> QED BY <2>2, <3>1, <3>5, <3>6, <3>7 DEF OrderInv
  <2> QED BY <2>1, <2>2
<1>8. run' > 0
  BY <1>0
<1> QED BY <1>3, <1>4, <1>5, <1>6, <1>7, <1>8 DEF IInv

\* Nothing of the record reaches the file.
LEMMA NothingReaches ==
    ASSUME IInv, pc' = "down",
           UNCHANGED <<file, written, hist, backup, config, current_log_max_size,
                       closing, run>>
    PROVE  IInv'
<1>1. TypeOK' /\ RoomInv' /\ OverrunBelowOneRecord' /\ LossLeavesFullBackup'
  BY DEF IInv, TypeOK, RoomInv, OverrunBelowOneRecord, LossLeavesFullBackup
<1>2. Kept' = Kept
  BY DEF Kept
<1>3. \A p \in Paths : OrderInv(p)'
  BY <1>2 DEF IInv, OrderInv
<1> QED BY <1>1, <1>3 DEF IInv

LEMMA Inductive == Spec => []IInv
<1>1. IInv /\ [Next]_vars => IInv'
  <2> SUFFICES ASSUME IInv, [Next]_vars PROVE IInv'
    OBVIOUS
  <2>1. CASE UNCHANGED vars
    <3>1. Kept' = Kept
      BY <2>1 DEF vars, files, Kept
    <3> QED BY <2>1, <3>1 DEF vars, files, IInv, TypeOK, RoomInv,
               OverrunBelowOneRecord, LossLeavesFullBackup, OrderInv
  <2>2. CASE Appended
    <3>1. PICK n \in 1 .. MaxRecordSize : Reach(n, TRUE)
      BY <2>2 DEF Appended
    <3> QED BY <2>2, <3>1, ReachStep DEF Appended
  <2>3. CASE AppendFails
    <3>1. CASE UNCHANGED <<file, written, hist>>
      BY <2>3, <3>1, NothingReaches DEF AppendFails, AfterFailure
    <3>2. CASE \E n \in 1 .. MaxRecordSize, whole \in BOOLEAN : Reach(n, whole)
      BY <2>3, <3>2, ReachStep DEF AppendFails, AfterFailure
    <3> QED BY <2>3, <3>1, <3>2 DEF AppendFails
  <2> QED BY <2>1, <2>2, <2>3, QuietStep, RotateStep DEF Next
<1> QED BY InitInv, <1>1, PTL DEF Spec

-----------------------------------------------------------------------------
(* The theorems.                                                           *)

\* The variables keep their types; the limit in force is always one a
\* configuration may have.
THEOREM TypeCorrect == Spec => []TypeOK
<1>1. IInv => TypeOK
  BY DEF IInv
<1> QED BY Inductive, <1>1, PTL

\* Whatever reloads, rotations, torn records and restarts come in between, a
\* file outgrows the limit it was last written under by less than one record.
THEOREM OverrunBounded == Spec => []OverrunBelowOneRecord
<1>1. IInv => OverrunBelowOneRecord
  BY DEF IInv
<1> QED BY Inductive, <1>1, PTL

\* A rotation that overwrites records leaves a full backup.
THEOREM BackupIsFull == Spec => []LossLeavesFullBackup
<1>1. IInv => LossLeavesFullBackup
  BY DEF IInv
<1> QED BY Inductive, <1>1, PTL

\* A torn record is the last one its run wrote to the path.
THEOREM TornIsLast == Spec => []TornEndsRun
<1>1. IInv => TornEndsRun
  BY DEF IInv, OrderInv, TornEndsRun
<1> QED BY Inductive, <1>1, PTL

\* Rotation, failures and restarts lose only the oldest records of a path and
\* never reorder or repeat one.
THEOREM StoreRefined == Spec => StoreImplemented
<1>1. Init => Store!Init
  <2> SUFFICES ASSUME Init PROVE \A p \in Paths : Kept[p] = <<>>
    BY DEF Store!Init, Kept
  <2> TAKE p \in Paths
  <2>1. Kept[p] = <<>> \o <<>>
    BY DEF Init, Kept, Empty
  <2>2. \A s \in Seq({}) : s \o <<>> = s
    BY ConcatEmptySeq
  <2>3. <<>> \in Seq({})
    BY EmptySeq
  <2> QED BY <2>1, <2>2, <2>3
<1>2. IInv /\ [Next]_vars => [Store!Next]_Kept
  <2> SUFFICES ASSUME IInv, [Next]_vars PROVE [Store!Next]_Kept
    OBVIOUS
  <2>0. /\ TypeOK /\ config.path \in Paths /\ \A p \in Paths : OrderInv(p)
        /\ run \in 0 .. MaxRuns /\ written \in Nat
    BY BoundAssumption DEF IInv, TypeOK, Configs
  <2>1. CASE UNCHANGED files
    <3>1. Kept' = Kept
      BY <2>1 DEF files, Kept
    <3> QED BY <3>1
  <2>2. ASSUME NEW n \in 1 .. MaxRecordSize, NEW whole \in BOOLEAN,
               Reach(n, whole), backup' = backup, run' = run, pc = "append"
        PROVE  Store!Next
    <3> DEFINE r == [id |-> written + 1, run |-> run, whole |-> whole]
               p == config.path
    <3>0. n \in Nat
      BY RecordAssumption
    <3>1. Kept' = [Kept EXCEPT ![p] = Append(@, r)] /\ written + 1 \in 1 .. MaxRecords
      BY <2>0, <2>2, <3>0, ReachKeeps
    <3>2. r \in Record /\ r.id = written + 1
      BY <2>0, <2>2, <3>1 DEF Record, IInv
    <3> HIDE DEF r, p
    <3>3. \A i \in DOMAIN Kept[p] : Kept[p][i].id < r.id
      <4> SUFFICES ASSUME NEW i \in DOMAIN Kept[p] PROVE Kept[p][i].id < r.id
        OBVIOUS
      <4>1. Kept[p] \in Seq(Record)
        BY <2>0, KeptType DEF p
      <4>2. PICK k : k = Kept[p]
        OBVIOUS
      <4>3. i \in 1 .. Len(Kept[p]) /\ Kept[p][i].id \in Nat
        <5>1. k \in Seq(Record) /\ i \in DOMAIN k
          BY <4>1, <4>2
        <5>2. i \in 1 .. Len(k)
          BY <5>1, LenProperties
        <5>3. k[i] \in Record
          BY <5>1, <5>2, ElementOfSeq
        <5>4. k[i].id \in Nat
          BY <5>3, BoundAssumption DEF Record
        <5> QED BY <4>2, <5>2, <5>4
      <4>4. Kept[p][i].id =< written
        BY <2>0, <4>3 DEF OrderInv, p
      <4> QED BY <2>0, <3>2, <4>3, <4>4
    <3>4. Store!Write(p, r)
      BY <3>1, <3>3 DEF Store!Write, Store!Newer
    <3> QED BY <2>0, <3>2, <3>4 DEF Store!Next, p
  <2>3. CASE Rotate
    <3> DEFINE p == config.path
               b == Len(backup[p].records)
               f == file[p].records
    <3>1. /\ Kept' = [Kept EXCEPT ![p] = f]
          /\ \A i \in 1 .. Len(f) : f[i] = Kept[p][b + i]
      BY <2>0, <2>3, RotateKeeps
    <3>2. /\ f \in Seq(Record) /\ Kept[p] \in Seq(Record) /\ b \in Nat
          /\ Len(f) \in Nat /\ Len(Kept[p]) = b + Len(f)
      <4>1. \A s \in Seq(Record) : Len(s) \in Nat
        BY LenProperties
      <4> QED BY <2>0, <4>1, KeptType
    <3> HIDE DEF p, b, f
    <3>3. f = SubSeq(Kept[p], b + 1, Len(Kept[p]))
      <4>1. PICK k : k = Kept[p]
        OBVIOUS
      <4>2. \A i \in b + 1 .. Len(k) : k[i] \in Record
        <5>1. \A i \in 1 .. Len(k) : k[i] \in Record
          BY <3>2, <4>1, ElementOfSeq
        <5> QED BY <3>2, <4>1, <5>1
      <4>3. PICK g : g = SubSeq(k, b + 1, Len(k))
        OBVIOUS
      <4>4. /\ g \in Seq(Record)
            /\ Len(g) = IF b + 1 <= Len(k) THEN Len(k) - (b + 1) + 1 ELSE 0
            /\ \A i \in 1 .. Len(k) - (b + 1) + 1 : g[i] = k[(b + 1) + i - 1]
        <5>1. b + 1 \in Int /\ Len(k) \in Int
          BY <3>2, <4>1
        <5> QED BY <4>2, <4>3, <5>1, SubSeqProperties
      <4>5. Len(g) = Len(f)
        BY <3>2, <4>1, <4>4
      <4>6. \A i \in 1 .. Len(f) : f[i] = g[i]
        <5> TAKE i \in 1 .. Len(f)
        <5>1. /\ i \in 1 .. Len(k) - (b + 1) + 1 /\ (b + 1) + i - 1 = b + i
          BY <3>2, <4>1
        <5> QED BY <3>1, <4>1, <4>4, <5>1
      <4>7. f = g
        BY <3>2, <4>4, <4>5, <4>6, SeqEqual
      <4> QED BY <4>1, <4>3, <4>7
    <3>4. Store!LoseOldest(p)
      <4>1. b \in 0 .. Len(Kept[p])
        BY <3>2
      <4> QED BY <3>1, <3>3, <4>1 DEF Store!LoseOldest
    <3> QED BY <2>0, <3>4 DEF Store!Next, p
  <2>4. CASE Start \/ Reload \/ Log \/ NoRotation \/ RotationFails \/ Kill
    <3>1. UNCHANGED files
      BY <2>4 DEF Start, Reload, Log, NoRotation, RotationFails, Kill
    <3> QED BY <2>1, <3>1
  <2>5. CASE Appended
    BY <2>2, <2>5 DEF Appended
  <2>6. CASE AppendFails
    <3>1. CASE UNCHANGED <<file, written, hist>>
      BY <2>1, <2>6, <3>1 DEF AppendFails, files
    <3>2. CASE \E n \in 1 .. MaxRecordSize, whole \in BOOLEAN : Reach(n, whole)
      BY <2>2, <2>6, <3>2 DEF AppendFails
    <3> QED BY <2>6, <3>1, <3>2 DEF AppendFails
  <2>7. CASE UNCHANGED vars
    <3>1. UNCHANGED files
      BY <2>7 DEF vars, files
    <3> QED BY <2>1, <3>1
  <2> QED BY <2>3, <2>4, <2>5, <2>6, <2>7 DEF Next
<1> QED BY <1>1, <1>2, Inductive, PTL DEF Spec, StoreImplemented, Store!Spec

-----------------------------------------------------------------------------
(* What the abstract log promises its reader, from LogStore alone: the     *)
(* records found are in the order of their ids, each at most once.         *)

InOrder(s) == \A i, j \in 1 .. Len(s) : i < j => s[i].id < s[j].id

ReadableInv == Kept \in [Paths -> Seq(Record)] /\ \A p \in Paths : InOrder(Kept[p])

LEMMA IdsAreInt ==
  ASSUME NEW s \in Seq(Record)
  PROVE  Len(s) \in Nat /\ \A i \in 1 .. Len(s) : s[i] \in Record /\ s[i].id \in Int
<1>1. Len(s) \in Nat /\ \A i \in 1 .. Len(s) : s[i] \in Record
  BY LenProperties, ElementOfSeq
<1>2. \A r \in Record : r.id \in Int
  BY BoundAssumption DEF Record
<1> QED BY <1>1, <1>2

LEMMA AppendKeepsOrder ==
  ASSUME NEW s \in Seq(Record), NEW r \in Record, InOrder(s), Store!Newer(r, s)
  PROVE  Append(s, r) \in Seq(Record) /\ InOrder(Append(s, r))
<1>1. PICK t : t = Append(s, r)
  OBVIOUS
<1>2. /\ t \in Seq(Record) /\ Len(t) = Len(s) + 1
      /\ \A i \in 1 .. Len(s) : t[i] = s[i]
      /\ t[Len(s) + 1] = r
  BY <1>1, AppendProperties
<1>3. Len(s) \in Nat /\ DOMAIN s = 1 .. Len(s)
  BY LenProperties
<1>4. InOrder(t)
  <2> SUFFICES ASSUME NEW i \in 1 .. Len(t), NEW j \in 1 .. Len(t), i < j
               PROVE  t[i].id < t[j].id
    BY DEF InOrder
  <2>1. i \in 1 .. Len(s) /\ t[i] = s[i]
    BY <1>2, <1>3
  <2>2. CASE j \in 1 .. Len(s)
    BY <1>2, <2>1, <2>2 DEF InOrder
  <2>3. CASE j = Len(s) + 1
    <3>1. s[i].id < r.id
      BY <1>3, <2>1 DEF Store!Newer
    <3> QED BY <1>2, <2>1, <2>3, <3>1
  <2> QED BY <1>2, <1>3, <2>2, <2>3
<1> QED BY <1>1, <1>2, <1>4

LEMMA LosingKeepsOrder ==
  ASSUME NEW s \in Seq(Record), InOrder(s), NEW n \in 0 .. Len(s)
  PROVE  SubSeq(s, n + 1, Len(s)) \in Seq(Record) /\ InOrder(SubSeq(s, n + 1, Len(s)))
<1>0. Len(s) \in Nat /\ \A i \in 1 .. Len(s) : s[i] \in Record
  BY IdsAreInt
<1>1. PICK t : t = SubSeq(s, n + 1, Len(s))
  OBVIOUS
<1>2. /\ t \in Seq(Record)
      /\ Len(t) = IF n + 1 <= Len(s) THEN Len(s) - (n + 1) + 1 ELSE 0
      /\ \A i \in 1 .. Len(s) - (n + 1) + 1 : t[i] = s[(n + 1) + i - 1]
  <2>1. \A i \in n + 1 .. Len(s) : s[i] \in Record
    BY <1>0
  <2>2. n + 1 \in Int /\ Len(s) \in Int
    BY <1>0
  <2> QED BY <1>1, <2>1, <2>2, SubSeqProperties
<1>3. Len(t) = Len(s) - n /\ \A i \in 1 .. Len(t) : t[i] = s[n + i]
  <2>1. Len(t) = Len(s) - n
    BY <1>0, <1>2
  <2>2. \A i \in 1 .. Len(t) :
           i \in 1 .. Len(s) - (n + 1) + 1 /\ (n + 1) + i - 1 = n + i
    BY <1>0, <2>1
  <2> QED BY <1>2, <2>1, <2>2
<1>4. InOrder(t)
  <2> SUFFICES ASSUME NEW i \in 1 .. Len(t), NEW j \in 1 .. Len(t), i < j
               PROVE  t[i].id < t[j].id
    BY DEF InOrder
  <2>1. n + i \in 1 .. Len(s) /\ n + j \in 1 .. Len(s) /\ n + i < n + j
    BY <1>0, <1>3
  <2>2. s[n + i].id < s[n + j].id
    BY <2>1 DEF InOrder
  <2> QED BY <1>3, <2>2
<1> QED BY <1>1, <1>2, <1>4

LEMMA StoreIsReadable == Store!Spec => []ReadableInv
<1>1. Store!Init => ReadableInv
  <2>1. <<>> \in Seq(Record) /\ InOrder(<<>>)
    BY EmptySeq DEF InOrder
  <2> QED BY <2>1 DEF Store!Init, ReadableInv
<1>2. ReadableInv /\ [Store!Next]_Kept => ReadableInv'
  <2> SUFFICES ASSUME ReadableInv, [Store!Next]_Kept PROVE ReadableInv'
    OBVIOUS
  <2>1. ASSUME NEW p \in Paths, NEW s \in Seq(Record), InOrder(s),
               Kept' = [Kept EXCEPT ![p] = s]
        PROVE  ReadableInv'
    BY <2>1 DEF ReadableInv
  <2>2. ASSUME NEW p \in Paths, NEW r \in Record, Store!Write(p, r)
        PROVE  ReadableInv'
    <3>1. Kept[p] \in Seq(Record) /\ InOrder(Kept[p])
      BY DEF ReadableInv
    <3> QED BY <2>1, <2>2, <3>1, AppendKeepsOrder DEF Store!Write
  <2>3. ASSUME NEW p \in Paths, Store!LoseOldest(p)
        PROVE  ReadableInv'
    <3>1. Kept[p] \in Seq(Record) /\ InOrder(Kept[p])
      BY DEF ReadableInv
    <3> QED BY <2>1, <2>3, <3>1, LosingKeepsOrder DEF Store!LoseOldest
  <2>4. CASE UNCHANGED Kept
    BY <2>4 DEF ReadableInv
  <2> QED BY <2>2, <2>3, <2>4 DEF Store!Next
<1> QED BY <1>1, <1>2, PTL DEF Store!Spec

\* Whoever reads the backup of a path and then its current file reads records in
\* the order in which the daemon wrote them, none of them twice, across
\* rotations, failures, reloads that change the path, and restarts.
THEOREM RecordsInOrder ==
    Spec => [](\A p \in Paths : \A i, j \in 1 .. Len(Kept[p]) :
                  i < j => Kept[p][i].id < Kept[p][j].id)
<1>1. ReadableInv => \A p \in Paths : \A i, j \in 1 .. Len(Kept[p]) :
                        i < j => Kept[p][i].id < Kept[p][j].id
  BY DEF ReadableInv, InOrder
<1> QED BY <1>1, StoreRefined, StoreIsReadable, PTL DEF StoreImplemented

=============================================================================
