---------------------------- MODULE Recorder_proofs ----------------------------
(***************************************************************************)
(* Proofs about Recorder, for every set of keys, every size of message and *)
(* every number of reports: the table is the exact index of the file, the  *)
(* file can be read without it, and no row leads a reader astray.          *)
(***************************************************************************)
EXTENDS Recorder, TLAPS

-----------------------------------------------------------------------------
(* The type invariant.                                                     *)

\* The type invariant holds initially.
LEMMA InitType == Init => TypeOK
BY MaxSizeAssumption DEF Init, TypeOK, Row, Size

\* A row can be moved to another place.
LEMMA RecordType ==
    ASSUME TypeOK
    PROVE  /\ current.offset \in Nat /\ current.size \in Nat \ {0}
           /\ length \in Nat => [current EXCEPT !.offset = length + LengthPrefix] \in Row
BY MaxSizeAssumption DEF TypeOK, Row, Size, LengthPrefix

\* Every step keeps the types.
LEMMA NextType == TypeOK /\ [Next]_vars => TypeOK'
<1> SUFFICES ASSUME TypeOK, [Next]_vars PROVE TypeOK'
  OBVIOUS
<1>. USE DEF TypeOK
<1>1. CASE OpenFile
  BY <1>1 DEF OpenFile
<1>2. CASE CreateTable \/ CreateTableFails \/ Stop
  BY <1>2 DEF CreateTable, CreateTableFails, Stop
<1>3. ASSUME NEW k \in Key, NEW s \in Size, Receive(k, s) PROVE TypeOK'
  <2>1. Offset \in Nat
    BY DEF Offset, LengthPrefix
  <2>. QED
    BY <1>3, <2>1 DEF Receive, Row
<1>4. CASE Insert \/ InsertFails
  BY <1>4 DEF Insert, InsertFails, AfterFailedInsert
<1>5. CASE Write
  <2>. DEFINE record == [current EXCEPT !.offset = length + LengthPrefix]
  <2>1. record \in Row /\ current.size \in Nat
    BY RecordType DEF Row
  <2>. HIDE DEF record
  <2>2. good => file' = Append(file, record) /\ length' = length + LengthPrefix + current.size
    BY <1>5 DEF Write, record
  <2>3. ~good => UNCHANGED <<file, length>>
    BY <1>5 DEF Write
  <2>4. phase' = "receiving" /\ UNCHANGED <<good, rows, current, received, scan>>
    BY <1>5 DEF Write
  <2>5. file' \in Seq(Row) /\ length' \in Nat
    <3>. USE DEF LengthPrefix
    <3>1. CASE good
      BY <2>1, <2>2, <3>1
    <3>2. CASE ~good
      BY <2>3, <3>2
    <3>. QED
      BY <3>1, <3>2
  <2>. QED
    BY <2>4, <2>5
<1>6. CASE WriteFails
  <2>1. current.size \in Nat
    BY RecordType
  <2>2. length' \in Nat
    BY <1>6, <2>1 DEF WriteFails, LengthPrefix
  <2>. QED
    BY <1>6, <2>2 DEF WriteFails
<1>7. CASE Select \/ ReadMessage \/ Interrupt
  BY <1>7 DEF Select, ReadMessage, Interrupt, recorderVars
<1>8. CASE UNCHANGED vars
  BY <1>8 DEF vars, recorderVars
<1>. QED
  BY <1>1, <1>2, <1>3, <1>4, <1>5, <1>6, <1>7, <1>8 DEF Next

\* The variables keep their types, whatever the keys and the bounds are.
THEOREM TypeCorrect == Spec => []TypeOK
BY InitType, NextType, PTL DEF Spec

-----------------------------------------------------------------------------
(* The inductive invariant.                                                *)

\* The report being handled is going to be written where its row says.
CurrentInv ==
    good /\ phase \in {"inserting", "writing"} =>
        current.offset = length + LengthPrefix

\* The table is made for an empty file.
OpeningInv == phase = "opening" => file = <<>> /\ length = 0

\* The table does not change under a reader.
ScanInv == scan \subseteq rows

IInv ==
    /\ TypeOK
    /\ CurrentInv
    /\ OpeningInv
    /\ ScanInv
    /\ IndexIsExact
    /\ StreamIsWellFormed
    /\ RowsLeadToTheirMessage

\* The messages of a file are those it had and the one appended.
LEMMA RowsOfAppend ==
    ASSUME NEW messages \in Seq(Row), NEW r \in Row
    PROVE  RowsOf(Append(messages, r)) = RowsOf(messages) \cup {r}
<1>1. /\ DOMAIN Append(messages, r) = DOMAIN messages \cup {Len(messages) + 1}
      /\ Append(messages, r)[Len(messages) + 1] = r
      /\ \A i \in DOMAIN messages : Append(messages, r)[i] = messages[i]
  OBVIOUS
<1>. QED
  BY <1>1 DEF RowsOf

\* The invariant holds initially.
LEMMA InitInv == Init => IInv
<1> SUFFICES ASSUME Init PROVE IInv
  OBVIOUS
<1>1. rows = {} /\ scan = {} /\ phase = "down" /\ file = <<>> /\ length = 0
  BY DEF Init
<1>. QED
  BY <1>1, InitType
     DEF IInv, CurrentInv, OpeningInv, ScanInv, IndexIsExact, StreamIsWellFormed,
         RowsLeadToTheirMessage

\* A record written whole is entered in the table and ends the file.
LEMMA WriteInv ==
    ASSUME IInv, Write, good
    PROVE  CurrentInv' /\ IndexIsExact' /\ StreamIsWellFormed' /\ RowsLeadToTheirMessage'
<1>. DEFINE record == [current EXCEPT !.offset = length + LengthPrefix]
<1>1. /\ phase = "writing" /\ phase' = "receiving"
      /\ file' = Append(file, record)
      /\ length' = length + LengthPrefix + current.size
      /\ UNCHANGED <<good, rows, scan>>
  BY DEF Write
<1>2. record = current /\ current \in Row /\ current.offset = length + LengthPrefix
  BY <1>1 DEF IInv, CurrentInv, TypeOK, Row
<1>3. file \in Seq(Row) /\ length \in Nat
  BY DEF IInv, TypeOK
<1>4. RowsOf(file') = RowsOf(file) \cup {current}
  BY <1>1, <1>2, <1>3, RowsOfAppend
<1>5. rows = RowsOf(file) \cup {current}
  BY <1>1 DEF IInv, IndexIsExact
<1>6. StreamIsWellFormed'
  <2>1. /\ Len(file') = Len(file) + 1
        /\ file'[Len(file')] = current
        /\ \A i \in DOMAIN file : file'[i] = file[i]
        /\ file' # <<>>
        /\ DOMAIN file' = 1..Len(file')
    BY <1>1, <1>2, <1>3
  <2>2. length = IF file = <<>> THEN 0
                 ELSE file[Len(file)].offset + file[Len(file)].size
    BY DEF IInv, StreamIsWellFormed
  <2>3. ASSUME NEW i \in DOMAIN file'
        PROVE  file'[i].offset =
                 LengthPrefix + (IF i = 1 THEN 0
                                 ELSE file'[i - 1].offset + file'[i - 1].size)
    <3>1. CASE i \in DOMAIN file
      <4>1. i = 1 \/ i - 1 \in DOMAIN file
        BY <1>3, <3>1
      <4>. QED
        BY <2>1, <3>1, <4>1 DEF IInv, StreamIsWellFormed
    <3>2. CASE i = Len(file) + 1
      <4>1. file = <<>> <=> i = 1
        BY <1>3, <3>2
      <4>2. file # <<>> => i - 1 = Len(file) /\ i - 1 \in DOMAIN file
        BY <1>3, <3>2
      <4>. QED
        BY <1>2, <1>3, <2>1, <2>2, <3>2, <4>1, <4>2 DEF LengthPrefix
    <3>. QED
      BY <1>3, <2>1, <3>1, <3>2
  <2>4. length' = file'[Len(file')].offset + file'[Len(file')].size
    BY <1>1, <1>2, <2>1
  <2>5. length' \in Nat
    BY <1>1, <1>2, <1>3, RecordType DEF IInv, LengthPrefix
  <2>. QED
    BY <2>1, <2>3, <2>4, <2>5 DEF StreamIsWellFormed
<1>7. RowsLeadToTheirMessage'
  BY <1>1, <1>4, <1>5 DEF IInv, ScanInv, RowsLeadToTheirMessage
<1>. QED
  BY <1>1, <1>4, <1>5, <1>6, <1>7 DEF CurrentInv, IndexIsExact

\* Every step keeps the invariant.
LEMMA NextInv == IInv /\ [Next]_vars => IInv'
<1> SUFFICES ASSUME IInv, [Next]_vars
             PROVE  /\ CurrentInv' /\ OpeningInv' /\ ScanInv' /\ IndexIsExact'
                    /\ StreamIsWellFormed' /\ RowsLeadToTheirMessage'
  BY NextType DEF IInv
<1>0. TypeOK /\ TypeOK'
  BY NextType DEF IInv
<1>. USE DEF IInv, CurrentInv, OpeningInv, ScanInv, IndexIsExact, StreamIsWellFormed,
             RowsLeadToTheirMessage
<1>1. CASE OpenFile
  <2>1. /\ phase' = "opening" /\ file' = <<>> /\ length' = 0
        /\ UNCHANGED <<rows, scan>>
    BY <1>1 DEF OpenFile
  <2>2. \A r \in rows \cup scan : r.offset + r.size > 0
    BY <1>0, MaxSizeAssumption DEF TypeOK, Row, Size
  <2>. QED
    BY <2>1, <2>2
<1>2. CASE CreateTable \/ CreateTableFails \/ Stop
  <2>1. /\ UNCHANGED <<file, length, good, current, scan>>
        /\ phase' \in {"receiving", "down"}
    BY <1>2 DEF CreateTable, CreateTableFails, Stop
  <2>2. rows' = rows \/ (rows' = {} /\ scan = {})
    BY <1>2 DEF CreateTable, CreateTableFails, Stop, Unlocked
  <2>3. phase' = "receiving" => rows' = {} /\ phase = "opening"
    BY <1>2 DEF CreateTable, CreateTableFails, Stop
  <2>4. phase = "opening" => RowsOf(file) = {}
    BY DEF RowsOf
  <2>. QED
    BY <2>1, <2>2, <2>3, <2>4
<1>3. ASSUME NEW k \in Key, NEW s \in Size, Receive(k, s)
      PROVE  /\ CurrentInv' /\ OpeningInv' /\ ScanInv' /\ IndexIsExact'
             /\ StreamIsWellFormed' /\ RowsLeadToTheirMessage'
  BY <1>3 DEF Receive, Offset
<1>4. CASE Insert
  BY <1>0, <1>4, MaxSizeAssumption
     DEF Insert, Unlocked, TypeOK, Row, Size, LengthPrefix
<1>5. CASE InsertFails
  BY <1>5 DEF InsertFails, AfterFailedInsert
<1>6. CASE Write /\ good
  BY <1>6, WriteInv DEF Write
<1>7. CASE Write /\ ~good
  BY <1>7 DEF Write
<1>8. CASE WriteFails
  BY <1>0, <1>8 DEF WriteFails, TypeOK, Row, Size, LengthPrefix
<1>9. CASE Select \/ ReadMessage \/ Interrupt
  BY <1>9 DEF Select, ReadMessage, Interrupt, recorderVars
<1>10. CASE UNCHANGED vars
  BY <1>10 DEF vars, recorderVars
<1>. QED
  BY <1>1, <1>2, <1>3, <1>4, <1>5, <1>6, <1>7, <1>8, <1>9, <1>10 DEF Next

-----------------------------------------------------------------------------
(* What the recorder promises.                                             *)

\* While no write has failed, the table has a row for every message in the file and
\* a message for every row but the one being written (the INSERT comes before the
\* write, and a report whose INSERT fails is not written).
THEOREM IndexExact == Spec => []IndexIsExact
<1>1. IInv => IndexIsExact
  BY DEF IInv
<1>. QED
  BY <1>1, InitInv, NextInv, PTL DEF Spec

\* The length prefixes lead from each message to the next, also in a file whose last
\* record was torn by a full disk.
THEOREM WellFormed == Spec => []StreamIsWellFormed
<1>1. IInv => StreamIsWellFormed
  BY DEF IInv
<1>. QED
  BY <1>1, InitInv, NextInv, PTL DEF Spec

\* A row, even one that otestpoint-filter selected from the table of an earlier
\* recorder, leads to its own message or past the end of the file.
THEOREM RowsLead == Spec => []RowsLeadToTheirMessage
<1>1. IInv => RowsLeadToTheirMessage
  BY DEF IInv
<1>. QED
  BY <1>1, InitInv, NextInv, PTL DEF Spec
================================================================================
