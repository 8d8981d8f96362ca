------------------------------- MODULE Recorder -------------------------------
(***************************************************************************)
(* The recorder's processing thread (RecorderImpl): every probe report it  *)
(* receives is entered in an SQLite table and appended to the record file  *)
(* in Probe Message Stream Format, a four-byte length and the message.     *)
(* A row of the table tells where in the file its message is.  A reader,   *)
(* otestpoint-filter, goes from the rows to the messages, at any time.     *)
(***************************************************************************)
EXTENDS Integers, Sequences, FiniteSets

CONSTANTS
    Key,         \* the table's primary key: time, uuid, probe, tag and index
    MaxSize,     \* bound on the size of a message
    MaxReports,  \* bound on the reports received between two starts
    Contended    \* an INSERT can fail for another reason than its key and the
                 \* reader (a full disk)

ASSUME MaxSizeAssumption == MaxSize \in Nat \ {0}
ASSUME MaxReportsAssumption == MaxReports \in Nat
ASSUME ContendedAssumption == Contended \in BOOLEAN

Size == 1..MaxSize
LengthPrefix == 4

VARIABLES
    phase,     \* "down", "opening" (the file is open, the table not yet made),
               \* "receiving", "inserting" or "writing" a report
    file,      \* the whole messages in the file, with their place
    length,    \* bytes in the file
    good,      \* no write to the stream has failed
    rows,      \* the table
    current,   \* the row of the report being handled
    received,  \* the reports received since the recorder started
    scan       \* the rows the reader has selected and not reached yet

recorderVars == <<phase, file, length, good, rows, current, received>>
vars == <<recorderVars, scan>>

Row == [key : Key, offset : Nat, size : Size]

RowsOf(messages) == {messages[i] : i \in DOMAIN messages}

Init ==
    /\ phase = "down"
    /\ file = <<>>
    /\ length = 0
    /\ good = TRUE
    /\ rows = {}
    /\ current \in [key : Key, offset : {0}, size : {1}]
    /\ received = {}
    /\ scan = {}

-----------------------------------------------------------------------------
(* The constructor.                                                        *)

\* Mutant: the record file is opened for appending.
OpenFileAppending ==
    /\ phase = "down"
    /\ phase' = "opening"
    /\ good' = TRUE
    /\ received' = {}
    /\ UNCHANGED <<file, length, rows, current, scan>>

\* The record file is opened for writing, which empties it.
OpenFile ==
    /\ phase = "down"
    /\ phase' = "opening"
    /\ file' = <<>> /\ length' = 0 /\ good' = TRUE
    /\ received' = {}
    /\ UNCHANGED <<rows, current, scan>>

\* Mutant: the table changes under the reader.
NoLock == TRUE

\* A SELECT that has not been stepped to its end locks the table.
Unlocked == scan = {}

\* The database is opened and the table made anew; the thread starts.
CreateTable ==
    /\ phase = "opening"
    /\ Unlocked
    /\ phase' = "receiving"
    /\ rows' = {}
    /\ UNCHANGED <<file, length, good, current, received, scan>>

\* A database error ends the constructor, and the program, with an exception, before
\* or after the old table is dropped.
CreateTableFails ==
    /\ phase = "opening"
    /\ phase' = "down"
    /\ UNCHANGED rows \/ (Unlocked /\ rows' = {})
    /\ UNCHANGED <<file, length, good, current, received, scan>>

-----------------------------------------------------------------------------
(* The processing thread.                                                  *)

\* Mutant: the row points at the length prefix, where tellp() is.
RawOffset == IF good THEN length ELSE -1

\* recorderFile_.tellp()+4L: tellp() is -1 once a write has failed.
Offset == IF good THEN length + LengthPrefix ELSE LengthPrefix - 1

\* A well-formed report arrives.
Receive(k, s) ==
    /\ phase = "receiving"
    /\ Cardinality(received) < MaxReports
    /\ phase' = "inserting"
    /\ current' = [key |-> k, offset |-> Offset, size |-> s]
    /\ received' = received \cup {current'}
    /\ UNCHANGED <<file, length, good, rows, scan>>

\* sqlite3_exec of the INSERT succeeds: no row has the key, and no reader is at work.
Insert ==
    /\ phase = "inserting"
    /\ Unlocked
    /\ \A r \in rows : r.key # current.key
    /\ rows' = rows \cup {current}
    /\ phase' = "writing"
    /\ UNCHANGED <<file, length, good, current, received, scan>>

\* Mutant: a failed INSERT is logged and the message written all the same.
WriteAnyway == "writing"

\* Where the handler goes when the INSERT has failed.
AfterFailedInsert == "receiving"

\* The INSERT fails, for its key, for the reader (there is no busy timeout) or for
\* another database error: the report is dropped.
InsertFails ==
    /\ phase = "inserting"
    /\ Contended \/ ~Unlocked \/ \E r \in rows : r.key = current.key
    /\ phase' = AfterFailedInsert
    /\ UNCHANGED <<file, length, good, rows, current, received, scan>>

\* The length and the message are written and flushed.  A stream that has failed
\* ignores both.
Write ==
    /\ phase = "writing"
    /\ IF good
       THEN /\ file' = Append(file, [current EXCEPT
                                        !.offset = length + LengthPrefix])
            /\ length' = length + LengthPrefix + current.size
       ELSE UNCHANGED <<file, length>>
    /\ phase' = "receiving"
    /\ UNCHANGED <<good, rows, current, received, scan>>

\* A write fails (the disk is full): part of the record may be in the file.
WriteFails ==
    /\ phase = "writing"
    /\ good
    /\ \E n \in 0..(LengthPrefix + current.size - 1) : length' = length + n
    /\ good' = FALSE
    /\ phase' = "receiving"
    /\ UNCHANGED <<file, rows, current, received, scan>>

\* END, a signal or a crash ends the recorder.  Nothing is undone, and a later
\* start with the same file name starts over.
Stop ==
    /\ phase # "down"
    /\ phase' = "down"
    /\ UNCHANGED <<file, length, good, rows, current, received, scan>>

-----------------------------------------------------------------------------
(* otestpoint-filter.                                                      *)

\* The rows of some probes are selected.
Select ==
    /\ scan = {}
    /\ scan' \in SUBSET rows
    /\ UNCHANGED recorderVars

\* The statement steps past one of them, whose message is then read and put out: that
\* of the last row when the table is unlocked again.
ReadMessage ==
    /\ \E r \in scan : scan' = scan \ {r}
    /\ UNCHANGED recorderVars

\* The reader is interrupted.
Interrupt ==
    /\ scan # {}
    /\ scan' = {}
    /\ UNCHANGED recorderVars

Next ==
    \/ OpenFile
    \/ CreateTable
    \/ CreateTableFails
    \/ \E k \in Key, s \in Size : Receive(k, s)
    \/ Insert
    \/ InsertFails
    \/ Write
    \/ WriteFails
    \/ Stop
    \/ Select \/ ReadMessage \/ Interrupt

Spec == Init /\ [][Next]_vars

-----------------------------------------------------------------------------
TypeOK ==
    /\ phase \in {"down", "opening", "receiving", "inserting", "writing"}
    /\ file \in Seq(Row)
    /\ length \in Nat
    /\ good \in BOOLEAN
    /\ rows \subseteq Row
    /\ current \in Row
    /\ received \subseteq Row
    /\ scan \subseteq Row

\* While the stream is good, the table is the index of the file: a row for every
\* message, and a message for every row but the one being written.
IndexIsExact ==
    good /\ phase \in {"receiving", "inserting", "writing"} =>
        rows = RowsOf(file) \cup (IF phase = "writing" THEN {current} ELSE {})

\* The file can be read from its start without the table: each message starts
\* where the one before it ends, and only a torn record can follow the last.
StreamIsWellFormed ==
    /\ \A i \in DOMAIN file :
         file[i].offset =
             LengthPrefix + (IF i = 1 THEN 0
                             ELSE file[i - 1].offset + file[i - 1].size)
    /\ LET end == IF file = <<>> THEN 0
                  ELSE file[Len(file)].offset + file[Len(file)].size
       IN  length >= end /\ (good => length = end)

\* No row ever leads a reader to bytes of another message: it leads to its own,
\* or past the end of the file.  That holds for the table and for what a reader has
\* selected from it before, however the recorder ends and starts again meanwhile, as
\* long as no write has failed since it opened the file.
RowsLeadToTheirMessage ==
    good =>
        \A r \in rows \cup scan :
            r \in RowsOf(file) \/ r.offset + r.size > length
=============================================================================
