----------------------------- MODULE AccessLog -----------------------------
(***************************************************************************)
(* The gateway's access log: the gateway appends to it, log maintenance    *)
(* (internal/logmaintenance) copies and truncates it when it has grown too *)
(* large, and the account status observer reads what was appended          *)
(* (accessLogReader).  No two of them share a lock.  A line is its number, *)
(* in the order written; the file is measured in lines.                    *)
(***************************************************************************)
EXTENDS Integers, FiniteSets, Sequences, SequencesExt

CONSTANTS MaxLines,    \* bound on the lines written
          MaxSize,     \* maxFileBytes
          Backups,     \* backups
          PrefixSize,  \* 256 bytes
          MaxLogFaults \* bound on the crashes of log maintenance

(***************************************************************************)
(* RotateFile refuses other values.                                        *)
(***************************************************************************)
ASSUME AccessLogAssumption ==
    /\ MaxLines \in Nat /\ MaxSize \in Nat \ {0} /\ Backups \in Nat \ {0}
    /\ PrefixSize \in Nat \ {0} /\ MaxLogFaults \in Nat

VARIABLES log,       \* the lines of access.tsv
          written,   \* lines written so far
          backup,    \* backup[i]: the lines of access.tsv.i, empty if there is none
          rotation,  \* RotateFile: what it copied and what it has left to do
          reader,    \* accessLogReader; torn: the file was cut while it was being read
          reading,   \* recent: how far a reading is, and the lines it has to see (observer)
          cutoff,    \* lines up to this one are older than errorWindow
          lfaults    \* crashes of log maintenance so far

readerVars == <<reader, reading>>
logVars == <<log, written, backup, rotation, readerVars, cutoff, lfaults>>

NoRotation == [phase |-> "idle", copy |-> <<>>, shift |-> 0]
NoReading == [phase |-> "idle", due |-> 0]

(***************************************************************************)
(* reset: what was read is forgotten, the moment of the last reading       *)
(* (lastNow, here its window) is not.                                      *)
(***************************************************************************)
Reset(cut) == [offset |-> 0, prefix |-> <<>>, rows |-> <<>>, cut |-> cut, torn |-> FALSE]

----------------------------------------------------------------------------
(***************************************************************************)
(* A request is logged: one write at the end of the file (O_APPEND).       *)
(***************************************************************************)
Append1 ==
    /\ written < MaxLines
    /\ written' = written + 1
    /\ log' = Append(log, written + 1)
    /\ UNCHANGED <<backup, rotation, readerVars, cutoff, lfaults>>

WindowMoves ==
    /\ cutoff < written
    /\ cutoff' = cutoff + 1
    /\ UNCHANGED <<log, written, backup, rotation, readerVars, lfaults>>

----------------------------------------------------------------------------
(* RotateFile. *)

(***************************************************************************)
(* MUTANT: truncates as soon as the lines are copied.                      *)
(***************************************************************************)
CopyLogTruncating ==
    /\ rotation.phase = "idle"
    /\ Len(log) > MaxSize
    /\ rotation' = [phase |-> "remove", copy |-> log, shift |-> Backups - 1]
    /\ log' = <<>>
    /\ UNCHANGED <<written, backup, readerVars, cutoff, lfaults>>

CopyLog ==
    /\ rotation.phase = "idle"
    /\ Len(log) > MaxSize
    /\ rotation' = [phase |-> "remove", copy |-> log, shift |-> Backups - 1]
    /\ UNCHANGED <<log, written, backup, readerVars, cutoff, lfaults>>

RemoveOldest ==
    /\ rotation.phase = "remove"
    /\ backup' = [backup EXCEPT ![Backups] = <<>>]
    /\ rotation' = [rotation EXCEPT !.phase = "shift"]
    /\ UNCHANGED <<log, written, readerVars, cutoff, lfaults>>

(***************************************************************************)
(* rename(access.tsv.i, access.tsv.i+1), from the oldest down.             *)
(***************************************************************************)
ShiftBackup ==
    /\ rotation.phase = "shift" /\ rotation.shift > 0
    /\ LET i == rotation.shift
       IN  backup' = [backup EXCEPT ![i + 1] = IF backup[i] # <<>> THEN backup[i] ELSE @, ![i] = <<>>]
    /\ rotation' = [rotation EXCEPT !.shift = @ - 1]
    /\ UNCHANGED <<log, written, readerVars, cutoff, lfaults>>

PublishBackup ==
    /\ rotation.phase = "shift" /\ rotation.shift = 0
    /\ backup' = [backup EXCEPT ![1] = rotation.copy]
    /\ rotation' = [rotation EXCEPT !.phase = "truncate"]
    /\ UNCHANGED <<log, written, readerVars, cutoff, lfaults>>

TruncateLog ==
    /\ rotation.phase = "truncate"
    /\ log' = <<>>
    /\ rotation' = NoRotation
    /\ reader' = [reader EXCEPT !.torn = @ \/ (reading.phase \in {"read", "ended"} /\ reader.offset > 0)]
    /\ UNCHANGED <<written, backup, reading, cutoff, lfaults>>

(***************************************************************************)
(* A step fails, or the process dies or loses its lease: the pending copy  *)
(* goes, what was done stays, and the next round starts over.              *)
(***************************************************************************)
RotationFails ==
    /\ rotation.phase # "idle"
    /\ lfaults < MaxLogFaults
    /\ lfaults' = lfaults + 1
    /\ rotation' = NoRotation
    /\ UNCHANGED <<log, written, backup, readerVars, cutoff>>

----------------------------------------------------------------------------
(* accessLogReader.  Its mutex keeps two readings apart, but each reads the *)
(* file with calls of their own, between which the others go on.           *)

(***************************************************************************)
(* ReadAt from the start of the file: what is not there stays zero.        *)
(***************************************************************************)
FirstLines(n) == [i \in 1..n |-> IF i <= Len(log) THEN log[i] ELSE 0]

(***************************************************************************)
(* recent(now): now was taken before the lock, so it may be earlier than   *)
(* the one of the last reading, whose rows are then dropped.  The file is  *)
(* opened, and is another one if it is shorter than what was read of it.   *)
(***************************************************************************)
OpenLog ==
    /\ reading.phase = "idle"
    /\ \E cut \in 0..cutoff :
          reader' = IF cut < reader.cut \/ Len(log) < reader.offset THEN Reset(cut)
                    ELSE [reader EXCEPT !.cut = cut]
    /\ reading' = [phase |-> "check", due |-> written]
    /\ UNCHANGED <<log, written, backup, rotation, cutoff, lfaults>>

(***************************************************************************)
(* MUTANT: takes a file that is long enough for the one it knows.          *)
(***************************************************************************)
LogChangedBySize == FALSE

LogChanged == FirstLines(Len(reader.prefix)) # reader.prefix

CheckPrefix ==
    /\ reading.phase = "check"
    /\ reader' = IF LogChanged THEN Reset(reader.cut) ELSE reader
    /\ reading' = [reading EXCEPT !.phase = "read"]
    /\ UNCHANGED <<log, written, backup, rotation, cutoff, lfaults>>

(***************************************************************************)
(* One Read of the loop: some of the lines after the offset, or the end.   *)
(***************************************************************************)
ReadChunk ==
    /\ reading.phase = "read"
    /\ \E end \in (reader.offset + 1)..Len(log) :
          reader' = [reader EXCEPT !.offset = end,
                                   !.rows = @ \o SubSeq(log, reader.offset + 1, end)]
    /\ UNCHANGED <<log, written, backup, rotation, reading, cutoff, lfaults>>

ReadEnds ==
    /\ reading.phase = "read"
    /\ Len(log) <= reader.offset
    /\ reading' = [reading EXCEPT !.phase = "ended"]
    /\ UNCHANGED <<log, written, backup, rotation, reader, cutoff, lfaults>>

(***************************************************************************)
(* A Read fails: the rest is left to the next reading.                     *)
(***************************************************************************)
ReadBreaks ==
    /\ reading.phase = "read"
    /\ reading' = [phase |-> "ended", due |-> 0]
    /\ UNCHANGED <<log, written, backup, rotation, reader, cutoff, lfaults>>

(***************************************************************************)
(* Another call fails: the next reading begins anew.                       *)
(***************************************************************************)
ReaderFails ==
    /\ reading.phase = "check"
    /\ reader' = Reset(reader.cut)
    /\ reading' = [phase |-> "ended", due |-> 0]
    /\ UNCHANGED <<log, written, backup, rotation, cutoff, lfaults>>

(***************************************************************************)
(* The rows not older than the window.                                     *)
(***************************************************************************)
RecentRows(rows, cut) ==
    LET retained[i \in 0..Len(rows)] ==
            IF i = 0 THEN <<>>
            ELSE IF rows[i] > cut THEN Append(retained[i - 1], rows[i])
            ELSE retained[i - 1]
    IN  retained[Len(rows)]

(***************************************************************************)
(* The prefix is read again and the rows older than the window are dropped.*)
(***************************************************************************)
FinishReading ==
    /\ reading.phase = "ended"
    /\ reader' = [reader EXCEPT !.prefix = FirstLines(IF reader.offset < PrefixSize THEN reader.offset
                                                 ELSE PrefixSize),
                                !.rows = RecentRows(reader.rows, reader.cut)]
    /\ reading' = NoReading
    /\ UNCHANGED <<log, written, backup, rotation, cutoff, lfaults>>

LogInit ==
    /\ log = <<>>
    /\ written = 0
    /\ backup = [i \in 1..Backups |-> <<>>]
    /\ rotation = NoRotation
    /\ reader = Reset(0)
    /\ reading = NoReading
    /\ cutoff = 0
    /\ lfaults = 0

LogNext ==
    \/ Append1 \/ WindowMoves
    \/ CopyLog \/ RemoveOldest \/ ShiftBackup \/ PublishBackup \/ TruncateLog \/ RotationFails
    \/ OpenLog \/ CheckPrefix \/ ReadChunk \/ ReadEnds \/ ReadBreaks
    \/ ReaderFails \/ FinishReading

LogSpec == LogInit /\ [][LogNext]_logVars

----------------------------------------------------------------------------
(***************************************************************************)
(* A reading ends with rows that are requests once logged, each once and   *)
(* in their order, whatever was cut and written meanwhile.  Unless the     *)
(* file was cut under a reading since the reader last began anew, they are *)
(* the recent ones of the lines it has behind it, and these hold all that  *)
(* the file had when the reading began and still has.                      *)
(***************************************************************************)
RowsAreTheFile ==
    [][reading.phase = "ended" /\ reading' # reading
          => /\ \A i, j \in DOMAIN reader'.rows : i < j => reader'.rows[i] < reader'.rows[j]
             /\ \A i \in DOMAIN reader'.rows : reader'.rows[i] \in 1..written
             /\ ~reader.torn
                   => /\ reader.offset <= Len(log)
                      /\ reader'.rows = RecentRows(SubSeq(log, 1, reader.offset), reader.cut)
                      /\ \A i \in DOMAIN log : log[i] <= reading.due => i <= reader.offset]_logVars

(***************************************************************************)
(* Rotation loses a line only with the oldest backup, or because it was    *)
(* written between the copy and the truncation; a crash anywhere in        *)
(* between loses no more than that.                                        *)
(***************************************************************************)
LinesKept ==
    [][\A l \in 1..written :
          LET held == ToSet(log) \cup UNION {ToSet(backup[i]) : i \in 1..Backups}
              heldNext == ToSet(log') \cup UNION {ToSet(backup'[i]) : i \in 1..Backups}
          IN  (l \in held /\ l \notin heldNext)
                  => \/ l \in ToSet(backup[Backups]) /\ rotation.phase = "remove"
                     \/ l \in ToSet(log) \ ToSet(rotation.copy) /\ rotation.phase = "truncate"]_logVars
=============================================================================
