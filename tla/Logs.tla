-------------------------------- MODULE Logs --------------------------------
(***************************************************************************)
(* Log files: internal/logfiles and the logs commands of                   *)
(* internal/runtime/logs.go.  One file is active; when it would grow       *)
(* beyond its size it becomes an archive, named by the clock, and the      *)
(* oldest archives are removed.  Every operation holds Manager.mu and is   *)
(* one action, whose alternatives are the points where it can fail.        *)
(***************************************************************************)
EXTENDS Naturals, Sequences, FiniteSets, Functions

CONSTANTS
    MaxSize,    \* bytes of the active file
    Archives,   \* archives that are kept
    Budget,     \* bytes Read looks at (2 MiB)
    Lengths,    \* lengths of records, with their newline
    MaxRecords  \* bound on the records written

ASSUME LogsAssumption ==
    /\ {MaxSize, Archives, Budget, MaxRecords} \subseteq Nat \ {0}
    /\ Lengths \subseteq 1..MaxSize

VARIABLES
    current,     \* the active file: a sequence of [id, len]
    archive,    \* the archives, oldest name first
    handle,     \* Manager.file is not nil
    opened,     \* the manager exists and is not closed
    written,    \* records so far
    accepted,   \* history: the records written and not removed by a command
    stuck       \* history: an archive could not be removed

logVars == <<current, archive, handle, opened, written, accepted, stuck>>

LogsInit ==
    /\ current = <<>> /\ archive = <<>> /\ handle = FALSE /\ opened = FALSE
    /\ written = 0 /\ accepted = {} /\ stuck = FALSE

Size(file) ==
    LET upto[n \in 0..Len(file)] == IF n = 0 THEN 0 ELSE upto[n - 1] + file[n].len
    IN upto[Len(file)]

Excess(list) == IF Len(list) > Archives THEN Len(list) - Archives ELSE 0

\* Mutant: the archives are sorted the other way.
Oldest(list) == SubSeq(list, 1, Len(list) - Excess(list))

\* prune keeps the newest names, which grow with the clock ...
Newest(list) == SubSeq(list, Excess(list) + 1, Len(list))

\* ... and removes the others, the newest first, until it fails with n left.
PruneFails(list) ==
    /\ \E n \in 1..Excess(list) : archive' = SubSeq(list, 1, n) \o Newest(list)
    /\ stuck' = TRUE

-----------------------------------------------------------------------------
\* Write, when the record fits.
WriteRecord(r) ==
    /\ current' = Append(current, r) /\ accepted' = accepted \cup {r}
    /\ UNCHANGED <<archive, handle, stuck>>

\* Write, when the active file is rotated first: all of it, or the rename fails
\* and the file is opened again, or the new file cannot be opened, or prune
\* fails.  A failure loses the record.
RotateRecord(r) ==
    \/ /\ archive' = Newest(Append(archive, current)) /\ current' = <<r>>
       /\ accepted' = accepted \cup {r} /\ UNCHANGED <<handle, stuck>>
    \/ handle' \in BOOLEAN /\ UNCHANGED <<current, archive, accepted, stuck>>
    \/ /\ archive' = Append(archive, current) /\ current' = <<>>
       /\ handle' = FALSE /\ UNCHANGED <<accepted, stuck>>
    \/ /\ PruneFails(Append(archive, current)) /\ current' = <<>>
       /\ UNCHANGED <<handle, accepted>>

Write(len) ==
    LET r == [id |-> written + 1, len |-> len] IN
    /\ opened /\ handle /\ written < MaxRecords
    /\ written' = written + 1
    /\ IF Size(current) > 0 /\ Size(current) + len > MaxSize THEN RotateRecord(r) ELSE WriteRecord(r)
    /\ UNCHANGED opened

-----------------------------------------------------------------------------
(* logs.remove *)

Forgotten(files) == accepted \ UNION {Range(f) : f \in files}

\* The active file is emptied, not removed.
DeleteCurrent ==
    /\ opened /\ handle
    /\ current' = <<>> /\ accepted' = Forgotten({current})
    /\ UNCHANGED <<archive, handle, opened, written, stuck>>

DeleteArchive(i) ==
    /\ opened
    /\ archive' = SubSeq(archive, 1, i - 1) \o SubSeq(archive, i + 1, Len(archive))
    /\ accepted' = Forgotten({archive[i]})
    /\ UNCHANGED <<current, handle, opened, written, stuck>>

\* Clear empties the active file and removes the archives from the newest on,
\* until one fails: n of them are left.  Without a handle it gets there only
\* when there is no active file.
Clear(n) ==
    /\ opened
    /\ handle \/ current = <<>>
    /\ current' = <<>> /\ archive' = SubSeq(archive, 1, n)
    /\ accepted' = Forgotten({current} \cup {archive[i] : i \in n + 1..Len(archive)})
    /\ UNCHANGED <<handle, opened, written, stuck>>

-----------------------------------------------------------------------------
\* OpenNamed opens the active file, creating it when there is none, and
\* prunes; when that fails there is no manager.
OpenLogs ==
    /\ ~opened
    /\ \/ opened' = TRUE /\ handle' = TRUE /\ archive' = Newest(archive) /\ UNCHANGED stuck
       \/ PruneFails(archive) /\ UNCHANGED <<opened, handle>>
    /\ UNCHANGED <<current, written, accepted>>

CloseLogs ==
    /\ opened
    /\ opened' = FALSE /\ handle' = FALSE
    /\ UNCHANGED <<current, archive, written, accepted, stuck>>

LogsNext ==
    \/ \E len \in Lengths : Write(len)
    \/ DeleteCurrent
    \/ \E i \in DOMAIN archive : DeleteArchive(i)
    \/ \E n \in 0..Len(archive) : Clear(n)
    \/ OpenLogs \/ CloseLogs

LogsSpec == LogsInit /\ [][LogsNext]_logVars

-----------------------------------------------------------------------------
(* Read: the files newest first, the active one before the archives, and in *)
(* each the newest lines first, within a budget of bytes and a limit of     *)
(* lines.                                                                   *)

Files == [i \in 1..Len(archive) + 1 |-> IF i = 1 THEN current ELSE archive[Len(archive) + 2 - i]]

\* The newest n lines of a file, the newest first.
Last(file, n) == [i \in 1..n |-> file[Len(file) + 1 - i]]

\* Of a file read from byte start on, the line start falls into is cut off.
LinesFrom(file, start) ==
    LET cut == {i \in DOMAIN file : start > 0 /\ Size(SubSeq(file, 1, i - 1)) <= start}
    IN Last(file, Len(file) - Cardinality(cut))

ReadFile(out, file, last, limit) ==
    LET start == IF Size(file) > out.budget THEN Size(file) - out.budget ELSE 0
        lines == LinesFrom(file, start)
        room == limit - Len(out.lines)
        left == out.budget - (Size(file) - start)
    IN IF out.done THEN out
       ELSE IF lines # <<>> /\ Len(lines) >= room
       THEN [lines |-> out.lines \o SubSeq(lines, 1, room), budget |-> left, done |-> TRUE,
             truncated |-> Len(lines) > room \/ start > 0 \/ ~last]
       ELSE [lines |-> out.lines \o lines, budget |-> left, done |-> left = 0,
             truncated |-> out.truncated \/ start > 0 \/ left = 0]

Read(limit) ==
    LET after[i \in 0..Len(Files)] ==
          IF i = 0 THEN [lines |-> <<>>, budget |-> Budget, done |-> FALSE, truncated |-> FALSE]
          ELSE ReadFile(after[i - 1], Files[i], i = Len(Files), limit)
    IN after[Len(Files)]

-----------------------------------------------------------------------------
(* Properties. *)

\* "Read returns newest lines first, bounded" (read.go): what it returns are
\* records that were written and not removed, the newest first; none between
\* them is missing, whatever rotations, removals and restarts failed before
\* (only an archive that could not be removed can leave older ones behind a
\* gap); and unless it says Truncated it has returned all there is in the
\* files.
ReadTrue ==
    opened => \A limit \in 1..MaxRecords :
        LET out == Read(limit)
            lines == Range(out.lines)
        IN /\ Len(out.lines) <= limit /\ lines \subseteq accepted
           /\ \A i, j \in DOMAIN out.lines : i < j => out.lines[i].id > out.lines[j].id
           /\ ~stuck => \A r \in accepted, l \in lines : r.id > l.id => r \in lines
           /\ ~out.truncated => \A f \in Range(Files) : Range(f) \subseteq lines

=============================================================================
