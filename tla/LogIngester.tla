---------------------------- MODULE LogIngester ----------------------------
(***************************************************************************)
(* server/log_ingester.ts: one process tails the access logs of two        *)
(* listeners and inserts a row for each line.  The web server appends to   *)
(* the logs and rotates them by rename and recreate; the process keeps a   *)
(* cursor per log in a file, which it writes once a batch of lines has     *)
(* been inserted.  A line is named by its log, the file it was written to  *)
(* and the offset just past its newline.                                   *)
(***************************************************************************)
EXTENDS Integers, Sequences, FiniteSets

CONSTANTS
  Files,       \* FILES: the logs, in the order a tick visits them
  Refused,     \* logs whose rows the database refuses
  Busy,        \* bound: the logs that the web server still writes
  Inode,       \* file identities, (dev, ino)
  MaxSize,     \* bound: bytes in a file
  MaxGen,      \* bound: files a log has had
  MaxGarbled,  \* bound: lines that do not parse
  MaxTrouble,  \* bound: failed inserts, and ticks that die
  None

Log == {Files[i] : i \in 1..Len(Files)}

ASSUME IngesterAssumption ==
  /\ Len(Files) \in Nat \ {0}
  /\ Refused \subseteq Log /\ Busy \subseteq Log
  /\ None \notin Inode /\ Inode # {}
  /\ MaxSize \in Nat /\ MaxGen \in Nat \ {0} /\ MaxGarbled \in Nat /\ MaxTrouble \in Nat

VARIABLES
  file,     \* the file at each log's path
  cursor,   \* each log's cursor file, as readCursor understands it
  rows,     \* lines of which funnel_access_log holds a row
  pc, at, local,  \* what the process does next, for which log, with what
  garbled,  \* lines that do not parse
  again, trouble, twin   \* for the properties; no code reads them

environment == <<file, garbled>>
database == <<rows, again>>
vars == <<file, cursor, rows, pc, at, local, garbled, again, trouble, twin>>

-----------------------------------------------------------------------------
Offset == 0..MaxSize

\* ino: the identity;  gen: how many files the log had before this one;
\* ends: the offsets just past each newline.
File == [there : BOOLEAN, ino : Inode, gen : 1..MaxGen, size : Offset, ends : SUBSET Offset]

\* A cursor is read from a JSON file; gen, which the code does not store, says
\* which file the offset was taken from.
Cursor == [offset : Offset, ino : Inode \cup {None}, gen : 0..MaxGen]

FRESH_CURSOR == [offset |-> 0, ino |-> None, gen |-> 0]

Line == Log \X (1..MaxGen) \X Offset

Idle == [cursor |-> FRESH_CURSOR, next |-> FRESH_CURSOR, lines |-> {}]

Local == [cursor : Cursor, next : Cursor, lines : SUBSET Offset]

\* What stat can tell of the file is the same as of the file of the cursor.
Twin(c, f) ==
  /\ c.gen # f.gen /\ c.offset > 0
  /\ f.there /\ f.size >= c.offset
  /\ c.ino \in {f.ino, None}

\* An installation starts fresh, or with a cursor that an earlier version wrote
\* without an identity, after the lines before it were inserted.
Init ==
  /\ file \in [Log -> {f \in File : f.there /\ f.gen = 1 /\ f.size = 1 /\ f.ends = {1}}]
  /\ \E old \in SUBSET Log :
       /\ cursor = [g \in Log |-> IF g \in old THEN [offset |-> 1, ino |-> None, gen |-> 1]
                                  ELSE FRESH_CURSOR]
       /\ rows = {<<g, 1, 1>> : g \in old}
  /\ pc = "idle" /\ at = 1 /\ local = Idle
  /\ garbled = {} /\ again = {} /\ trouble = 0 /\ twin = [g \in Log |-> FALSE]

Watch == twin' = [g \in Log |-> twin[g] \/ Twin(cursor'[g], file'[g])]

-----------------------------------------------------------------------------
\* The web server.

Longer(f, n) == [f EXCEPT !.size = f.size + n]

\* The last of the n bytes ends a line.
Completed(f, n) == [f EXCEPT !.size = f.size + n, !.ends = f.ends \cup {f.size + n}]

NewFile(f, i) == [there |-> TRUE, ino |-> i, gen |-> f.gen + 1, size |-> 0, ends |-> {}]

Renamed(f) == [f EXCEPT !.there = FALSE]

Becomes(g, f) ==
  /\ file' = [file EXCEPT ![g] = f]
  /\ UNCHANGED <<cursor, database, pc, at, local, trouble>>
  /\ Watch

Write(g, n) ==
  LET f == file[g]
      end == f.size + n
  IN
  /\ f.there /\ end <= MaxSize
  /\ \/ Becomes(g, Longer(f, n)) /\ UNCHANGED garbled
     \/ /\ Becomes(g, Completed(f, n))
        /\ \/ UNCHANGED garbled
           \/ /\ Cardinality(garbled) < MaxGarbled
              /\ garbled' = garbled \cup {<<g, f.gen, end>>}

Rename(g) ==
  /\ file[g].there
  /\ Becomes(g, Renamed(file[g]))
  /\ UNCHANGED garbled

\* An older file may be gone by now and its identity free again.
Create(g, i) ==
  /\ ~file[g].there /\ file[g].gen < MaxGen /\ i # file[g].ino
  /\ Becomes(g, NewFile(file[g], i))
  /\ UNCHANGED garbled

Truncate(g) ==
  /\ file[g].there /\ file[g].gen < MaxGen
  /\ Becomes(g, NewFile(file[g], file[g].ino))
  /\ UNCHANGED garbled

-----------------------------------------------------------------------------
\* The process: main runs tickOnce again and again, tickOnce visits the logs.

StartTick ==
  /\ pc = "idle"
  /\ pc' = "load" /\ at' = 1
  /\ UNCHANGED <<environment, cursor, database, local, trouble, twin>>

\* On to the next log, or the end of the tick.
NextLog ==
  /\ local' = Idle
  /\ IF at < Len(Files) THEN pc' = "load" /\ at' = at + 1 ELSE pc' = "idle" /\ at' = 1

Current == Files[at]

Load ==
  /\ pc = "load"
  /\ pc' = "read"
  /\ local' = [local EXCEPT !.cursor = cursor[Current]]
  /\ UNCHANGED <<environment, cursor, database, at, trouble, twin>>

\* Seeded fault: only the size tells a replacement.
StartBySize(c, f) == IF f.size < c.offset THEN 0 ELSE c.offset

\* Seeded fault: a cursor without an identity counts as one of another file.
StartByIdentity(c, f) == IF c.ino # f.ino \/ f.size < c.offset THEN 0 ELSE c.offset

\* A file of another identity, or shorter than the cursor, is read from 0.
StartOffset(c, f) ==
  IF (c.ino \notin {None, f.ino}) \/ f.size < c.offset THEN 0 ELSE c.offset

LinesIn(f, start, n) == {e \in f.ends : start < e /\ e <= start + n}

\* Seeded fault: the bytes of an unfinished line count as read.
AllBytes(f, start, n) == {start + n}

\* Just past the last newline among n bytes, or the start if there is none.
NewOffset(f, start, n) ==
  {m \in {start} \cup LinesIn(f, start, n) : \A e \in LinesIn(f, start, n) : e <= m}

\* insertLine skips what does not parse: a garbled line, and the rest of one
\* that a misplaced offset cut in two.
Parsable(g, f, start, lines) ==
  {e \in lines : /\ <<g, f.gen, e>> \notin garbled
                 /\ \E b \in {0} \cup f.ends : start <= b /\ b < e}

\* The opened handle pins one file; a read may return less than was asked for.
ReadNewLines(n) ==
  LET f == file[Current]
      start == StartOffset(local.cursor, f)
      lines == Parsable(Current, f, start, LinesIn(f, start, n))
  IN
  /\ pc = "read" /\ f.there
  /\ start + n <= f.size
  /\ \E offset \in NewOffset(f, start, n) :
       LET next == [offset |-> offset, ino |-> f.ino, gen |-> f.gen] IN
       IF <<offset, f.ino>> = <<local.cursor.offset, local.cursor.ino>>
       THEN NextLog
       ELSE /\ local' = [local EXCEPT !.next = next, !.lines = lines]
            /\ pc' = IF lines = {} THEN "save" ELSE "insert"
            /\ UNCHANGED at
  /\ UNCHANGED <<environment, cursor, database, trouble, twin>>

NoFile ==
  /\ pc = "read" /\ ~file[Current].there
  /\ NextLog
  /\ UNCHANGED <<environment, cursor, database, trouble, twin>>

\* The next line of the batch.
First(e) == e \in local.lines /\ \A d \in local.lines : e <= d

\* The row is committed; an error may be reported nevertheless.
InsertRow(e) ==
  LET line == <<Current, local.next.gen, e>> IN
  /\ First(e)
  /\ Current \notin Refused
  /\ rows' = rows \cup {line}
  /\ again' = IF line \in rows THEN again \cup {line} ELSE again

\* Seeded fault: a failed insert ends the tick.
EndTick ==
  /\ local' = Idle
  /\ pc' = "idle" /\ at' = 1

\* Seeded fault: the cursor moves past the batch all the same.
SaveAnyway ==
  /\ pc' = "save"
  /\ local' = [local EXCEPT !.lines = {}]
  /\ UNCHANGED at

\* "retry": the rest of the batch is left, and the cursor where it was.
Retry == NextLog

InsertLine(e) ==
  /\ pc = "insert"
  /\ \/ /\ InsertRow(e)
        /\ local' = [local EXCEPT !.lines = @ \ {e}]
        /\ pc' = IF local.lines = {e} THEN "save" ELSE pc
        /\ UNCHANGED <<at, trouble>>
     \/ /\ trouble < MaxTrouble /\ trouble' = trouble + 1
        /\ InsertRow(e) \/ (First(e) /\ UNCHANGED database)
        /\ Retry
     \/ /\ Current \in Refused
        /\ First(e) /\ UNCHANGED <<database, trouble>>
        /\ Retry
  /\ UNCHANGED <<environment, cursor, twin>>

Save ==
  /\ pc = "save"
  /\ cursor' = [cursor EXCEPT ![Current] = local.next]
  /\ NextLog
  /\ UNCHANGED file /\ Watch
  /\ UNCHANGED <<garbled, database, trouble>>

\* The process dies, or a tick throws.  A cursor file that was being written
\* may be cut short; it then reads as fresh.
Die ==
  /\ pc # "idle"
  /\ trouble < MaxTrouble /\ trouble' = trouble + 1
  /\ EndTick
  /\ \/ UNCHANGED cursor
     \/ pc = "save" /\ cursor' = [cursor EXCEPT ![Current] = FRESH_CURSOR]
  /\ UNCHANGED <<environment, database, twin>>

Work ==
  \/ StartTick \/ Load \/ NoFile \/ Save
  \/ \E n \in Offset : ReadNewLines(n)
  \/ \E e \in Offset : InsertLine(e)

Next ==
  \/ Work \/ Die
  \/ \E g \in Busy : \/ \E n \in 1..MaxSize : Write(g, n)
                     \/ Rename(g) \/ Truncate(g)
                     \/ \E i \in Inode : Create(g, i)

Spec == Init /\ [][Next]_vars

\* A read that returns all there is.
WholeRead(g) ==
  \E n \in Offset :
    /\ Current = g
    /\ StartOffset(local.cursor, file[g]) + n = file[g].size
    /\ ReadNewLines(n)

\* The loop never stops, and reads of no log come back short for ever.
FairSpec == Spec /\ WF_vars(Work) /\ \A g \in Log : SF_vars(WholeRead(g))

-----------------------------------------------------------------------------
TypeOK ==
  /\ file \in [Log -> File]
  /\ cursor \in [Log -> Cursor]
  /\ rows \subseteq Line /\ garbled \subseteq Line /\ again \subseteq rows
  /\ pc \in {"idle", "load", "read", "insert", "save"}
  /\ at \in 1..Len(Files)
  /\ local \in Local
  /\ trouble \in 0..MaxTrouble
  /\ twin \in [Log -> BOOLEAN]

\* A line of the current file that has its row, or never will have one.
Settled(g, e) == <<g, file[g].gen, e>> \in rows \cup garbled

\* Everything a cursor leaves behind is settled, and it stands on a line
\* boundary: over rotations, truncations, torn cursor files, failed and half
\* finished batches, no line is passed over or cut in two.  The exception is a
\* replacement that had all the looks of the old file (twin).
CursorIsSound ==
  \A g \in Log : ~twin[g] /\ cursor[g].gen = file[g].gen =>
    /\ cursor[g].offset \in {0} \cup file[g].ends
    /\ \A e \in file[g].ends : e <= cursor[g].offset => Settled(g, e)

\* The table never shows a request while an earlier one of the same log file
\* is missing ("left holes in the access-log evidence").
NoHoles ==
  \A g \in Log : ~twin[g] =>
    \A d, e \in file[g].ends :
      d < e /\ <<g, file[g].gen, e>> \in rows => Settled(g, d)

\* Over-counting is the price of failures only.
OnceUnlessTroubled == trouble = 0 => again = {}

\* Every line gets its row, unless its file is replaced first, whatever becomes
\* of the other log: also when the database refuses all rows of that one.
EveryLineIsIngested ==
  \A g \in Log \ Refused : \A n \in 1..MaxGen, e \in Offset :
    (file[g].there /\ file[g].gen = n /\ e \in file[g].ends)
      ~> (~file[g].there \/ file[g].gen # n \/ twin[g] \/ Settled(g, e))

-----------------------------------------------------------------------------
\* What makes these true.

\* Lines are those of files the log has had.
LinesExist ==
  \A g \in Log :
    /\ \A e \in file[g].ends : 0 < e /\ e <= file[g].size
    /\ \A n \in 1..MaxGen, e \in Offset : <<g, n, e>> \in rows \cup garbled =>
         n <= file[g].gen /\ (n = file[g].gen => e \in file[g].ends)

\* A cursor of the file at the path fits it.
Fits(c, f) ==
  /\ c.gen <= f.gen
  /\ c.gen = f.gen => c.offset <= f.size /\ c.ino \in {f.ino, None}
  /\ c.gen = 0 => c.offset = 0

CursorsFit ==
  \A g \in Log : Fits(cursor[g], file[g]) /\ (Twin(cursor[g], file[g]) => twin[g])

\* A batch continues where the cursor stands, and holds whatever is not settled
\* up to the offset it will save.
BatchIsSound ==
  LET f == file[Current]
      next == local.next
  IN
  /\ pc \in {"read", "insert", "save"} => local.cursor = cursor[Current]
  /\ pc = "save" => local.lines = {}
  /\ pc \in {"insert", "save"} =>
       /\ Fits(next, f) /\ next.gen >= 1
       /\ cursor[Current].gen <= next.gen
       /\ cursor[Current].gen = next.gen => cursor[Current].offset <= next.offset
       /\ \A e \in local.lines : e <= next.offset
       /\ next.gen = f.gen => local.lines \subseteq f.ends
       /\ ~twin[Current] /\ next.gen = f.gen =>
            /\ next.offset \in {0} \cup f.ends
            /\ \A e \in f.ends : e <= next.offset => Settled(Current, e) \/ e \in local.lines

\* Untroubled, rows are behind the cursor, or of the batch at hand.
RowsAreBehind ==
  trouble = 0 =>
    \A g \in Log, e \in Offset : <<g, file[g].gen, e>> \in rows =>
      \/ cursor[g].gen = file[g].gen /\ e <= cursor[g].offset
      \/ /\ pc \in {"insert", "save"} /\ g = Current /\ g \notin Refused
         /\ local.next.gen = file[g].gen /\ e <= local.next.offset
         /\ e \notin local.lines

\* Untroubled, a batch holds no line that has its row.
BatchIsNew ==
  trouble = 0 /\ pc = "insert" =>
    \A e \in local.lines : <<Current, local.next.gen, e>> \notin rows

IInv ==
  /\ TypeOK
  /\ LinesExist
  /\ CursorsFit
  /\ BatchIsSound
  /\ CursorIsSound
  /\ NoHoles
  /\ RowsAreBehind
  /\ BatchIsNew
  /\ OnceUnlessTroubled
=============================================================================
