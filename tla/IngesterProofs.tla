--------------------------- MODULE IngesterProofs ---------------------------
(***************************************************************************)
(* Proofs about LogIngester, for every list of logs, every size of file    *)
(* and every number of rotations.                                          *)
(***************************************************************************)
EXTENDS LogIngester, TLAPS

\* What one step is: one lemma per part of the invariant splits on these.
Environment ==
  \E g \in Log : \/ \E n \in 1..MaxSize : Write(g, n)
                 \/ Rename(g) \/ Truncate(g)
                 \/ \E i \in Inode : Create(g, i)

Step ==
  \/ Environment
  \/ StartTick \/ Load \/ NoFile \/ Save \/ Die
  \/ \E n \in Offset : ReadNewLines(n)
  \/ \E e \in Offset : InsertLine(e)
  \/ UNCHANGED vars

\* [Next]_vars is such a step.
LEMMA StepCases == [Next]_vars => Step
BY IngesterAssumption DEF Next, Work, Step, Environment

\* The log a tick is at is one of the logs.
LEMMA CurrentIsLog ==
  ASSUME TypeOK
  PROVE  Current \in Log /\ file[Current] \in File /\ cursor[Current] \in Cursor
BY DEF TypeOK, Current, Log

\* The constants, as the proofs use them.
LEMMA Bounds ==
  /\ MaxSize \in Nat /\ MaxGen \in Nat /\ MaxGen >= 1 /\ MaxTrouble \in Nat
  /\ MaxGarbled \in Nat /\ Len(Files) \in Nat /\ Len(Files) >= 1
  /\ None \notin Inode
BY IngesterAssumption

-----------------------------------------------------------------------------
\* What the web server does to a file: it grows, or it is replaced.
Grown(f, h) ==
  /\ h.gen = f.gen /\ h.ino = f.ino
  /\ f.size <= h.size
  /\ f.ends \subseteq h.ends
  /\ \A e \in h.ends \ f.ends : f.size < e /\ e <= h.size

Replaced(f, h) == f.gen < h.gen /\ h.size = 0 /\ h.ends = {}

Surroundings ==
  /\ \A g \in Log : file'[g] \in File
  /\ \A g \in Log : Grown(file[g], file'[g]) \/ Replaced(file[g], file'[g])
  /\ garbled \subseteq garbled'
  /\ garbled' \subseteq Line
  /\ \A g \in Log, n \in 1..MaxGen, e \in Offset : <<g, n, e>> \in garbled' \ garbled =>
       n = file'[g].gen /\ e \in file'[g].ends

\* Writes make a file grow.
LEMMA FilesGrow ==
  ASSUME NEW f \in File, NEW n \in Offset, 0 < n, f.size + n <= MaxSize,
         f.ends \subseteq 0..f.size
  PROVE  /\ Longer(f, n) \in File /\ Grown(f, Longer(f, n))
         /\ Completed(f, n) \in File /\ Grown(f, Completed(f, n))
         /\ Completed(f, n).ends = f.ends \cup {f.size + n}
<1> USE Bounds
<1>1. f.size \in Offset /\ f.size + n \in Offset /\ f.ends \in SUBSET Offset
  BY DEF File, Offset
<1>2. Longer(f, n) \in File /\ Completed(f, n) \in File
  BY <1>1 DEF Longer, Completed, File
<1>3. /\ Longer(f, n).gen = f.gen /\ Longer(f, n).ino = f.ino
      /\ Longer(f, n).size = f.size + n /\ Longer(f, n).ends = f.ends
      /\ Completed(f, n).gen = f.gen /\ Completed(f, n).ino = f.ino
      /\ Completed(f, n).size = f.size + n /\ Completed(f, n).ends = f.ends \cup {f.size + n}
  BY DEF Longer, Completed, File
<1>4. f.size \in Nat /\ n \in Nat /\ 0 < n
  BY <1>1 DEF Offset
<1>5. Grown(f, Longer(f, n))
  BY <1>3, <1>4 DEF Grown
<1>6. \A e \in (f.ends \cup {f.size + n}) \ f.ends : f.size < e /\ e <= f.size + n
  BY <1>4
<1>7. Grown(f, Completed(f, n))
  BY <1>3, <1>4, <1>6 DEF Grown
<1> QED BY <1>2, <1>3, <1>5, <1>7

\* A new file replaces an old one.
LEMMA FilesAreReplaced ==
  ASSUME NEW f \in File, NEW i \in Inode, f.gen < MaxGen
  PROVE  NewFile(f, i) \in File /\ Replaced(f, NewFile(f, i))
<1> USE Bounds
<1>1. f.gen \in 1..MaxGen /\ f.gen + 1 \in 1..MaxGen /\ 0 \in Offset
  BY DEF File, Offset
<1> QED BY <1>1 DEF NewFile, File, Replaced

\* A renamed file is the same file.
LEMMA FilesAreRenamed ==
  ASSUME NEW f \in File
  PROVE  Renamed(f) \in File /\ Grown(f, Renamed(f))
<1>1. f.size \in Nat
  BY Bounds DEF File, Offset
<1>2. /\ Renamed(f) \in File
      /\ Renamed(f).gen = f.gen /\ Renamed(f).ino = f.ino
      /\ Renamed(f).size = f.size /\ Renamed(f).ends = f.ends
  BY DEF Renamed, File
<1> QED BY <1>1, <1>2 DEF Grown

\* A step of the web server is one of those, and the process does nothing in it.
LEMMA EnvironmentStep ==
  ASSUME TypeOK, LinesExist, Environment
  PROVE  /\ Surroundings
         /\ file' \in [Log -> File]
         /\ Watch
         /\ UNCHANGED <<cursor, rows, again, pc, at, local, trouble>>
<1> USE Bounds
<1> PICK g \in Log : \/ \E n \in 1..MaxSize : Write(g, n)
                     \/ Rename(g) \/ Truncate(g)
                     \/ \E i \in Inode : Create(g, i)
  BY DEF Environment
<1>0. /\ \A h \in Log : file[h] \in File /\ file[h].size \in Nat
      /\ file[g].ends \subseteq 0..file[g].size
      /\ file[g].gen \in 1..MaxGen
      /\ garbled \subseteq Line
  BY DEF TypeOK, File, Offset, LinesExist
<1>a. ASSUME NEW f \in File, Becomes(g, f), Grown(file[g], f) \/ Replaced(file[g], f)
      PROVE  /\ file' \in [Log -> File]
             /\ \A h \in Log : Grown(file[h], file'[h]) \/ Replaced(file[h], file'[h])
             /\ file'[g] = f
             /\ Watch
             /\ UNCHANGED <<cursor, rows, again, pc, at, local, trouble>>
  <2>1. file' = [file EXCEPT ![g] = f]
    BY <1>a DEF Becomes
  <2>2. \A h \in Log \ {g} : Grown(file[h], file'[h])
    BY <1>0, <2>1 DEF Grown, TypeOK
  <2> QED BY <1>a, <2>1, <2>2 DEF Becomes, TypeOK, database
<1>b. ASSUME garbled' = garbled, NEW f \in File, Becomes(g, f),
             Grown(file[g], f) \/ Replaced(file[g], f)
      PROVE  /\ Surroundings
             /\ file' \in [Log -> File]
             /\ Watch
             /\ UNCHANGED <<cursor, rows, again, pc, at, local, trouble>>
  BY <1>0, <1>a, <1>b DEF Surroundings
<1>1. ASSUME NEW n \in 1..MaxSize, Write(g, n)
      PROVE  /\ Surroundings
             /\ file' \in [Log -> File]
             /\ Watch
             /\ UNCHANGED <<cursor, rows, again, pc, at, local, trouble>>
  <2> DEFINE end == file[g].size + n
  <2>1. n \in Offset /\ 0 < n /\ end <= MaxSize /\ end \in Offset
    BY <1>0, <1>1 DEF Write, Offset
  <2>2. /\ Longer(file[g], n) \in File /\ Grown(file[g], Longer(file[g], n))
        /\ Completed(file[g], n) \in File /\ Grown(file[g], Completed(file[g], n))
        /\ end \in Completed(file[g], n).ends
    BY <1>0, <2>1, FilesGrow
  <2>3. CASE garbled' = garbled
    BY <1>1, <1>b, <2>2, <2>3 DEF Write
  <2>4. CASE garbled' # garbled
    <3>1. Becomes(g, Completed(file[g], n)) /\ garbled' = garbled \cup {<<g, file[g].gen, end>>}
      BY <1>1, <2>4 DEF Write
    <3>2. file'[g] = Completed(file[g], n) /\ file'[g].gen = file[g].gen /\ end \in file'[g].ends
      BY <1>a, <2>2, <3>1 DEF Grown
    <3>3. garbled' \subseteq Line
      BY <1>0, <2>1, <3>1 DEF Line
    <3>4. /\ file' \in [Log -> File]
          /\ \A h \in Log : Grown(file[h], file'[h]) \/ Replaced(file[h], file'[h])
          /\ Watch
          /\ UNCHANGED <<cursor, rows, again, pc, at, local, trouble>>
      BY <1>a, <2>2, <3>1
    <3>5. \A h \in Log, m \in 1..MaxGen, e \in Offset : <<h, m, e>> \in garbled' \ garbled =>
             m = file'[h].gen /\ e \in file'[h].ends
      BY <3>1, <3>2
    <3> QED BY <3>1, <3>3, <3>4, <3>5 DEF Surroundings
  <2> QED BY <2>3, <2>4
<1>3. CASE Rename(g)
  BY <1>0, <1>3, <1>b, FilesAreRenamed DEF Rename
<1>4. CASE Truncate(g)
  <2>1. file[g].ino \in Inode
    BY <1>0 DEF File
  <2> QED BY <1>0, <1>4, <1>b, <2>1, FilesAreReplaced DEF Truncate
<1>5. ASSUME NEW i \in Inode, Create(g, i)
      PROVE  /\ Surroundings
             /\ file' \in [Log -> File]
             /\ Watch
             /\ UNCHANGED <<cursor, rows, again, pc, at, local, trouble>>
  BY <1>0, <1>5, <1>b, FilesAreReplaced DEF Create
<1> QED BY <1>1, <1>3, <1>4, <1>5

-----------------------------------------------------------------------------
\* What the process does, in the forms that the invariants are about.

\* It goes on to the next log, or ends the tick.
Left ==
  /\ pc' \in {"idle", "load"}
  /\ at' \in 1..Len(Files)
  /\ local' \in Local

Quiet == UNCHANGED <<file, garbled, twin>>

\* Untroubled, it leaves no batch behind, unless the log is refused.
Leaves ==
  /\ Quiet /\ Left
  /\ UNCHANGED <<cursor, rows, again>>
  /\ trouble' \in trouble..MaxTrouble
  /\ trouble' = 0 => pc \notin {"insert", "save"} \/ Current \in Refused

\* The cursor file is cut short.
Torn ==
  /\ Quiet /\ Left
  /\ UNCHANGED <<rows, again>>
  /\ cursor' = [cursor EXCEPT ![Current] = FRESH_CURSOR]
  /\ trouble' \in 1..MaxTrouble

\* What was read: everything between a start and an offset.
IsBatch(f, next, lines) ==
  LET start == StartOffset(cursor[Current], f) IN
  /\ next \in Cursor /\ next.ino = f.ino /\ next.gen = f.gen
  /\ start <= next.offset /\ next.offset <= f.size
  /\ next.offset \in {start} \cup f.ends
  /\ lines \subseteq f.ends
  /\ \A e \in lines : start < e /\ e <= next.offset
  /\ start \in {0} \cup f.ends =>
       \A e \in f.ends : start < e /\ e <= next.offset =>
         e \in lines \/ <<Current, f.gen, e>> \in garbled

Reads ==
  /\ pc = "read" /\ Quiet
  /\ UNCHANGED <<cursor, rows, again, trouble, at>>
  /\ file[Current].there
  /\ local' \in Local
  /\ local'.cursor = cursor[Current]
  /\ IsBatch(file[Current], local'.next, local'.lines)
  /\ pc' = IF local'.lines = {} THEN "save" ELSE "insert"

\* A row is inserted: the batch goes on, or is left with trouble.
Inserts(e) ==
  /\ pc = "insert" /\ Quiet
  /\ UNCHANGED cursor
  /\ InsertRow(e)
  /\ \/ /\ UNCHANGED <<at, trouble>>
        /\ local' = [local EXCEPT !.lines = @ \ {e}]
        /\ pc' = IF local.lines = {e} THEN "save" ELSE pc
     \/ Left /\ trouble' \in 1..MaxTrouble

Saves ==
  /\ pc = "save" /\ Left
  /\ UNCHANGED <<file, garbled, rows, again, trouble>>
  /\ cursor' = [cursor EXCEPT ![Current] = local.next]
  /\ Watch

Loads ==
  /\ pc = "load" /\ Quiet
  /\ pc' = "read" /\ local' = [local EXCEPT !.cursor = cursor[Current]]
  /\ UNCHANGED <<cursor, rows, again, trouble, at>>

Forms ==
  \/ Surroundings /\ file' \in [Log -> File] /\ Watch
     /\ UNCHANGED <<cursor, rows, again, pc, at, local, trouble>>
  \/ Leaves \/ Torn \/ Reads \/ Saves \/ Loads
  \/ \E e \in Offset : Inserts(e)
  \/ UNCHANGED vars

\* A read yields the lines between where it starts and the last newline.
LEMMA BatchIsRead ==
  ASSUME TypeOK, LinesExist, NEW n \in Offset,
         file[Current].there, StartOffset(cursor[Current], file[Current]) + n <= file[Current].size,
         NEW offset \in NewOffset(file[Current], StartOffset(cursor[Current], file[Current]), n),
         NEW next, next = [offset |-> offset, ino |-> file[Current].ino, gen |-> file[Current].gen],
         NEW lines, lines = Parsable(Current, file[Current], StartOffset(cursor[Current], file[Current]),
                              LinesIn(file[Current], StartOffset(cursor[Current], file[Current]), n))
  PROVE  IsBatch(file[Current], next, lines) /\ lines \in SUBSET Offset
<1> USE Bounds, CurrentIsLog
<1> DEFINE f == file[Current]
           start == StartOffset(cursor[Current], f)
           found == LinesIn(f, start, n)
<1>1. f \in File /\ f.size \in Offset /\ f.ends \in SUBSET Offset /\ f.gen \in 1..MaxGen /\ f.ino \in Inode
  BY DEF File
<1>2. start \in Offset
  <2>1. cursor[Current].offset \in Offset
    BY DEF Cursor
  <2> QED BY <2>1 DEF StartOffset, Offset
<1>3. found \subseteq f.ends /\ \A e \in found : start < e /\ e <= start + n
  BY DEF LinesIn
<1>4. offset \in {start} \cup found /\ \A e \in found : e <= offset
  BY DEF NewOffset
<1>5. offset \in Offset /\ start <= offset /\ offset <= start + n
  BY <1>1, <1>2, <1>3, <1>4 DEF Offset
<1>6. lines \subseteq found
  BY DEF Parsable
<1>7. next \in Cursor /\ next.ino = f.ino /\ next.gen = f.gen /\ next.offset = offset
  BY <1>1, <1>5 DEF Cursor
<1>8. ASSUME start \in {0} \cup f.ends, NEW e \in f.ends, start < e, e <= offset
      PROVE  e \in lines \/ <<Current, f.gen, e>> \in garbled
  <2>1. e \in found
    BY <1>1, <1>2, <1>5, <1>8 DEF LinesIn, Offset
  <2> QED BY <2>1, <1>2, <1>8 DEF Parsable, Offset
<1>9. start <= offset /\ offset <= f.size
  BY <1>1, <1>2, <1>5 DEF Offset
<1>10. \A e \in lines : start < e /\ e <= offset
  BY <1>3, <1>4, <1>6
<1>11. lines \subseteq f.ends /\ offset \in {start} \cup f.ends
  BY <1>3, <1>4, <1>6
<1> HIDE DEF f, start, found
<1>12. IsBatch(f, next, lines)
  BY <1>7, <1>8, <1>9, <1>10, <1>11 DEF IsBatch, start
<1> QED BY <1>1, <1>11, <1>12 DEF f

\* Going on to the next log leaves the process at one of the logs.
LEMMA NextLogLeaves ==
  ASSUME TypeOK, NextLog
  PROVE  Left
<1>1. Idle \in Local
  BY Bounds DEF Idle, Local, Cursor, FRESH_CURSOR, Offset
<1>2. Len(Files) \in Nat /\ at \in 1..Len(Files)
  BY Bounds DEF TypeOK
<1> QED BY <1>1, <1>2 DEF NextLog, Left

\* So does the end of a tick.
LEMMA EndTickLeaves ==
  ASSUME EndTick
  PROVE  Left
<1>1. Idle \in Local
  BY Bounds DEF Idle, Local, Cursor, FRESH_CURSOR, Offset
<1> QED BY <1>1, Bounds DEF EndTick, Left

\* Every step has one of the forms.
LEMMA StepForms ==
  ASSUME TypeOK, LinesExist, BatchIsSound, [Next]_vars
  PROVE  Forms
<1> USE Bounds
<1>0. trouble \in 0..MaxTrouble /\ local \in Local /\ at \in 1..Len(Files)
  BY DEF TypeOK
<1>1. CASE Environment
  BY <1>1, EnvironmentStep DEF Forms
<1>2. CASE StartTick
  <2>1. Leaves
    BY <1>0, <1>2 DEF StartTick, Leaves, Left, Quiet, environment, database
  <2> QED BY <2>1 DEF Forms
<1>3. CASE Load
  <2>1. Loads
    BY <1>3 DEF Load, Loads, Quiet, environment, database
  <2> QED BY <2>1 DEF Forms
<1>4. CASE NoFile
  <2>1. Leaves
    BY <1>0, <1>4, NextLogLeaves DEF NoFile, Leaves, Quiet, environment, database
  <2> QED BY <2>1 DEF Forms
<1>5. CASE Save
  <2>1. Saves
    BY <1>5, NextLogLeaves DEF Save, Saves, database
  <2> QED BY <2>1 DEF Forms
<1>6. CASE Die
  <2>1. trouble' \in 1..MaxTrouble /\ trouble' \in trouble..MaxTrouble /\ trouble' # 0
    BY <1>0, <1>6 DEF Die
  <2>2. Leaves \/ Torn
    BY <1>6, <2>1, EndTickLeaves DEF Die, Leaves, Torn, Quiet, environment, database
  <2> QED BY <2>2 DEF Forms
<1>7. ASSUME NEW n \in Offset, ReadNewLines(n)
      PROVE  Forms
  <2> DEFINE f == file[Current]
             start == StartOffset(cursor[Current], f)
             lines == Parsable(Current, f, start, LinesIn(f, start, n))
  <2>0. local.cursor = cursor[Current] /\ pc = "read"
    BY <1>7 DEF ReadNewLines, BatchIsSound
  <2>1. PICK offset \in NewOffset(f, start, n) :
          LET next == [offset |-> offset, ino |-> f.ino, gen |-> f.gen] IN
          \/ NextLog
          \/ /\ local' = [local EXCEPT !.next = next, !.lines = lines]
             /\ pc' = IF lines = {} THEN "save" ELSE "insert"
             /\ UNCHANGED at
    BY <1>7, <2>0 DEF ReadNewLines
  <2>2. f.there /\ start + n <= f.size /\ UNCHANGED <<file, garbled, cursor, rows, again, trouble, twin>>
    BY <1>7, <2>0 DEF ReadNewLines, environment, database
  <2>3. CASE NextLog
    <3>1. Leaves
      BY <1>0, <2>0, <2>2, <2>3, NextLogLeaves DEF Leaves, Quiet
    <3> QED BY <3>1 DEF Forms
  <2>4. CASE ~NextLog
    <3> DEFINE next == [offset |-> offset, ino |-> f.ino, gen |-> f.gen]
    <3>1. /\ local' = [local EXCEPT !.next = next, !.lines = lines]
          /\ pc' = IF lines = {} THEN "save" ELSE "insert"
          /\ UNCHANGED at
      BY <2>1, <2>4
    <3>2. IsBatch(f, next, lines) /\ lines \in SUBSET Offset
      BY <2>2, BatchIsRead
    <3>3. next \in Cursor
      BY <3>2 DEF IsBatch
    <3> HIDE DEF next, lines, start, f
    <3>4. local' \in Local /\ local'.cursor = cursor[Current] /\ local'.next = next /\ local'.lines = lines
      BY <1>0, <2>0, <3>1, <3>2, <3>3 DEF Local
    <3>5. Reads
      BY <2>0, <2>2, <3>1, <3>2, <3>4 DEF Reads, Quiet, f
    <3> QED BY <3>5 DEF Forms
  <2> QED BY <2>3, <2>4
<1>8. ASSUME NEW e \in Offset, InsertLine(e)
      PROVE  Forms
  <2>1. pc = "insert" /\ Quiet /\ UNCHANGED cursor
    BY <1>8 DEF InsertLine, Quiet, environment
  <2>2. CASE /\ InsertRow(e)
             /\ local' = [local EXCEPT !.lines = @ \ {e}]
             /\ pc' = IF local.lines = {e} THEN "save" ELSE pc
             /\ UNCHANGED <<at, trouble>>
    <3>1. Inserts(e)
      BY <2>1, <2>2 DEF Inserts
    <3> QED BY <3>1 DEF Forms
  <2>3. CASE /\ trouble < MaxTrouble /\ trouble' = trouble + 1
             /\ InsertRow(e) \/ (First(e) /\ UNCHANGED database)
             /\ Retry
    <3>1. Left /\ trouble' \in 1..MaxTrouble /\ trouble' \in trouble..MaxTrouble /\ trouble' # 0
      BY <1>0, <2>3, NextLogLeaves DEF Retry
    <3>2. Inserts(e) \/ Leaves
      BY <2>1, <2>3, <3>1 DEF Inserts, Leaves, database
    <3> QED BY <3>2 DEF Forms
  <2>4. CASE Current \in Refused /\ UNCHANGED <<database, trouble>> /\ Retry
    <3>1. Left /\ trouble' \in trouble..MaxTrouble
      BY <1>0, <2>4, NextLogLeaves DEF Retry
    <3>2. Leaves
      BY <2>1, <2>4, <3>1 DEF Leaves, database
    <3> QED BY <3>2 DEF Forms
  <2> QED BY <1>8, <2>2, <2>3, <2>4 DEF InsertLine
<1>9. CASE UNCHANGED vars
  BY <1>9 DEF Forms
<1> QED BY <1>1, <1>2, <1>3, <1>4, <1>5, <1>6, <1>7, <1>8, <1>9, StepCases DEF Step

-----------------------------------------------------------------------------
\* One lemma for each part of the invariant.

\* The type invariant is inductive, given that lines are those of files.
LEMMA StepType ==
  ASSUME TypeOK, LinesExist, BatchIsSound, Forms
  PROVE  TypeOK'
<1> USE Bounds
<1>0. /\ file \in [Log -> File] /\ cursor \in [Log -> Cursor]
      /\ rows \subseteq Line /\ garbled \subseteq Line /\ again \subseteq rows
      /\ pc \in {"idle", "load", "read", "insert", "save"}
      /\ at \in 1..Len(Files) /\ local \in Local
      /\ trouble \in 0..MaxTrouble /\ twin \in [Log -> BOOLEAN]
      /\ Current \in Log
  BY CurrentIsLog DEF TypeOK
<1>a. FRESH_CURSOR \in Cursor
  BY DEF FRESH_CURSOR, Cursor, Offset
<1>b. ASSUME Watch PROVE twin' \in [Log -> BOOLEAN]
  BY <1>0, <1>b DEF Watch, Twin
<1>1. CASE /\ Surroundings /\ file' \in [Log -> File] /\ Watch
           /\ UNCHANGED <<cursor, rows, again, pc, at, local, trouble>>
  BY <1>0, <1>1, <1>b DEF TypeOK, Surroundings
<1>2. CASE Leaves
  BY <1>0, <1>2 DEF Leaves, Quiet, Left, TypeOK
<1>3. CASE Torn
  BY <1>0, <1>3, <1>a DEF Torn, Quiet, Left, TypeOK
<1>4. CASE Reads
  BY <1>0, <1>4 DEF Reads, Quiet, TypeOK
<1>5. CASE Saves
  <2>1. local.next \in Cursor
    BY <1>0 DEF Local
  <2> QED BY <1>0, <1>5, <1>b, <2>1 DEF Saves, Left, TypeOK
<1>6. CASE Loads
  <2>1. local' \in Local
    BY <1>0, <1>6 DEF Loads, Local
  <2> QED BY <1>0, <1>6, <2>1 DEF Loads, Quiet, TypeOK
<1>7. ASSUME NEW e \in Offset, Inserts(e)
      PROVE  TypeOK'
  <2>1. local.next.gen \in 1..MaxGen
    BY <1>0, <1>7 DEF Inserts, BatchIsSound, Local, Cursor
  <2>2. rows' \subseteq Line /\ again' \subseteq rows'
    BY <1>0, <1>7, <2>1 DEF Inserts, InsertRow, Line
  <2>3. [local EXCEPT !.lines = @ \ {e}] \in Local
    BY <1>0 DEF Local
  <2>4. local' \in Local /\ pc' \in {"idle", "load", "insert", "save"}
    BY <1>7, <2>3 DEF Inserts, Left
  <2>5. at' \in 1..Len(Files) /\ trouble' \in 0..MaxTrouble
    BY <1>0, <1>7 DEF Inserts, Left
  <2>6. UNCHANGED <<file, garbled, twin, cursor>>
    BY <1>7 DEF Inserts, Quiet
  <2> QED BY <1>0, <2>2, <2>4, <2>5, <2>6 DEF TypeOK
<1>8. CASE UNCHANGED vars
  BY <1>0, <1>8 DEF vars, TypeOK
<1> QED BY <1>1, <1>2, <1>3, <1>4, <1>5, <1>6, <1>7, <1>8 DEF Forms

\* Rows and garbled lines are lines of files the log has had.
LEMMA StepLinesExist ==
  ASSUME TypeOK, LinesExist, BatchIsSound, Forms
  PROVE  LinesExist'
<1> USE Bounds
<1>0. /\ \A g \in Log : file[g] \in File /\ file[g].gen \in Int /\ file[g].size \in Nat
                        /\ file[g].ends \subseteq Offset
      /\ local \in Local /\ Current \in Log
  BY CurrentIsLog DEF TypeOK, File, Offset
<1>1. CASE Surroundings /\ UNCHANGED rows
  <2> SUFFICES ASSUME NEW g \in Log
               PROVE  /\ \A e \in file'[g].ends : 0 < e /\ e <= file'[g].size
                      /\ \A n \in 1..MaxGen, e \in Offset : <<g, n, e>> \in rows' \cup garbled' =>
                           n <= file'[g].gen /\ (n = file'[g].gen => e \in file'[g].ends)
    BY DEF LinesExist
  <2>1. file'[g] \in File /\ (Grown(file[g], file'[g]) \/ Replaced(file[g], file'[g]))
    BY <1>1 DEF Surroundings
  <2>2. file'[g].size \in Nat /\ file'[g].gen \in Int /\ file'[g].ends \subseteq Int
    BY <2>1 DEF File, Offset
  <2>3. \A e \in file'[g].ends : 0 < e /\ e <= file'[g].size
    <3>1. \A e \in file[g].ends : 0 < e /\ e <= file[g].size /\ e \in Int
      BY <1>0 DEF LinesExist, Offset
    <3> QED BY <1>0, <2>1, <2>2, <3>1 DEF Grown, Replaced
  <2>4. ASSUME NEW n \in 1..MaxGen, NEW e \in Offset, <<g, n, e>> \in rows' \cup garbled'
        PROVE  n <= file'[g].gen /\ (n = file'[g].gen => e \in file'[g].ends)
    <3>1. CASE <<g, n, e>> \in rows \cup garbled
      <4>1. n <= file[g].gen /\ (n = file[g].gen => e \in file[g].ends) /\ n \in Int
        BY <3>1 DEF LinesExist
      <4>2. CASE Grown(file[g], file'[g])
        BY <4>1, <4>2 DEF Grown
      <4>3. CASE Replaced(file[g], file'[g])
        BY <1>0, <2>2, <4>1, <4>3 DEF Replaced
      <4> QED BY <2>1, <4>2, <4>3
    <3>2. CASE <<g, n, e>> \in garbled' \ garbled
      BY <1>1, <2>2, <3>2 DEF Surroundings
    <3> QED BY <1>1, <2>4, <3>1, <3>2
  <2> QED BY <2>3, <2>4
<1>2. CASE Leaves \/ Torn \/ Reads \/ Saves \/ Loads
  <2>1. UNCHANGED <<file, rows, garbled>>
    BY <1>2 DEF Leaves, Torn, Reads, Saves, Loads, Quiet
  <2> QED BY <2>1 DEF LinesExist
<1>3. ASSUME NEW d \in Offset, Inserts(d)
      PROVE  LinesExist'
  <2>1. /\ UNCHANGED <<file, garbled>> /\ d \in local.lines
        /\ rows' = rows \cup {<<Current, local.next.gen, d>>}
    BY <1>3 DEF Inserts, InsertRow, Quiet, First
  <2>2. local.next.gen <= file[Current].gen /\
        (local.next.gen = file[Current].gen => d \in file[Current].ends)
    BY <1>3, <2>1 DEF Inserts, BatchIsSound, Fits
  <2> QED BY <2>1, <2>2 DEF LinesExist
<1>4. CASE UNCHANGED vars
  BY <1>4 DEF vars, LinesExist
<1> QED BY <1>1, <1>2, <1>3, <1>4 DEF Forms

\* A cursor that fits a file fits what becomes of the file.
LEMMA FitsKept ==
  ASSUME NEW c \in Cursor, NEW f \in File, NEW h \in File, Fits(c, f),
         Grown(f, h) \/ Replaced(f, h)
  PROVE  Fits(c, h)
<1>1. /\ c.gen \in Int /\ c.offset \in Int /\ f.gen \in Int /\ h.gen \in Int
      /\ f.size \in Int /\ h.size \in Int
  BY Bounds DEF Cursor, File, Offset
<1>2. CASE Grown(f, h)
  BY <1>1, <1>2 DEF Grown, Fits
<1>3. CASE Replaced(f, h)
  BY <1>1, <1>3 DEF Replaced, Fits
<1> QED BY <1>2, <1>3

\* What is behind a cursor of the file at the path stays what it is.
LEMMA BehindKept ==
  ASSUME NEW c \in Cursor, NEW f \in File, NEW h \in File, Fits(c, f),
         Grown(f, h) \/ Replaced(f, h), c.gen = h.gen
  PROVE  /\ c.gen = f.gen /\ f.gen = h.gen
         /\ f.ends \subseteq h.ends
         /\ \A e \in h.ends : e <= c.offset => e \in f.ends
<1>1. /\ c.gen \in Int /\ c.offset \in Int /\ f.gen \in Int /\ h.gen \in Int
      /\ f.size \in Int /\ h.ends \subseteq Int
  BY Bounds DEF Cursor, File, Offset
<1>2. Grown(f, h)
  BY <1>1 DEF Replaced, Fits
<1>3. c.gen = f.gen /\ c.offset <= f.size
  BY <1>2 DEF Grown, Fits
<1> QED BY <1>1, <1>2, <1>3 DEF Grown

\* A cursor never fits less, and a twin is always noticed.
LEMMA StepCursorsFit ==
  ASSUME TypeOK, CursorsFit, BatchIsSound, Forms
  PROVE  CursorsFit'
<1> USE Bounds
<1>0. /\ Current \in Log /\ local \in Local
      /\ \A g \in Log : cursor[g] \in Cursor /\ file[g] \in File
      /\ cursor \in [Log -> Cursor] /\ twin \in [Log -> BOOLEAN]
  BY CurrentIsLog DEF TypeOK
<1>a. ASSUME Watch PROVE \A g \in Log : Twin(cursor'[g], file'[g]) => twin'[g]
  BY <1>a DEF Watch
<1>1. CASE Surroundings /\ Watch /\ UNCHANGED cursor
  <2>1. ASSUME NEW g \in Log PROVE Fits(cursor'[g], file'[g])
    <3>1. /\ file'[g] \in File /\ (Grown(file[g], file'[g]) \/ Replaced(file[g], file'[g]))
          /\ Fits(cursor[g], file[g]) /\ cursor'[g] = cursor[g]
      BY <1>1 DEF Surroundings, CursorsFit
    <3> QED BY <1>0, <3>1, FitsKept
  <2> QED BY <1>1, <1>a, <2>1 DEF CursorsFit
<1>2. CASE Leaves \/ Reads \/ Loads \/ \E e \in Offset : Inserts(e)
  <2>1. UNCHANGED <<file, cursor, twin>>
    BY <1>2 DEF Leaves, Reads, Loads, Inserts, Quiet
  <2> QED BY <2>1 DEF CursorsFit
<1>3. CASE Torn
  <2>1. UNCHANGED <<file, twin>> /\ cursor' = [cursor EXCEPT ![Current] = FRESH_CURSOR]
    BY <1>3 DEF Torn, Quiet
  <2>2. ASSUME NEW g \in Log
        PROVE  Fits(cursor'[g], file'[g]) /\ (Twin(cursor'[g], file'[g]) => twin'[g])
    <3>1. CASE g = Current
      <4>1. cursor'[g] = FRESH_CURSOR /\ file'[g] = file[g]
        BY <1>0, <2>1, <3>1
      <4>2. file[g].gen \in 1..MaxGen
        BY <1>0 DEF File
      <4> QED BY <4>1, <4>2 DEF FRESH_CURSOR, Fits, Twin
    <3>2. CASE g # Current
      BY <1>0, <2>1, <3>2 DEF CursorsFit
    <3> QED BY <3>1, <3>2
  <2> QED BY <2>2 DEF CursorsFit
<1>4. CASE Saves
  <2>1. /\ UNCHANGED file /\ cursor' = [cursor EXCEPT ![Current] = local.next]
        /\ Fits(local.next, file[Current]) /\ Watch
    BY <1>4 DEF Saves, BatchIsSound
  <2>2. ASSUME NEW g \in Log PROVE Fits(cursor'[g], file'[g])
    BY <1>0, <2>1 DEF CursorsFit
  <2> QED BY <1>a, <2>1, <2>2 DEF CursorsFit
<1>5. CASE UNCHANGED vars
  BY <1>5 DEF vars, CursorsFit
<1> QED BY <1>1, <1>2, <1>3, <1>4, <1>5 DEF Forms

\* What a read may take for behind it is settled.
LEMMA StartIsSound ==
  ASSUME TypeOK, LinesExist, CursorsFit, CursorIsSound, file[Current].there, ~twin[Current]
  PROVE  LET f == file[Current]
             start == StartOffset(cursor[Current], f)
         IN /\ start \in {0} \cup f.ends
            /\ \A e \in f.ends : e <= start => Settled(Current, e)
<1> USE Bounds
<1> DEFINE f == file[Current]
           c == cursor[Current]
           start == StartOffset(c, f)
<1>0. /\ Current \in Log /\ f \in File /\ c \in Cursor
      /\ f.size \in Int /\ c.offset \in Nat /\ f.ends \subseteq Int
  BY CurrentIsLog DEF File, Cursor, Offset
<1>1. CASE start = 0
  <2>1. \A e \in f.ends : 0 < e
    BY <1>0 DEF LinesExist
  <2> QED BY <1>0, <1>1, <2>1
<1>2. CASE start # 0
  <2>1. start = c.offset /\ c.ino \in {None, f.ino} /\ ~(f.size < c.offset) /\ c.offset > 0
    BY <1>0, <1>2 DEF StartOffset
  <2>2. ~Twin(c, f)
    BY <1>0 DEF CursorsFit
  <2>3. c.gen = f.gen
    BY <1>0, <2>1, <2>2 DEF Twin
  <2> QED BY <1>0, <2>1, <2>3 DEF CursorIsSound
<1> QED BY <1>1, <1>2

\* A cursor of the file at the path is where the read starts.
LEMMA StartIsCursor ==
  ASSUME NEW c \in Cursor, NEW f \in File, Fits(c, f), c.gen = f.gen
  PROVE  StartOffset(c, f) = c.offset
<1>1. c.offset \in Int /\ f.size \in Int
  BY Bounds DEF Cursor, File, Offset
<1> QED BY <1>1 DEF StartOffset, Fits

\* The batch at hand stays sound.
LEMMA StepBatch ==
  ASSUME TypeOK, LinesExist, CursorsFit, BatchIsSound, CursorIsSound, Forms
  PROVE  BatchIsSound'
<1> USE Bounds
<1> DEFINE f == file[Current]
           next == local.next
           lines == local.lines
<1>0. /\ Current \in Log /\ f \in File /\ local \in Local /\ next \in Cursor
      /\ cursor[Current] \in Cursor /\ f.ends \subseteq Int /\ f.gen \in 1..MaxGen
      /\ pc \in {"idle", "load", "read", "insert", "save"}
      /\ f.size \in Int /\ lines \subseteq Int
      /\ cursor[Current].offset \in Int /\ cursor[Current].gen \in Int
      /\ next.offset \in Int /\ next.gen \in Int
  BY CurrentIsLog DEF TypeOK, File, Local, Cursor, Offset
<1>1. CASE /\ Surroundings /\ Watch
           /\ UNCHANGED <<cursor, rows, again, pc, at, local, trouble>>
  <2> DEFINE h == file'[Current]
  <2>1. h \in File /\ (Grown(f, h) \/ Replaced(f, h)) /\ Current' = Current
    BY <1>0, <1>1 DEF Surroundings, Current
  <2>2. garbled \subseteq garbled' /\ rows' = rows /\ cursor' = cursor /\ local' = local /\ pc' = pc
    BY <1>1 DEF Surroundings
  <2>3. ~twin'[Current] => ~twin[Current]
    BY <1>0, <1>1 DEF Watch
  <2>4. ASSUME pc \in {"insert", "save"} PROVE Fits(next, h)
    BY <1>0, <2>1, <2>4, FitsKept DEF BatchIsSound
  <2>5. ASSUME pc \in {"insert", "save"}, next.gen = h.gen
        PROVE  next.gen = f.gen /\ f.ends \subseteq h.ends /\ \A e \in h.ends : e <= next.offset => e \in f.ends
    BY <1>0, <2>1, <2>5, BehindKept DEF BatchIsSound
  <2>6. ASSUME pc \in {"insert", "save"}, next.gen = h.gen, ~twin'[Current]
        PROVE  /\ next.offset \in {0} \cup h.ends
               /\ \A e \in h.ends : e <= next.offset => Settled(Current, e)' \/ e \in lines
    <3>1. /\ next.offset \in {0} \cup f.ends
          /\ \A e \in f.ends : e <= next.offset => Settled(Current, e) \/ e \in lines
      BY <2>3, <2>5, <2>6 DEF BatchIsSound
    <3> QED BY <2>1, <2>2, <2>5, <2>6, <3>1 DEF Settled
  <2>7. ASSUME pc \in {"insert", "save"}, next.gen = h.gen PROVE lines \subseteq h.ends
    BY <2>5, <2>7 DEF BatchIsSound
  <2> QED BY <2>1, <2>2, <2>4, <2>6, <2>7 DEF BatchIsSound
<1>2. CASE Leaves \/ Torn \/ Saves
  BY <1>2 DEF Leaves, Torn, Saves, Left, BatchIsSound
<1>3. CASE Loads
  <2>1. /\ pc' = "read" /\ Current' = Current /\ local'.cursor = cursor[Current]
        /\ UNCHANGED cursor
    BY <1>0, <1>3 DEF Loads, Current, Local
  <2> QED BY <2>1 DEF BatchIsSound
<1>4. CASE Reads
  <2> DEFINE start == StartOffset(cursor[Current], f)
             m == local'.next
             batch == local'.lines
  <2>1. /\ UNCHANGED <<file, garbled, twin, cursor, rows>> /\ Current' = Current /\ f.there
        /\ local'.cursor = cursor[Current] /\ IsBatch(f, m, batch)
        /\ pc' = IF batch = {} THEN "save" ELSE "insert"
    BY <1>4 DEF Reads, Quiet, Current
  <2>2. /\ m \in Cursor /\ m.ino = f.ino /\ m.gen = f.gen
        /\ start <= m.offset /\ m.offset <= f.size
        /\ m.offset \in {start} \cup f.ends
        /\ batch \subseteq f.ends
        /\ \A e \in batch : start < e /\ e <= m.offset
    BY <2>1 DEF IsBatch
  <2>3. Fits(m, f) /\ m.gen >= 1
    BY <1>0, <2>2 DEF Fits
  <2>4. cursor[Current].gen <= m.gen
    BY <1>0, <2>2 DEF CursorsFit, Fits
  <2>5. cursor[Current].gen = m.gen => cursor[Current].offset <= m.offset
    <3>1. Fits(cursor[Current], f)
      BY <1>0 DEF CursorsFit
    <3> QED BY <1>0, <2>2, <3>1, StartIsCursor
  <2>6. ASSUME ~twin[Current]
        PROVE  /\ m.offset \in {0} \cup f.ends
               /\ \A e \in f.ends : e <= m.offset => Settled(Current, e) \/ e \in batch
    <3>1. start \in {0} \cup f.ends /\ \A e \in f.ends : e <= start => Settled(Current, e)
      BY <2>1, <2>6, StartIsSound
    <3>2. \A e \in f.ends : start < e /\ e <= m.offset => e \in batch \/ Settled(Current, e)
      BY <2>1, <3>1 DEF IsBatch, Settled
    <3>3. start \in Int /\ m.offset \in {0} \cup f.ends
      BY <1>0, <2>2, <3>1
    <3> QED BY <1>0, <3>1, <3>2, <3>3
  <2>7. /\ Settled(Current, 0)' <=> Settled(Current, 0)
        /\ \A e \in f.ends : Settled(Current, e)' <=> Settled(Current, e)
    BY <2>1 DEF Settled
  <2>8. pc' \in {"insert", "save"} /\ (pc' = "save" => batch = {})
    BY <2>1
  <2> HIDE DEF start
  <2> QED BY <2>1, <2>2, <2>3, <2>4, <2>5, <2>6, <2>7, <2>8 DEF BatchIsSound
<1>5. ASSUME NEW d \in Offset, Inserts(d)
      PROVE  BatchIsSound'
  <2>0. /\ pc = "insert" /\ UNCHANGED <<file, garbled, twin, cursor>>
        /\ rows' = rows \cup {<<Current, next.gen, d>>}
    BY <1>5 DEF Inserts, InsertRow, Quiet
  <2>1. CASE Left
    BY <2>1 DEF Left, BatchIsSound
  <2>2. CASE /\ UNCHANGED <<at, trouble>>
             /\ local' = [local EXCEPT !.lines = @ \ {d}]
             /\ pc' = IF local.lines = {d} THEN "save" ELSE pc
    <3>1. /\ Current' = Current /\ local'.cursor = local.cursor /\ local'.next = next
          /\ local'.lines = lines \ {d}
      BY <1>0, <2>2 DEF Current, Local
    <3>2. pc' = "save" => local'.lines = {}
      BY <2>0, <2>2, <3>1
    <3>3. ASSUME ~twin[Current], next.gen = f.gen
          PROVE  /\ next.offset \in {0} \cup f.ends
                 /\ \A e \in f.ends : e <= next.offset => Settled(Current, e)' \/ e \in lines \ {d}
      <4>1. /\ next.offset \in {0} \cup f.ends
            /\ \A e \in f.ends : e <= next.offset => Settled(Current, e) \/ e \in lines
        BY <2>0, <3>3 DEF BatchIsSound
      <4>2. \A e \in f.ends : Settled(Current, e) => Settled(Current, e)'
        BY <2>0, <3>1 DEF Settled
      <4>3. Settled(Current, d)'
        BY <2>0, <3>1, <3>3 DEF Settled
      <4> QED BY <4>1, <4>2, <4>3
    <3> QED BY <2>0, <3>1, <3>2, <3>3 DEF BatchIsSound
  <2> QED BY <1>5, <2>1, <2>2 DEF Inserts
<1>6. CASE UNCHANGED vars
  <2>1. Current' = Current /\ UNCHANGED <<file, cursor, rows, pc, local, garbled, twin>>
    BY <1>6 DEF vars, Current
  <2> QED BY <2>1 DEF BatchIsSound, Settled
<1> QED BY <1>1, <1>2, <1>3, <1>4, <1>5, <1>6 DEF Forms

\* No cursor passes over a line.
LEMMA StepCursorSound ==
  ASSUME TypeOK, LinesExist, CursorsFit, BatchIsSound, CursorIsSound, Forms
  PROVE  CursorIsSound'
<1> USE Bounds
<1>0. /\ Current \in Log /\ cursor \in [Log -> Cursor] /\ local \in Local
      /\ \A g \in Log : /\ file[g] \in File /\ cursor[g] \in Cursor
                        /\ file[g].gen >= 1 /\ file[g].gen \in Int /\ file[g].ends \subseteq Int
  BY CurrentIsLog DEF TypeOK, File, Offset
<1>1. CASE Surroundings /\ Watch /\ UNCHANGED <<cursor, rows>>
  <2> SUFFICES ASSUME NEW g \in Log, ~twin'[g], cursor'[g].gen = file'[g].gen
               PROVE  /\ cursor'[g].offset \in {0} \cup file'[g].ends
                      /\ \A e \in file'[g].ends : e <= cursor'[g].offset => Settled(g, e)'
    BY DEF CursorIsSound
  <2>1. /\ file'[g] \in File /\ (Grown(file[g], file'[g]) \/ Replaced(file[g], file'[g]))
        /\ garbled \subseteq garbled' /\ cursor' = cursor /\ rows' = rows
        /\ Fits(cursor[g], file[g])
    BY <1>1 DEF Surroundings, CursorsFit
  <2>2. ~twin[g]
    BY <1>1 DEF Watch
  <2>3. /\ cursor[g].gen = file[g].gen /\ file[g].gen = file'[g].gen
        /\ file[g].ends \subseteq file'[g].ends
        /\ \A e \in file'[g].ends : e <= cursor[g].offset => e \in file[g].ends
    BY <1>0, <2>1, BehindKept
  <2>4. /\ cursor[g].offset \in {0} \cup file[g].ends
        /\ \A e \in file[g].ends : e <= cursor[g].offset => Settled(g, e)
    BY <2>2, <2>3 DEF CursorIsSound
  <2> QED BY <2>1, <2>3, <2>4 DEF Settled
<1>2. CASE Leaves \/ Reads \/ Loads \/ \E e \in Offset : Inserts(e)
  <2>1. UNCHANGED <<file, cursor, twin, garbled>> /\ rows \subseteq rows'
    BY <1>2 DEF Leaves, Reads, Loads, Inserts, InsertRow, Quiet
  <2> QED BY <2>1 DEF CursorIsSound, Settled
<1>3. CASE Torn
  <2>1. UNCHANGED <<file, twin, rows, garbled>> /\ cursor' = [cursor EXCEPT ![Current] = FRESH_CURSOR]
    BY <1>3 DEF Torn, Quiet
  <2>2. cursor'[Current].gen # file[Current].gen
    BY <1>0, <2>1 DEF FRESH_CURSOR
  <2> QED BY <1>0, <2>1, <2>2 DEF CursorIsSound, Settled
<1>4. CASE Saves
  <2>1. /\ pc = "save" /\ UNCHANGED <<file, garbled, rows>> /\ Watch
        /\ cursor' = [cursor EXCEPT ![Current] = local.next]
    BY <1>4 DEF Saves
  <2> SUFFICES ASSUME NEW g \in Log, ~twin'[g], cursor'[g].gen = file'[g].gen
               PROVE  /\ cursor'[g].offset \in {0} \cup file'[g].ends
                      /\ \A e \in file'[g].ends : e <= cursor'[g].offset => Settled(g, e)'
    BY DEF CursorIsSound
  <2>2. ~twin[g]
    BY <2>1 DEF Watch
  <2>3. CASE g = Current
    <3>1. cursor'[g] = local.next /\ file' = file /\ local.lines = {}
      BY <1>0, <2>1, <2>3 DEF BatchIsSound
    <3> QED BY <2>1, <2>2, <2>3, <3>1 DEF BatchIsSound, Settled
  <2>4. CASE g # Current
    BY <1>0, <2>1, <2>2, <2>4 DEF CursorIsSound, Settled
  <2> QED BY <2>3, <2>4
<1>5. CASE UNCHANGED vars
  BY <1>5 DEF vars, CursorIsSound, Settled
<1> QED BY <1>1, <1>2, <1>3, <1>4, <1>5 DEF Forms

\* Rows are inserted in the order of their lines.
LEMMA StepNoHoles ==
  ASSUME TypeOK, LinesExist, BatchIsSound, NoHoles, Forms
  PROVE  NoHoles'
<1> USE Bounds
<1>0. /\ Current \in Log /\ local \in Local
      /\ \A g \in Log : /\ file[g] \in File /\ file[g].gen \in 1..MaxGen /\ file[g].ends \subseteq Int
                        /\ file[g].size \in Int /\ file[g].ends \subseteq Offset
  BY CurrentIsLog DEF TypeOK, File, Offset
<1>1. CASE Surroundings /\ Watch /\ UNCHANGED rows
  <2> SUFFICES ASSUME NEW g \in Log, ~twin'[g], NEW d \in file'[g].ends, NEW e \in file'[g].ends,
                      d < e, <<g, file'[g].gen, e>> \in rows'
               PROVE  Settled(g, d)'
    BY DEF NoHoles
  <2>1. /\ file'[g] \in File /\ (Grown(file[g], file'[g]) \/ Replaced(file[g], file'[g]))
        /\ garbled \subseteq garbled' /\ rows' = rows
    BY <1>1 DEF Surroundings
  <2>2. ~twin[g]
    BY <1>1 DEF Watch
  <2>3. file'[g].gen \in 1..MaxGen /\ file'[g].ends \subseteq Offset
    BY <2>1 DEF File
  <2>4. file'[g].gen <= file[g].gen
    BY <2>1, <2>3 DEF LinesExist
  <2>5. Grown(file[g], file'[g])
    BY <1>0, <2>1, <2>3, <2>4 DEF Replaced
  <2>6. file'[g].gen = file[g].gen
    BY <2>5 DEF Grown
  <2>7. e \in file[g].ends /\ e <= file[g].size
    BY <2>1, <2>3, <2>6 DEF LinesExist
  <2>8. d \in file[g].ends
    <3>1. d \in Int /\ e \in Int
      BY <2>3 DEF Offset
    <3> QED BY <1>0, <2>5, <2>7, <3>1 DEF Grown
  <2>9. Settled(g, d)
    BY <2>1, <2>2, <2>6, <2>7, <2>8 DEF NoHoles
  <2> QED BY <2>1, <2>6, <2>9 DEF Settled
<1>2. CASE Leaves \/ Torn \/ Reads \/ Saves \/ Loads
  <2>1. UNCHANGED <<file, rows, garbled>> /\ \A g \in Log : ~twin'[g] => ~twin[g]
    BY <1>2 DEF Leaves, Torn, Reads, Saves, Loads, Quiet, Watch
  <2> QED BY <2>1 DEF NoHoles, Settled
<1>3. ASSUME NEW n \in Offset, Inserts(n)
      PROVE  NoHoles'
  <2>1. /\ pc = "insert" /\ UNCHANGED <<file, garbled, twin>> /\ First(n)
        /\ rows' = rows \cup {<<Current, local.next.gen, n>>}
    BY <1>3 DEF Inserts, InsertRow, Quiet
  <2> SUFFICES ASSUME NEW g \in Log, ~twin[g], NEW d \in file[g].ends, NEW e \in file[g].ends,
                      d < e, <<g, file[g].gen, e>> \in rows'
               PROVE  Settled(g, d)'
    BY <2>1 DEF NoHoles
  <2>2. CASE <<g, file[g].gen, e>> \in rows
    BY <2>1, <2>2 DEF NoHoles, Settled
  <2>3. CASE g = Current /\ local.next.gen = file[g].gen /\ e = n
    <3>1. e <= local.next.offset /\ d \notin local.lines
      <4>1. d \in Int /\ e \in Int
        BY <1>0
      <4> QED BY <2>1, <2>3, <4>1 DEF First, BatchIsSound
    <3>2. d <= local.next.offset
      <4>1. local.next.offset \in Int /\ d \in Int /\ e \in Int
        BY <1>0 DEF Local, Cursor, Offset
      <4> QED BY <3>1, <4>1
    <3>3. Settled(g, d)
      BY <2>1, <2>3, <3>1, <3>2 DEF BatchIsSound
    <3> QED BY <2>1, <3>3 DEF Settled
  <2> QED BY <2>1, <2>2, <2>3
<1>4. CASE UNCHANGED vars
  BY <1>4 DEF vars, NoHoles, Settled
<1> QED BY <1>1, <1>2, <1>3, <1>4 DEF Forms

\* Trouble is remembered.
LEMMA TroubleStays ==
  ASSUME TypeOK, Forms, trouble' = 0
  PROVE  trouble = 0
<1>1. trouble \in Nat
  BY Bounds DEF TypeOK
<1>2. trouble' = trouble \/ trouble' \in trouble..MaxTrouble \/ trouble' \in 1..MaxTrouble
  BY DEF Forms, Leaves, Torn, Reads, Saves, Loads, Inserts, vars
<1> QED BY <1>1, <1>2, Bounds

\* Untroubled, rows stay behind the cursor or in the batch.
LEMMA StepRowsBehind ==
  ASSUME TypeOK, LinesExist, CursorsFit, BatchIsSound, RowsAreBehind, Forms
  PROVE  RowsAreBehind'
<1> USE Bounds
<1> SUFFICES ASSUME trouble' = 0, NEW g \in Log, NEW e \in Offset,
                    <<g, file'[g].gen, e>> \in rows'
             PROVE  \/ cursor'[g].gen = file'[g].gen /\ e <= cursor'[g].offset
                    \/ /\ pc' \in {"insert", "save"} /\ g = Current' /\ g \notin Refused
                       /\ local'.next.gen = file'[g].gen /\ e <= local'.next.offset
                       /\ e \notin local'.lines
  BY DEF RowsAreBehind
<1>0. /\ Current \in Log /\ cursor \in [Log -> Cursor] /\ local \in Local /\ trouble = 0
      /\ cursor[g] \in Cursor /\ file[g] \in File /\ file[g].gen \in Int /\ e \in Int
      /\ cursor[g].offset \in Int /\ cursor[g].gen \in Int
      /\ local.next.offset \in Int /\ local.next.gen \in Int
  <2>1. Current \in Log /\ trouble = 0
    BY CurrentIsLog, TroubleStays
  <2>2. cursor \in [Log -> Cursor] /\ local \in Local /\ cursor[g] \in Cursor /\ file[g] \in File
    BY DEF TypeOK
  <2>3. local.next \in Cursor
    BY <2>2 DEF Local
  <2> QED BY <2>1, <2>2, <2>3 DEF File, Cursor, Offset
<1>a. ASSUME <<g, file[g].gen, e>> \in rows
      PROVE  \/ cursor[g].gen = file[g].gen /\ e <= cursor[g].offset
             \/ /\ pc \in {"insert", "save"} /\ g = Current /\ g \notin Refused
                /\ local.next.gen = file[g].gen /\ e <= local.next.offset
                /\ e \notin local.lines
  BY <1>0, <1>a DEF RowsAreBehind
<1>1. CASE Surroundings /\ UNCHANGED <<cursor, rows, pc, at, local>>
  <2>1. /\ file'[g] \in File /\ (Grown(file[g], file'[g]) \/ Replaced(file[g], file'[g]))
    BY <1>1 DEF Surroundings
  <2>2. file'[g].gen \in 1..MaxGen
    BY <2>1 DEF File
  <2>3. file'[g].gen <= file[g].gen
    BY <1>1, <2>2 DEF LinesExist
  <2>4. file'[g].gen = file[g].gen
    BY <1>0, <2>1, <2>2, <2>3 DEF Grown, Replaced
  <2> QED BY <1>a, <1>1, <2>4 DEF Current
<1>2. CASE Leaves
  <2>1. UNCHANGED <<file, rows, cursor>> /\ (pc \notin {"insert", "save"} \/ Current \in Refused)
    BY <1>2 DEF Leaves, Quiet
  <2> QED BY <1>a, <2>1
<1>3. CASE Torn
  BY <1>3 DEF Torn
<1>4. CASE Reads \/ Loads
  <2>1. UNCHANGED <<file, rows, cursor>> /\ pc \notin {"insert", "save"}
    BY <1>4 DEF Reads, Loads, Quiet
  <2> QED BY <1>a, <2>1
<1>5. CASE Saves
  <2>1. /\ UNCHANGED <<file, rows>> /\ pc = "save"
        /\ cursor' = [cursor EXCEPT ![Current] = local.next]
    BY <1>5 DEF Saves
  <2>2. CASE g # Current
    BY <1>0, <1>a, <2>1, <2>2
  <2>3. CASE g = Current
    <3>1. cursor'[g] = local.next
      BY <1>0, <2>1, <2>3
    <3>2. CASE cursor[g].gen = file[g].gen /\ e <= cursor[g].offset
      <4>1. cursor[g].gen <= local.next.gen /\ local.next.gen <= file[g].gen
        BY <2>1, <2>3 DEF BatchIsSound, Fits
      <4>2. cursor[g].gen = local.next.gen
        BY <1>0, <3>2, <4>1
      <4>3. cursor[g].offset <= local.next.offset
        BY <2>1, <2>3, <4>2 DEF BatchIsSound
      <4> QED BY <1>0, <2>1, <3>1, <3>2, <4>2, <4>3
    <3> QED BY <1>a, <2>1, <3>1, <3>2
  <2> QED BY <2>2, <2>3
<1>6. ASSUME NEW d \in Offset, Inserts(d)
      PROVE  \/ cursor'[g].gen = file'[g].gen /\ e <= cursor'[g].offset
             \/ /\ pc' \in {"insert", "save"} /\ g = Current' /\ g \notin Refused
                /\ local'.next.gen = file'[g].gen /\ e <= local'.next.offset
                /\ e \notin local'.lines
  <2>1. /\ pc = "insert" /\ UNCHANGED <<file, cursor>> /\ Current \notin Refused
        /\ d \in local.lines
        /\ rows' = rows \cup {<<Current, local.next.gen, d>>}
        /\ UNCHANGED at
        /\ local' = [local EXCEPT !.lines = @ \ {d}]
        /\ pc' \in {"insert", "save"}
    BY <1>6 DEF Inserts, InsertRow, First, Quiet
  <2>2. Current' = Current /\ local'.next = local.next /\ local'.lines = local.lines \ {d}
    BY <1>0, <2>1 DEF Current, Local
  <2>3. CASE <<g, file[g].gen, e>> \in rows
    BY <1>a, <2>1, <2>2, <2>3
  <2>4. CASE g = Current /\ local.next.gen = file[g].gen /\ e = d
    BY <2>1, <2>2, <2>4 DEF BatchIsSound
  <2> QED BY <2>1, <2>3, <2>4
<1>7. CASE UNCHANGED vars
  BY <1>a, <1>7 DEF vars, Current
<1> QED BY <1>1, <1>2, <1>3, <1>4, <1>5, <1>6, <1>7 DEF Forms

\* Untroubled, a batch stays free of lines that have rows.
LEMMA StepBatchNew ==
  ASSUME TypeOK, CursorsFit, RowsAreBehind, BatchIsNew, Forms
  PROVE  BatchIsNew'
<1> USE Bounds
<1> SUFFICES ASSUME trouble' = 0, pc' = "insert", NEW e \in local'.lines
             PROVE  <<Current', local'.next.gen, e>> \notin rows'
  BY DEF BatchIsNew
<1>0. trouble = 0 /\ Current \in Log /\ local \in Local
  BY CurrentIsLog, TroubleStays DEF TypeOK
<1>1. CASE UNCHANGED <<rows, pc, at, local>>
  BY <1>0, <1>1 DEF BatchIsNew, Current
<1>2. CASE Leaves \/ Torn \/ Saves \/ Loads
  BY <1>2 DEF Leaves, Torn, Saves, Loads, Left
<1>3. CASE Reads
  <2> DEFINE f == file[Current]
             c == cursor[Current]
  <2>1. /\ pc = "read" /\ Current' = Current /\ rows' = rows
        /\ IsBatch(f, local'.next, local'.lines)
    BY <1>3 DEF Reads, Current
  <2>2. local'.next.gen = f.gen /\ e \in f.ends /\ StartOffset(c, f) < e
    BY <2>1 DEF IsBatch
  <2>3. f \in File /\ c \in Cursor /\ Fits(c, f)
    BY <1>0, CurrentIsLog DEF CursorsFit
  <2>4. e \in Offset
    BY <2>2, <2>3 DEF File
  <2> SUFFICES ASSUME <<Current, f.gen, e>> \in rows
               PROVE  FALSE
    BY <2>1, <2>2
  <2>5. c.gen = f.gen /\ e <= c.offset
    BY <1>0, <2>1, <2>4 DEF RowsAreBehind
  <2>6. StartOffset(c, f) = c.offset
    BY <2>3, <2>5, StartIsCursor
  <2>7. e \in Int /\ c.offset \in Int
    BY <2>3, <2>4 DEF Offset, Cursor
  <2> QED BY <2>2, <2>5, <2>6, <2>7
<1>4. ASSUME NEW d \in Offset, Inserts(d)
      PROVE  <<Current', local'.next.gen, e>> \notin rows'
  <2>1. /\ pc = "insert" /\ UNCHANGED at
        /\ rows' = rows \cup {<<Current, local.next.gen, d>>}
        /\ local' = [local EXCEPT !.lines = @ \ {d}]
    BY <1>4 DEF Inserts, InsertRow, Left
  <2>2. Current' = Current /\ local'.next = local.next /\ local'.lines = local.lines \ {d}
    BY <1>0, <2>1 DEF Current, Local
  <2> QED BY <1>0, <2>1, <2>2 DEF BatchIsNew
<1> QED BY <1>1, <1>2, <1>3, <1>4 DEF Forms, vars

\* Untroubled, no line is inserted again.
LEMMA StepOnce ==
  ASSUME TypeOK, BatchIsNew, OnceUnlessTroubled, Forms
  PROVE  OnceUnlessTroubled'
<1> SUFFICES ASSUME trouble' = 0
             PROVE  again' = {}
  BY DEF OnceUnlessTroubled
<1>0. trouble = 0 /\ again = {}
  BY TroubleStays DEF OnceUnlessTroubled
<1>1. CASE UNCHANGED again
  BY <1>0, <1>1
<1>2. ASSUME NEW d \in Offset, Inserts(d)
      PROVE  again' = {}
  <2>1. <<Current, local.next.gen, d>> \notin rows
    BY <1>0, <1>2 DEF Inserts, InsertRow, First, BatchIsNew
  <2> QED BY <1>0, <1>2, <2>1 DEF Inserts, InsertRow
<1> QED BY <1>1, <1>2 DEF Forms, Leaves, Torn, Reads, Saves, Loads, vars

-----------------------------------------------------------------------------
\* The initial states satisfy the invariant.
LEMMA InitIInv == Init => IInv
<1> SUFFICES ASSUME Init PROVE IInv
  OBVIOUS
<1> USE Bounds
<1>1. PICK old \in SUBSET Log :
        /\ cursor = [g \in Log |-> IF g \in old THEN [offset |-> 1, ino |-> None, gen |-> 1]
                                  ELSE FRESH_CURSOR]
        /\ rows = {<<g, 1, 1>> : g \in old}
  BY DEF Init
<1>2. /\ file \in [Log -> File]
      /\ \A g \in Log : file[g] \in File /\ file[g].gen = 1 /\ file[g].size = 1 /\ file[g].ends = {1}
      /\ pc = "idle" /\ at = 1 /\ local = Idle /\ garbled = {} /\ again = {}
      /\ trouble = 0 /\ twin = [g \in Log |-> FALSE]
  BY DEF Init
<1>3. ASSUME NEW g \in Log
      PROVE  /\ g \in old => cursor[g] = [offset |-> 1, ino |-> None, gen |-> 1]
             /\ g \notin old => cursor[g] = FRESH_CURSOR
  BY <1>1
<1>a. ASSUME NEW g \in Log
      PROVE  /\ g \in old => cursor[g].offset = 1 /\ cursor[g].ino = None /\ cursor[g].gen = 1
             /\ g \notin old => cursor[g].offset = 0 /\ cursor[g].ino = None /\ cursor[g].gen = 0
  <2>1. CASE g \in old
    BY <1>3, <2>1
  <2>2. CASE g \notin old
    BY <1>3, <2>2 DEF FRESH_CURSOR
  <2> QED BY <2>1, <2>2
<1>b. ASSUME NEW g \in Log, NEW n, NEW e
      PROVE  <<g, n, e>> \in rows => g \in old /\ n = 1 /\ e = 1
  BY <1>1
<1>c. \A g \in old : <<g, 1, 1>> \in rows
  BY <1>1
<1>4. TypeOK
  <2>1. \A g \in Log : file[g].size \in Offset
    BY <1>2 DEF File
  <2>2. FRESH_CURSOR \in Cursor /\ 0 \in Offset
    BY DEF FRESH_CURSOR, Cursor, Offset
  <2>3. \A g \in Log : [offset |-> 1, ino |-> None, gen |-> 1] \in Cursor /\ 1 \in Offset
    BY <1>2, <2>1 DEF Cursor
  <2>4. cursor \in [Log -> Cursor]
    BY <1>1, <2>2, <2>3
  <2>5. rows \subseteq Line
    BY <1>1, <2>3 DEF Line
  <2>6. Idle \in Local
    BY <2>2 DEF Idle, Local
  <2> QED BY <1>2, <2>4, <2>5, <2>6 DEF TypeOK
<1>5. LinesExist
  <2> SUFFICES ASSUME NEW g \in Log
               PROVE  /\ \A e \in file[g].ends : 0 < e /\ e <= file[g].size
                      /\ \A n \in 1..MaxGen, e \in Offset : <<g, n, e>> \in rows \cup garbled =>
                           n <= file[g].gen /\ (n = file[g].gen => e \in file[g].ends)
    BY DEF LinesExist
  <2>1. file[g].gen = 1 /\ file[g].size = 1 /\ file[g].ends = {1} /\ garbled = {}
    BY <1>2
  <2> QED BY <1>b, <2>1
<1>6. CursorsFit
  <2> SUFFICES ASSUME NEW g \in Log
               PROVE  Fits(cursor[g], file[g]) /\ ~Twin(cursor[g], file[g])
    BY DEF CursorsFit
  <2>1. file[g].gen = 1 /\ file[g].size = 1
    BY <1>2
  <2> QED BY <1>a, <2>1 DEF Fits, Twin
<1>7. BatchIsSound
  BY <1>2 DEF BatchIsSound
<1>8. CursorIsSound
  BY <1>2, <1>a, <1>c DEF CursorIsSound, Settled
<1>9. NoHoles
  <2>1. \A g \in Log : \A d, e \in file[g].ends : d = 1 /\ e = 1
    BY <1>2
  <2> QED BY <2>1 DEF NoHoles
<1>10. RowsAreBehind
  <2> SUFFICES ASSUME NEW g \in Log, NEW e \in Offset, <<g, file[g].gen, e>> \in rows
               PROVE  cursor[g].gen = file[g].gen /\ e <= cursor[g].offset
    BY DEF RowsAreBehind
  <2>1. g \in old /\ e = 1 /\ file[g].gen = 1
    BY <1>2, <1>b
  <2> QED BY <1>a, <2>1
<1>11. BatchIsNew /\ OnceUnlessTroubled
  BY <1>2 DEF BatchIsNew, OnceUnlessTroubled
<1> QED BY <1>4, <1>5, <1>6, <1>7, <1>8, <1>9, <1>10, <1>11 DEF IInv

\* The invariant is inductive: it holds in every reachable state.
THEOREM Inductive == Spec => []IInv
<1>1. Init => IInv
  BY InitIInv
<1>2. IInv /\ [Next]_vars => IInv'
  <2> SUFFICES ASSUME IInv, [Next]_vars PROVE IInv'
    OBVIOUS
  <2>0. /\ TypeOK /\ LinesExist /\ CursorsFit /\ BatchIsSound /\ CursorIsSound
        /\ NoHoles /\ RowsAreBehind /\ BatchIsNew /\ OnceUnlessTroubled
    BY DEF IInv
  <2>1. Forms
    BY <2>0, StepForms
  <2>2. TypeOK'
    BY <2>0, <2>1, StepType
  <2>3. LinesExist'
    BY <2>0, <2>1, StepLinesExist
  <2>4. CursorsFit'
    BY <2>0, <2>1, StepCursorsFit
  <2>5. BatchIsSound'
    BY <2>0, <2>1, StepBatch
  <2>6. CursorIsSound'
    BY <2>0, <2>1, StepCursorSound
  <2>7. NoHoles'
    BY <2>0, <2>1, StepNoHoles
  <2>8. RowsAreBehind'
    BY <2>0, <2>1, StepRowsBehind
  <2>9. BatchIsNew'
    BY <2>0, <2>1, StepBatchNew
  <2>10. OnceUnlessTroubled'
    BY <2>0, <2>1, StepOnce
  <2> QED BY <2>2, <2>3, <2>4, <2>5, <2>6, <2>7, <2>8, <2>9, <2>10 DEF IInv
<1> QED BY <1>1, <1>2, PTL DEF Spec

\* The state of the logs, the cursors and the process has its type.
THEOREM TypeCorrect == Spec => []TypeOK
<1>1. IInv => TypeOK
  BY DEF IInv
<1> QED BY <1>1, Inductive, PTL

\* readNewLines, tickOnce and writeCursor together pass over no line and cut
\* none in two, over rotations, torn cursors and failed batches.
THEOREM CursorsAreSound == Spec => []CursorIsSound
<1>1. IInv => CursorIsSound
  BY DEF IInv
<1> QED BY <1>1, Inductive, PTL

\* funnel_access_log never misses a request before one that it shows.
THEOREM EvidenceHasNoHoles == Spec => []NoHoles
<1>1. IInv => NoHoles
  BY DEF IInv
<1> QED BY <1>1, Inductive, PTL

\* Without failures no line is inserted twice, over all rotations.
THEOREM RowsAreSingle == Spec => []OnceUnlessTroubled
<1>1. IInv => OnceUnlessTroubled
  BY DEF IInv
<1> QED BY <1>1, Inductive, PTL
=============================================================================
