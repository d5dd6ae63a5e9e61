--------------------------- MODULE SessionFields ---------------------------
(***************************************************************************)
(* What a parsed session document becomes: every field is read by one      *)
(* strict reader, timestamps are brought to UTC days, and the text that    *)
(* decides whether to embed again is joined.  A value is a record of its   *)
(* TOML type and n: which one of that type, 0 where it is blank.           *)
(***************************************************************************)
EXTENDS Integers, Sequences, FiniteSets

CONSTANT MaxSafe   \* the largest integer a JavaScript number holds exactly

ASSUME NumberAssumption == MaxSafe \in Nat /\ MaxSafe % 4 = 3

Value(type, n) == [type |-> type, n |-> n]
Absent == Value("absent", 0)
Refused == Value("refused", 0)

-----------------------------------------------------------------------------
(* Numbers and fields. *)

\* The double nearest to n, up to twice the exact range: even numbers, ties to a multiple of four.
JsNumber(n) == IF n <= MaxSafe \/ n % 2 = 0 THEN n ELSE IF n % 4 = 1 THEN n - 1 ELSE n + 1

ToPositiveInt(v) ==
  IF v.type \in {"integer", "digits"} /\ JsNumber(v.n) \in 1..MaxSafe
  THEN Value("integer", JsNumber(v.n)) ELSE Refused

ToStr(v) == IF v.type \in {"string", "padded", "digits"} THEN v ELSE Refused

\* A scope id is trimmed and not empty.
ToScopeId(v) == IF v.type \in {"string", "padded", "digits"} /\ v.n > 0 THEN Value("string", v.n) ELSE Refused

\* status and visibility: an exact word of the enumeration.
ToWord(v, count) == IF v.type = "string" /\ v.n \in 1..count THEN v ELSE Refused

ToStringArray(v) == IF v.type = "strings" THEN v ELSE Refused

Reader(key, v) ==
  CASE key = "id"                             -> ToPositiveInt(v)
    [] key \in {"title", "goal"}              -> ToStr(v)
    [] key \in {"workspace_id", "project_id"} -> ToScopeId(v)
    [] key = "status"                         -> ToWord(v, 5)
    [] key = "visibility"                     -> ToWord(v, 3)
    [] key = "tags"                           -> ToStringArray(v)

SessionKey == {"id", "title", "goal", "workspace_id", "project_id", "status", "visibility", "tags"}

\* A document without artifacts, as a function from the keys it assigns; Refused is an exception.
ReadField(doc, key) == IF key \in DOMAIN doc THEN Reader(key, doc[key]) ELSE Absent

DocumentRefused(doc) ==
  \/ DOMAIN doc \ SessionKey # {}
  \/ ReadField(doc, "title").n = 0 \/ ReadField(doc, "title").type = "absent"
  \/ \E key \in DOMAIN doc \cap SessionKey : ReadField(doc, key) = Refused

ParsedSession(doc) == [key \in SessionKey |-> ReadField(doc, key)]

-----------------------------------------------------------------------------
(* Artifacts: the value of that key, an array whose entries are functions  *)
(* from the keys they assign.                                              *)

ArtifactKey == {"kind", "title", "detail"}

ArtifactRefused(a) ==
  \/ DOMAIN a \ ArtifactKey # {}
  \/ \E key \in DOMAIN a : ToStr(a[key]) = Refused
  \/ \E key \in {"kind", "title"} : key \notin DOMAIN a \/ a[key].n = 0

ParsedArtifacts(entries) ==
  [i \in 1..Len(entries) |->
     [position |-> i - 1,
      fields |-> [key \in ArtifactKey |-> IF key \in DOMAIN entries[i] THEN entries[i][key] ELSE Absent]]]

-----------------------------------------------------------------------------
(* Timestamps: a civil date, minutes since midnight, and minutes east of   *)
(* Greenwich.                                                              *)

Leap(year) == year % 4 = 0 /\ (year % 100 # 0 \/ year % 400 = 0)

DaysIn(year, month) ==
  IF month = 2 THEN IF Leap(year) THEN 29 ELSE 28 ELSE IF month \in {4, 6, 9, 11} THEN 30 ELSE 31

Years == 1..9999
MinutesOfDay == 0..1439
Offsets == -959..959

ValidCalendarDate(d) ==
  d.year \in Years /\ d.month \in 1..12 /\ d.day >= 1 /\ d.day <= DaysIn(d.year, d.month)

DayAfter(d) ==
  IF d.day < DaysIn(d.year, d.month) THEN [d EXCEPT !.day = @ + 1]
  ELSE IF d.month < 12 THEN [d EXCEPT !.day = 1, !.month = @ + 1]
  ELSE [year |-> d.year + 1, month |-> 1, day |-> 1]

DayBefore(d) ==
  IF d.day > 1 THEN [d EXCEPT !.day = @ - 1]
  ELSE IF d.month > 1 THEN [d EXCEPT !.month = @ - 1, !.day = DaysIn(d.year, d.month - 1)]
  ELSE [year |-> d.year - 1, month |-> 12, day |-> 31]

\* Date.toISOString().slice(0, 10) of the instant.
UtcDate(t) ==
  CASE t.minute - t.offset < 0     -> DayBefore(t.date)
    [] t.minute - t.offset >= 1440 -> DayAfter(t.date)
    [] OTHER                       -> t.date

\* normalizeSessionTimestamp and then toDateOrNull.
TimestampRefused(t) ==
  \/ ~ValidCalendarDate(t.date)
  \/ t.minute \notin MinutesOfDay
  \/ t.offset \notin Offsets
  \/ UtcDate(t).year \notin Years

-----------------------------------------------------------------------------
(* The embedded text: four texts over the characters 1.., joined by NUL. *)

Nul == 0

EmbedSource(texts) ==
  LET joined[i \in 0..Len(texts)] ==
        IF i = 0 THEN <<>> ELSE joined[i - 1] \o (IF i > 1 THEN <<Nul>> ELSE <<>>) \o texts[i]
  IN  joined[Len(texts)]

-----------------------------------------------------------------------------
(* What may be expected of all this. *)

\* The value read is the value written: the same number, the same text up to the space around an id.
SameValue(read, written) ==
  read.n = written.n /\ (read.type = written.type
                         \/ (read.type = "integer" /\ written.type = "digits")
                         \/ (read.type = "string" /\ written.type \in {"padded", "digits"}))

NothingAuthoredIsLost(doc) ==
  ~DocumentRefused(doc) =>
    \A key \in DOMAIN doc : key \in SessionKey /\ SameValue(ParsedSession(doc)[key], doc[key])

ArtifactsAreKept(entries) ==
  (\A i \in DOMAIN entries : ~ArtifactRefused(entries[i])) =>
    \A i \in DOMAIN entries :
       /\ ParsedArtifacts(entries)[i].position = i - 1
       /\ \A key \in DOMAIN entries[i] :
            key \in ArtifactKey /\ ParsedArtifacts(entries)[i].fields[key] = entries[i][key]

\* Days since 1 January of year 1, counted from the calendar alone.
DayNumber(d) ==
  LET years == d.year - 1
      months[m \in 1..12] == IF m = 1 THEN 0 ELSE months[m - 1] + DaysIn(d.year, m - 1)
  IN  years * 365 + years \div 4 - years \div 100 + years \div 400 + months[d.month] + d.day

\* A stored day is the day of the instant: no accepted timestamp moves by a day, a leap year or a century.
DaysAreKept(t) ==
  ~TimestampRefused(t) =>
    LET shift == t.minute - t.offset
    IN  /\ ValidCalendarDate(UtcDate(t))
        /\ DayNumber(UtcDate(t)) = DayNumber(t.date)
             + (IF shift < 0 THEN -1 ELSE IF shift >= 1440 THEN 1 ELSE 0)

\* Two captures have the same hash input only if their four texts are the same.
SourcesDiffer(texts, other) == EmbedSource(texts) = EmbedSource(other) => texts = other
=============================================================================
