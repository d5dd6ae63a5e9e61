-------------------------- MODULE SessionDocument --------------------------
(***************************************************************************)
(* The TOML source of a session capture, before its values are read.       *)
(*                                                                         *)
(* A TOML parser turns 2026-02-30 into a day of March before anyone can    *)
(* look at it, so the server first scans the source itself: strings and    *)
(* comments are masked and the bare timestamps left standing in the root   *)
(* table are validated.  The scan runs here beside the grammar the parser  *)
(* follows, symbol by symbol, over documents of any length.                *)
(***************************************************************************)
EXTENDS Naturals

CONSTANT MaxRun   \* the longest run of equal quotes in a document

ASSUME DocumentAssumption == MaxRun \in Nat

VARIABLES
  \* the scan
  lexer,     \* inside which string or comment it believes to be
  line,      \* what it has seen of this line
  atRoot,    \* no table header has been visible so far
  bare,      \* it has validated a timestamp
  \* the grammar
  inside,    \* the string or comment the parser is inside of
  expects,   \* what the parser expects otherwise
  root,      \* it is in the root table
  dated,     \* the timestamp assigned in the root table
  extra,     \* some string ended in more than three quotes
  verdict    \* "reading", or what becomes of the document

scan == <<lexer, line, atRoot, bare>>
grammar == <<inside, expects, root, dated, extra>>
documentVars == <<scan, grammar, verdict>>

(* A key comes with its equals sign, a timestamp with its key, a table header is whole, and equal    *)
(* quotes come as one run of n.  A backslash comes with what it precedes: a quote or a newline.       *)
Quote == {"basic", "literal"}
Date == {"date", "baddate"}
Plain == {"hash", "newline", "key", "table", "open", "comma", "close"} \cup Date
Symbol ==
  [sort : Quote, n : 1..MaxRun, slash : {FALSE}]
  \cup [sort : {"basic"}, n : 1..MaxRun, slash : {TRUE}]
  \cup [sort : Plain, n : {1}, slash : {FALSE}] \cup [sort : {"newline"}, n : {1}, slash : {TRUE}]

Multiline(q) == IF q = "basic" THEN "multiline-basic" ELSE "multiline-literal"
Strings == Quote \cup {Multiline(q) : q \in Quote}
QuoteOf(s) == CHOOSE q \in Quote : s \in {q, Multiline(q)}

\* Basic strings have escapes: the backslash takes the next character with it.
Unescaped(s, c) == IF c.slash /\ s \in {"basic", "multiline-basic"} THEN c.n - 1 ELSE c.n

-----------------------------------------------------------------------------
(* The scan. *)

LexState == Strings \cup {"normal", "comment"}

\* Where n quotes q leave a scan in s: three open or close a multi-line string, one any other.
AfterQuotes(q) ==
  LET after[n \in 0..MaxRun] ==
        [s \in LexState |->
           CASE n > 0 /\ s = "normal" /\ n < 3 -> after[n - 1][q]
             [] n > 2 /\ s = "normal"          -> after[n - 3][Multiline(q)]
             [] n > 0 /\ s = q                 -> after[n - 1]["normal"]
             [] n > 2 /\ s = Multiline(q)      -> after[n - 3]["normal"]
             [] OTHER                          -> s]
  IN  after

\* Seeded fault: a comment hides no quotes from the scan.
LexedIgnoringComments(c) ==
  IF c.sort \in Quote THEN AfterQuotes(c.sort)[Unescaped(lexer, c)][lexer]
  ELSE IF c.sort = "newline" /\ lexer \in Quote /\ Unescaped(lexer, c) > 0 THEN "normal" ELSE lexer

Lexed(c) ==
  CASE c.sort \in Quote                                  -> AfterQuotes(c.sort)[Unescaped(lexer, c)][lexer]
    [] c.sort = "hash" /\ lexer = "normal"                -> "comment"
    [] c.sort = "newline" /\ lexer \in {"comment", "basic", "literal"} /\ Unescaped(lexer, c) > 0 -> "normal"
    [] OTHER                                             -> lexer

Visible(c) == lexer = "normal" /\ c.sort \notin Quote \cup {"hash", "newline"}

EmptyLine == [source |-> TRUE, masked |-> TRUE, header |-> FALSE, date |-> "none"]

\* A line is a table header if its first visible character is a bracket.  It assigns a timestamp if
\* the source before the equals sign is the field's name; anything visible after the value spoils it.
SeenLine(c) ==
  IF c.sort = "newline" THEN EmptyLine
  ELSE [source |-> FALSE,
        masked |-> line.masked /\ ~Visible(c),
        header |-> line.header \/ (Visible(c) /\ line.masked /\ c.sort \in {"table", "open"}),
        date   |-> IF line.date # "none" THEN IF Visible(c) THEN "baddate" ELSE line.date
                   ELSE IF Visible(c) /\ line.source /\ c.sort \in Date THEN c.sort ELSE "none"]

ValidatesLine == atRoot /\ ~line.header /\ line.date # "none"
LineRefused == ValidatesLine /\ line.date = "baddate"

EndLine ==
  /\ atRoot' = (atRoot /\ ~line.header)
  /\ bare' = (bare \/ (ValidatesLine /\ ~LineRefused))

Scan(c) ==
  /\ lexer' = Lexed(c)
  /\ line' = SeenLine(c)
  /\ IF c.sort = "newline" THEN EndLine ELSE UNCHANGED <<atRoot, bare>>

-----------------------------------------------------------------------------
(* The grammar of the parser.  The values of a session are strings and     *)
(* arrays of strings: nested arrays and other values it refuses later.     *)

EndValue ==
  /\ inside' = "none"
  /\ expects' = IF expects = "value" THEN "done" ELSE "comma"
  /\ UNCHANGED <<root, dated>>

Enter(s) == inside' = s /\ UNCHANGED <<expects, root, dated, extra>>

\* A multi-line string may end in four quotes: the first of them belongs to it.
InString(c) ==
  LET quotes == IF c.sort = QuoteOf(inside) THEN Unescaped(inside, c) ELSE 0
      least == IF inside \in Quote THEN 1 ELSE 3
      most == IF inside \in Quote THEN 1 ELSE 4
  IN  \/ quotes < least /\ (c.sort = "newline" => inside \notin Quote) /\ UNCHANGED grammar
      \/ quotes \in least..most /\ EndValue /\ extra' = (extra \/ quotes = 4)

OpenString(c) ==
  /\ expects \in {"value", "element"} /\ c.sort \in Quote /\ ~c.slash
  /\ \/ c.n = 1 /\ Enter(c.sort)
     \/ c.n \in 3..5 /\ Enter(Multiline(c.sort))
     \/ c.n \in {2, 6, 7} /\ EndValue /\ extra' = (extra \/ c.n = 7)

InComment(c) == c.sort # "newline" /\ UNCHANGED grammar

\* A key is assigned once; the root table does not come back after a header.
Statement(c) ==
  /\ expects = "line" /\ c.sort \in {"key", "table"} \cup (IF root /\ dated = "none" THEN Date ELSE {})
  /\ expects' = IF c.sort = "key" THEN "value" ELSE "done"
  /\ root' = (root /\ c.sort # "table")
  /\ dated' = IF c.sort \in Date THEN c.sort ELSE dated
  /\ UNCHANGED <<inside, extra>>

Array(c) ==
  \/ expects = "value" /\ c.sort = "open" /\ expects' = "element" /\ UNCHANGED <<inside, root, dated, extra>>
  \/ expects = "comma" /\ c.sort = "comma" /\ expects' = "element" /\ UNCHANGED <<inside, root, dated, extra>>
  \/ /\ expects \in {"element", "comma"} /\ c.sort = "close" /\ expects' = "done"
     /\ UNCHANGED <<inside, root, dated, extra>>

NewLine(c) ==
  /\ c.sort = "newline" /\ (c.slash => inside = "comment") /\ expects # "value"
  /\ inside' = "none"
  /\ expects' = IF expects = "done" THEN "line" ELSE expects
  /\ UNCHANGED <<root, dated, extra>>

\* The parser takes c.
Accept(c) ==
  \/ inside \in Strings /\ InString(c)
  \/ inside = "comment" /\ (InComment(c) \/ NewLine(c))
  \/ /\ inside = "none"
     /\ \/ OpenString(c) \/ Statement(c) \/ Array(c) \/ NewLine(c)
        \/ c.sort = "hash" /\ expects # "value" /\ Enter("comment")

-----------------------------------------------------------------------------

ScanInit ==
  /\ lexer = "normal" /\ line = EmptyLine /\ atRoot = TRUE /\ bare = FALSE
  /\ inside = "none" /\ expects = "line" /\ root = TRUE /\ dated = "none" /\ extra = FALSE
  /\ verdict = "reading"

Read(c) ==
  /\ verdict = "reading" /\ Accept(c) /\ Scan(c)
  /\ verdict' = IF c.sort = "newline" /\ LineRefused THEN "refused" ELSE "reading"

\* The last line is validated; then a date the parser made of a bare literal is stored only if the
\* scan has validated a literal for that field.
Finish ==
  /\ verdict = "reading" /\ inside \notin Strings /\ expects \in {"line", "done"}
  /\ EndLine
  /\ verdict' = IF LineRefused \/ (dated # "none" /\ ~bare') THEN "refused" ELSE "stored"
  /\ UNCHANGED <<lexer, line, grammar>>

ScanDocument == Finish \/ \E c \in Symbol : Read(c)

DocumentSpec == ScanInit /\ [][ScanDocument]_documentVars

\* A document is stored exactly if the timestamp in its root table is a date of the calendar
\* (session_toml.ts:271-278: bare literals are validated before the parser normalises them), as long as
\* no string of it ends in more than three quotes.
CalendarDatesOnly ==
  verdict # "reading" /\ ~extra => (verdict = "stored" <=> dated # "baddate")

\* The same promise without that condition, as the comment makes it; the scan breaks it.
StoredDatesAreReal == verdict = "stored" => dated # "baddate"
=============================================================================
