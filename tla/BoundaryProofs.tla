--------------------------- MODULE BoundaryProofs ---------------------------
(***************************************************************************)
(* What the edges of the server promise, for every input: the scan of a    *)
(* session document stays in step with the parser over documents of any    *)
(* length, no field or day of it is changed on the way in, a setting means *)
(* what it says, an answer that is late or broken is not used, the two     *)
(* transports agree on every call, a search finds what the lists show, in  *)
(* the order of its legs, and an answer too large is cut where it must be. *)
(***************************************************************************)
EXTENDS MCBoundary, TLAPS, FiniteSetTheorems, SequenceTheorems, WellFoundedInduction

-----------------------------------------------------------------------------
(* The scan of a document.                                                 *)

\* One step of the scan over n equal quotes, the rest by f.
QuoteStep(f, q, n, s) ==
  CASE n > 0 /\ s = "normal" /\ n < 3 -> f[n - 1][q]
    [] n > 2 /\ s = "normal"          -> f[n - 3][Multiline(q)]
    [] n > 0 /\ s = q                 -> f[n - 1]["normal"]
    [] n > 2 /\ s = Multiline(q)      -> f[n - 3]["normal"]
    [] OTHER                          -> s

\* Where the recursion ends: six quotes open and close a multi-line string, and two an empty one.
FromNormal(q, n) == IF n % 6 \in {0, 2} THEN "normal" ELSE IF n % 6 = 1 THEN q ELSE Multiline(q)
LeftIn(q, n, s) ==
  IF s = "normal" THEN FromNormal(q, n)
  ELSE IF s = q /\ n > 0 THEN FromNormal(q, n - 1)
  ELSE IF s = Multiline(q) /\ n > 2 THEN FromNormal(q, n - 3)
  ELSE s

\* The recursion of AfterQuotes has a solution, and so is what it says it is.
LEMMA QuotesStepByStep ==
  ASSUME NEW q \in Quote
  PROVE  \A n \in 0..MaxRun, s \in LexState :
           AfterQuotes(q)[n][s] = QuoteStep(AfterQuotes(q), q, n, s)
<1> DEFINE G == [n \in 0..MaxRun |-> [s \in LexState |-> LeftIn(q, n, s)]]
           F(f) == [n \in 0..MaxRun |-> [s \in LexState |-> QuoteStep(f, q, n, s)]]
<1>1. \A n \in 0..MaxRun, s \in LexState : G[n][s] = LeftIn(q, n, s)
  OBVIOUS
<1>2. /\ {q, Multiline(q), "normal"} \subseteq LexState
      /\ q # "normal" /\ Multiline(q) # "normal" /\ Multiline(q) # q
  BY DEF LexState, Strings, Quote, Multiline
<1>3. \A n \in 0..MaxRun, s \in LexState : LeftIn(q, n, s) = QuoteStep(G, q, n, s)
  <2> TAKE n \in 0..MaxRun, s \in LexState
  <2> HIDE DEF G
  <2> QED BY <1>1, <1>2, DocumentAssumption, SMTT(30) DEF LeftIn, FromNormal, QuoteStep
<1>4. G = F(G)
  BY <1>3
<1>5. AfterQuotes(q) = CHOOSE f : f = F(f)
  BY DEF AfterQuotes, QuoteStep
<1>6. \A f : f = F(f) => \A n \in 0..MaxRun, s \in LexState : f[n][s] = QuoteStep(f, q, n, s)
  <2> TAKE f
  <2> HAVE f = F(f)
  <2> TAKE n \in 0..MaxRun, s \in LexState
  <2>1. F(f)[n][s] = QuoteStep(f, q, n, s)
    OBVIOUS
  <2> HIDE DEF F
  <2> QED BY <2>1
<1>7. AfterQuotes(q) = F(AfterQuotes(q))
  <2> HIDE DEF F, G
  <2> QED BY <1>4, <1>5
<1> QED
  <2> HIDE DEF F, G
  <2> QED BY <1>6, <1>7

\* The runs of quotes that the grammar takes, outside and inside the strings of that quote.
LEMMA QuotesRead ==
  ASSUME NEW q \in Quote, NEW n \in 0..MaxRun
  PROVE  LET after == AfterQuotes(q)[n]
         IN  /\ \A s \in LexState \ {"normal", q, Multiline(q)} : after[s] = s
             /\ n = 0 => after["normal"] = "normal" /\ after[q] = q
             /\ n < 3 => after[Multiline(q)] = Multiline(q)
             /\ n = 1 => after["normal"] = q /\ after[q] = "normal"
             /\ n \in {2, 6} => after["normal"] = "normal"
             /\ n \in 3..5 => after["normal"] = Multiline(q)
             /\ n = 3 => after[Multiline(q)] = "normal"
<1> DEFINE after(m) == AfterQuotes(q)[m]
           m == Multiline(q)
<1>1. /\ {q, m, "normal"} \subseteq LexState
      /\ q # "normal" /\ m # "normal" /\ m # q
  BY DEF LexState, Strings, Quote, Multiline
<1>2. \A k \in 0..MaxRun, s \in LexState :
        after(k)[s] = CASE k > 0 /\ s = "normal" /\ k < 3 -> after(k - 1)[q]
                        [] k > 2 /\ s = "normal"          -> after(k - 3)[m]
                        [] k > 0 /\ s = q                 -> after(k - 1)["normal"]
                        [] k > 2 /\ s = m                 -> after(k - 3)["normal"]
                        [] OTHER                          -> s
  BY QuotesStepByStep DEF QuoteStep
<1> HIDE DEF after, m
<1>3. \A k \in 0..n : k \in 0..MaxRun
  BY DocumentAssumption
<1>4. /\ \A s \in LexState \ {"normal", q, m} : after(n)[s] = s
      /\ \A s \in LexState : after(0)[s] = s
  BY <1>1, <1>2, <1>3
<1>5. \A k \in 0..n : k < 3 => after(k)[m] = m
  BY <1>1, <1>2, <1>3
<1>6. 1 \in 0..n => after(1)["normal"] = q /\ after(1)[q] = "normal"
  BY <1>1, <1>2, <1>3, <1>4
<1>7. 2 \in 0..n => after(2)["normal"] = "normal"
  BY <1>1, <1>2, <1>3, <1>6
<1>8. \A k \in 0..n : k \in 3..5 => after(k)["normal"] = m
  BY <1>1, <1>2, <1>3, <1>5
<1>9. 3 \in 0..n => after(3)[m] = "normal"
  BY <1>1, <1>2, <1>3, <1>4
<1>10. n = 6 => after(6)["normal"] = "normal"
  BY <1>1, <1>2, <1>3, <1>9
<1>11. /\ n = 0 => 0 \in 0..n
       /\ n = 1 => 1 \in 0..n
       /\ n = 2 => 2 \in 0..n
       /\ n = 3 => 3 \in 0..n
       /\ n \in 0..n
  OBVIOUS
<1> QED
  BY <1>1, <1>4, <1>5, <1>6, <1>7, <1>8, <1>9, <1>10, <1>11 DEF after, m

\* While a document is read the scan believes to be where the parser is; a line that begins a statement
\* is blank so far; and a timestamp of the root table is either on this line, alone, or validated.
DocumentTypeOK ==
  /\ inside \in Strings \cup {"none", "comment"}
  /\ line \in [source : BOOLEAN, masked : BOOLEAN, header : BOOLEAN, date : Date \cup {"none"}]
  /\ atRoot \in BOOLEAN /\ bare \in BOOLEAN /\ root \in BOOLEAN /\ extra \in BOOLEAN
  /\ expects \in {"line", "value", "element", "comma", "done"}
  /\ dated \in Date \cup {"none"}
  /\ verdict \in {"reading", "refused", "stored"}

LexerFollows == lexer = IF inside = "none" THEN "normal" ELSE inside

LineFollows ==
  /\ inside \in Strings => expects \in {"value", "element"}
  /\ expects = "line" => ~line.header /\ line.date = "none"
  /\ expects = "line" /\ inside = "none" => line = EmptyLine
  /\ expects = "value" /\ inside = "none" => ~line.masked
  /\ line.header => expects = "done"
  /\ root <=> atRoot /\ ~line.header

DateFollows ==
  /\ line.date # "none" => expects = "done" /\ line.date = dated /\ ~bare /\ root
  /\ line.date = "none" => IF bare THEN dated = "date" ELSE dated = "none"

DocumentInv ==
  /\ DocumentTypeOK
  /\ verdict = "reading" /\ ~extra => LexerFollows /\ LineFollows /\ DateFollows
  /\ CalendarDatesOnly

LEMMA SymbolFacts ==
  ASSUME NEW c \in Symbol
  PROVE  /\ c.sort \in Quote \cup Plain /\ c.n \in Nat /\ c.n > 0 /\ c.slash \in BOOLEAN
         /\ c.sort \in Quote => c.n \in 1..MaxRun
         /\ c.sort \notin Quote => c.n = 1
         /\ c.slash = TRUE => c.sort \in {"basic", "newline"}
<1>1. CASE c \in [sort : Quote, n : 1..MaxRun, slash : {FALSE}] \cup [sort : {"basic"}, n : 1..MaxRun, slash : {TRUE}]
  <2>1. c.sort \in Quote /\ c.n \in 1..MaxRun /\ (c.slash = FALSE \/ (c.slash = TRUE /\ c.sort = "basic"))
    BY <1>1 DEF Quote
  <2>2. c.n \in Nat /\ c.n > 0
    BY <2>1, DocumentAssumption
  <2> QED BY <2>1, <2>2
<1>2. CASE c \in [sort : Plain, n : {1}, slash : {FALSE}] \cup [sort : {"newline"}, n : {1}, slash : {TRUE}]
  <2>1. c.sort \in Plain /\ c.n = 1 /\ (c.slash = FALSE \/ (c.slash = TRUE /\ c.sort = "newline"))
    BY <1>2 DEF Plain
  <2>2. c.sort \notin Quote
    BY <2>1 DEF Plain, Quote, Date
  <2>3. c.n \in Nat /\ c.n > 0
    BY <2>1
  <2> QED BY <2>1, <2>2, <2>3
<1> QED BY <1>1, <1>2 DEF Symbol

LEMMA StringFacts ==
  /\ \A q \in Quote : QuoteOf(q) = q /\ QuoteOf(Multiline(q)) = q
  /\ \A s \in Strings : s \in Quote \/ (s = Multiline(QuoteOf(s)) /\ s \notin Quote)
  /\ \A s \in Strings : QuoteOf(s) \in Quote
  /\ \A s \in Strings, q \in Quote : q # QuoteOf(s) => s \in LexState \ {"normal", q, Multiline(q)}
  /\ "comment" \in LexState /\ "comment" \notin Strings
  /\ "none" \notin Strings /\ "normal" \notin Strings
BY DEF Strings, QuoteOf, Quote, Multiline, LexState

LEMMA UnescapedFacts ==
  ASSUME NEW c \in Symbol, NEW s
  PROVE  /\ Unescaped(s, c) \in Nat
         /\ c.sort \in Quote => Unescaped(s, c) \in 0..MaxRun
         /\ ~c.slash => Unescaped(s, c) = c.n
         /\ s \in {"comment", "normal"} => Unescaped(s, c) = c.n
<1>1. /\ Unescaped(s, c) = c.n \/ Unescaped(s, c) = c.n - 1
      /\ ~c.slash => Unescaped(s, c) = c.n
      /\ s \in {"comment", "normal"} => Unescaped(s, c) = c.n
  BY DEF Unescaped
<1>2. c.n \in Nat /\ c.n > 0 /\ (c.sort \in Quote => c.n \in 1..MaxRun)
  BY SymbolFacts
<1>3. /\ Unescaped(s, c) \in Nat
      /\ c.sort \in Quote => Unescaped(s, c) \in 0..MaxRun
  <2>1. \A u : u = c.n \/ u = c.n - 1 => u \in Nat /\ (c.sort \in Quote => u \in 0..MaxRun)
    BY <1>2, DocumentAssumption
  <2> QED BY <1>1, <2>1
<1> QED BY <1>1, <1>3

LEMMA LexedQuotes ==
  ASSUME NEW c, c.sort \in Quote
  PROVE  Lexed(c) = AfterQuotes(c.sort)[Unescaped(lexer, c)][lexer]
<1> DEFINE a == AfterQuotes(c.sort)[Unescaped(lexer, c)][lexer]
<1>1. Lexed(c) = CASE c.sort \in Quote -> a
                   [] c.sort = "hash" /\ lexer = "normal" -> "comment"
                   [] c.sort = "newline" /\ lexer \in {"comment", "basic", "literal"} /\ Unescaped(lexer, c) > 0 -> "normal"
                   [] OTHER -> lexer
  BY DEF Lexed
<1> HIDE DEF a
<1>2. Lexed(c) = a
  BY <1>1 DEF Quote
<1> QED BY <1>2 DEF a

LEMMA LexerInString ==
  ASSUME NEW c \in Symbol, inside \in Strings, lexer = inside, InString(c), ~extra'
  PROVE  Lexed(c) = IF inside' = "none" THEN "normal" ELSE inside'
<1> DEFINE u == Unescaped(inside, c)
<1>1. CASE c.sort \notin Quote
  <2>1. Lexed(c) = inside
    BY <1>1, StringFacts DEF Lexed, InString, Quote
  <2>2. UNCHANGED inside
    BY <1>1, StringFacts DEF InString, grammar
  <2> QED BY <2>1, <2>2, StringFacts
<1>2. CASE c.sort \in Quote /\ c.sort # QuoteOf(inside)
  <2>1. UNCHANGED inside
    BY <1>2, StringFacts DEF InString, grammar
  <2>2. u \in 0..MaxRun
    BY <1>2, UnescapedFacts
  <2>3. AfterQuotes(c.sort)[u][inside] = inside
    BY <1>2, <2>2, QuotesRead, StringFacts
  <2>4. Lexed(c) = AfterQuotes(c.sort)[u][inside]
    BY <1>2, LexedQuotes
  <2> HIDE DEF u
  <2> QED BY <2>1, <2>3, <2>4, StringFacts
<1>3. CASE c.sort = QuoteOf(inside)
  <2>1. c.sort \in Quote /\ Lexed(c) = AfterQuotes(c.sort)[u][inside] /\ u \in 0..MaxRun
    BY <1>3, StringFacts, UnescapedFacts, LexedQuotes
  <2>2. CASE inside \in Quote
    <3>1. c.sort = inside
      BY <1>3, <2>2, StringFacts
    <3>2. \/ u = 0 /\ UNCHANGED inside
          \/ u = 1 /\ inside' = "none"
      BY <1>3, <2>1, <2>2 DEF InString, EndValue, grammar
    <3> HIDE DEF u
    <3> QED BY <2>1, <2>2, <3>1, <3>2, QuotesRead, StringFacts
  <2>3. CASE inside \notin Quote
    <3>1. inside = Multiline(c.sort)
      BY <1>3, <2>3, StringFacts
    <3>2. \/ u < 3 /\ UNCHANGED inside
          \/ u = 3 /\ inside' = "none"
      <4>1. \/ u < 3 /\ UNCHANGED inside
            \/ u \in 3..4 /\ inside' = "none" /\ extra' = (extra \/ u = 4)
        BY <1>3, <2>3 DEF InString, EndValue, grammar
      <4> HIDE DEF u
      <4>2. u \in 3..4 /\ inside' = "none" /\ extra' = (extra \/ u = 4) => u # 4
        BY Zenon
      <4>3. u \in 3..4 /\ u # 4 => u = 3
        OBVIOUS
      <4> QED BY <4>1, <4>2, <4>3
    <3> HIDE DEF u
    <3> QED BY <2>1, <3>1, <3>2, QuotesRead, StringFacts
  <2> QED BY <2>2, <2>3
<1> QED BY <1>1, <1>2, <1>3

LEMMA LexerInComment ==
  ASSUME NEW c \in Symbol, inside = "comment", lexer = "comment", InComment(c) \/ NewLine(c)
  PROVE  Lexed(c) = IF inside' = "none" THEN "normal" ELSE inside'
<1>1. CASE NewLine(c)
  BY <1>1, SymbolFacts, UnescapedFacts DEF NewLine, Lexed, Quote
<1>2. CASE InComment(c)
  <2>1. c.sort # "newline" /\ UNCHANGED inside
    BY <1>2 DEF InComment, grammar
  <2>2. CASE c.sort \in Quote
    <3>1. "comment" \in LexState \ {"normal", c.sort, Multiline(c.sort)}
      BY <2>2, StringFacts DEF Quote, Multiline
    <3>2. Unescaped("comment", c) \in 0..MaxRun
      BY <2>2, UnescapedFacts
    <3> QED BY <2>1, <2>2, <3>1, <3>2, QuotesRead, LexedQuotes
  <2>3. CASE c.sort \notin Quote
    BY <2>1, <2>3 DEF Lexed
  <2> QED BY <2>2, <2>3
<1> QED BY <1>1, <1>2

LEMMA LexerOutside ==
  ASSUME NEW c \in Symbol, inside = "none", lexer = "normal", ~extra',
         OpenString(c) \/ Statement(c) \/ Array(c) \/ NewLine(c)
           \/ (c.sort = "hash" /\ expects # "value" /\ Enter("comment"))
  PROVE  Lexed(c) = IF inside' = "none" THEN "normal" ELSE inside'
<1>1. CASE OpenString(c)
  <2>1. c.sort \in Quote /\ Unescaped("normal", c) = c.n /\ c.n \in 0..MaxRun
    BY <1>1, UnescapedFacts, SymbolFacts DEF OpenString
  <2>2. Lexed(c) = AfterQuotes(c.sort)[c.n]["normal"]
    BY <2>1, LexedQuotes
  <2>3. \/ c.n = 1 /\ inside' = c.sort
        \/ c.n \in 3..5 /\ inside' = Multiline(c.sort)
        \/ c.n \in {2, 6} /\ inside' = "none"
    BY <1>1 DEF OpenString, Enter, EndValue
  <2>4. c.sort # "none" /\ Multiline(c.sort) # "none"
    BY <2>1 DEF Quote, Multiline
  <2> QED BY <2>1, <2>2, <2>3, <2>4, QuotesRead
<1>2. CASE Statement(c) \/ Array(c)
  <2>1. c.sort \notin Quote \cup {"hash", "newline"} /\ UNCHANGED inside
    BY <1>2 DEF Statement, Array, Quote, Date
  <2> QED BY <2>1 DEF Lexed
<1>3. CASE NewLine(c)
  BY <1>3 DEF NewLine, Lexed, Quote
<1>4. CASE c.sort = "hash" /\ Enter("comment")
  BY <1>4 DEF Enter, Lexed, Quote
<1> QED BY <1>1, <1>2, <1>3, <1>4

LEMMA LexerStep ==
  ASSUME NEW c \in Symbol, LexerFollows, DocumentTypeOK, Accept(c), ~extra'
  PROVE  Lexed(c) = IF inside' = "none" THEN "normal" ELSE inside'
<1>1. CASE inside \in Strings /\ InString(c)
  BY <1>1, LexerInString, StringFacts DEF LexerFollows
<1>2. CASE inside = "comment" /\ (InComment(c) \/ NewLine(c))
  BY <1>2, LexerInComment DEF LexerFollows
<1>3. CASE /\ inside = "none"
           /\ \/ OpenString(c) \/ Statement(c) \/ Array(c) \/ NewLine(c)
              \/ c.sort = "hash" /\ expects # "value" /\ Enter("comment")
  BY <1>3, LexerOutside DEF LexerFollows
<1> QED BY <1>1, <1>2, <1>3 DEF Accept

\* A string that has ended oddly stays in the document.
LEMMA ExtraStays ==
  ASSUME NEW c \in Symbol, DocumentTypeOK, Accept(c)
  PROVE  extra' \in BOOLEAN /\ (extra => extra')
BY Zenon DEF DocumentTypeOK, Accept, InString, InComment, NewLine, OpenString, Statement, Array, Enter, EndValue, grammar

LEMMA GrammarTypes ==
  ASSUME NEW c \in Symbol, DocumentTypeOK, Accept(c)
  PROVE  /\ inside' \in Strings \cup {"none", "comment"}
         /\ expects' \in {"line", "value", "element", "comma", "done"}
         /\ root' \in BOOLEAN
         /\ dated' \in Date \cup {"none"}
<1> USE DEF DocumentTypeOK
<1>1. CASE inside \in Strings /\ InString(c)
  BY <1>1 DEF InString, EndValue, grammar
<1>2. CASE InComment(c)
  BY <1>2 DEF InComment, grammar
<1>3. CASE NewLine(c)
  BY <1>3 DEF NewLine
<1>4. CASE OpenString(c)
  BY <1>4 DEF OpenString, Enter, EndValue, Strings
<1>5. CASE Statement(c)
  BY <1>5 DEF Statement, Date
<1>6. CASE Array(c)
  BY <1>6 DEF Array
<1>7. CASE Enter("comment")
  BY <1>7 DEF Enter
<1> QED BY <1>1, <1>2, <1>3, <1>4, <1>5, <1>6, <1>7 DEF Accept

LEMMA LineTypes ==
  ASSUME NEW c \in Symbol, DocumentTypeOK
  PROVE  SeenLine(c) \in [source : BOOLEAN, masked : BOOLEAN, header : BOOLEAN, date : Date \cup {"none"}]
BY DEF DocumentTypeOK, SeenLine, EmptyLine, Visible, Date

\* What a symbol that is not the end of a line adds to it.
LEMMA SeenFacts ==
  ASSUME NEW c \in Symbol, DocumentTypeOK, LexerFollows, c.sort # "newline"
  PROVE  /\ inside # "none" \/ c.sort \in Quote \cup {"hash"} =>
              /\ SeenLine(c).masked = line.masked /\ SeenLine(c).header = line.header
              /\ SeenLine(c).date = line.date
         /\ inside = "none" /\ c.sort \notin Quote \cup {"hash"} =>
              /\ SeenLine(c).masked = FALSE
              /\ SeenLine(c).header = (line.header \/ (line.masked /\ c.sort \in {"table", "open"}))
              /\ line.date = "none" =>
                   SeenLine(c).date = IF line.source /\ c.sort \in Date THEN c.sort ELSE "none"
<1>1. lexer = "normal" <=> inside = "none"
  BY StringFacts DEF LexerFollows, DocumentTypeOK
<1>2. CASE inside # "none" \/ c.sort \in Quote \cup {"hash"}
  <2>1. ~Visible(c)
    BY <1>1, <1>2 DEF Visible
  <2> QED BY <1>2, <2>1 DEF SeenLine, DocumentTypeOK
<1>3. CASE inside = "none" /\ c.sort \notin Quote \cup {"hash"}
  <2>1. Visible(c)
    BY <1>1, <1>3 DEF Visible
  <2> QED BY <1>3, <2>1 DEF SeenLine, DocumentTypeOK
<1> QED BY <1>2, <1>3

LEMMA WithinLine ==
  ASSUME NEW c \in Symbol, DocumentTypeOK, LexerFollows, LineFollows, DateFollows,
         Accept(c), Scan(c), c.sort # "newline"
  PROVE  LineFollows' /\ DateFollows'
<1> USE DEF LineFollows, DateFollows
<1>1. line' = SeenLine(c) /\ UNCHANGED <<atRoot, bare>>
  BY DEF Scan
<1>2. /\ line.header \in BOOLEAN /\ line.masked \in BOOLEAN /\ line.date \in Date \cup {"none"}
      /\ root \in BOOLEAN /\ atRoot \in BOOLEAN /\ bare \in BOOLEAN
  BY DEF DocumentTypeOK
<1>3. CASE inside \in Strings /\ InString(c)
  <2>1. line'.header = line.header /\ line'.date = line.date
    BY <1>1, <1>3, SeenFacts, StringFacts
  <2>2. \/ UNCHANGED grammar
        \/ EndValue
    BY <1>3 DEF InString
  <2>3. CASE UNCHANGED grammar
    BY <1>1, <1>2, <1>3, <2>1, <2>3, StringFacts DEF grammar
  <2>4. CASE EndValue
    BY <1>1, <1>2, <1>3, <2>1, <2>4, StringFacts DEF EndValue
  <2> QED BY <2>2, <2>3, <2>4
<1>4. CASE inside = "comment" /\ InComment(c)
  <2>1. line'.header = line.header /\ line'.date = line.date
    BY <1>1, <1>4, SeenFacts
  <2> QED BY <1>1, <1>2, <1>4, <2>1, StringFacts DEF InComment, grammar
<1>5. CASE inside = "none" /\ OpenString(c)
  <2>1. line' = SeenLine(c) /\ line'.masked = line.masked /\ line'.header = line.header /\ line'.date = line.date
    BY <1>1, <1>5, SeenFacts DEF OpenString
  <2>2. expects \in {"value", "element"} /\ UNCHANGED <<root, dated>>
    BY <1>5 DEF OpenString, Enter, EndValue
  <2>3. \/ inside' \in Strings /\ UNCHANGED expects
        \/ inside' = "none" /\ expects' \in {"done", "comma"}
    BY <1>5 DEF OpenString, Enter, EndValue, Strings
  <2> QED BY <1>1, <1>2, <1>5, <2>1, <2>2, <2>3, StringFacts
<1>6. CASE inside = "none" /\ Statement(c)
  <2>1. line = EmptyLine
    BY <1>6 DEF Statement
  <2>2. c.sort \notin Quote \cup {"hash"} /\ inside' = "none"
    BY <1>6 DEF Statement, Quote, Date
  <2>3. /\ line'.masked = FALSE
        /\ line'.header = (c.sort \in {"table", "open"})
        /\ line'.date = IF c.sort \in Date THEN c.sort ELSE "none"
    <3>1. /\ line.source = TRUE /\ line.masked = TRUE /\ line.header = FALSE /\ line.date = "none"
      BY <2>1 DEF EmptyLine
    <3>2. /\ line'.masked = FALSE
          /\ line'.header = (line.header \/ (line.masked /\ c.sort \in {"table", "open"}))
          /\ line'.date = IF line.source /\ c.sort \in Date THEN c.sort ELSE "none"
      BY <1>1, <1>6, <2>2, <3>1, SeenFacts
    <3> QED BY <3>1, <3>2
  <2>4. CASE c.sort = "key"
    BY <1>1, <1>2, <1>6, <2>1, <2>2, <2>3, <2>4, StringFacts DEF Statement, EmptyLine, Date
  <2>5. CASE c.sort = "table"
    BY <1>1, <1>2, <1>6, <2>1, <2>2, <2>3, <2>5, StringFacts, ZenonT(60) DEF Statement, EmptyLine, Date
  <2>6. CASE c.sort \in Date /\ root /\ dated = "none"
    BY <1>1, <1>2, <1>6, <2>1, <2>2, <2>3, <2>6, StringFacts, ZenonT(60) DEF Statement, EmptyLine, Date
  <2> QED BY <1>6, <2>4, <2>5, <2>6 DEF Statement
<1>7. CASE inside = "none" /\ Array(c)
  <2>1. c.sort \notin Quote \cup {"hash"} \cup Date /\ UNCHANGED <<inside, root, dated>>
    BY <1>7 DEF Array, Quote, Date
  <2>2. expects \in {"value", "element", "comma"} /\ expects' \in {"element", "done"}
    BY <1>7 DEF Array
  <2>3. line.date = "none" /\ ~line.header
    BY <2>2
  <2>4. line.masked => c.sort \notin {"table", "open"}
    BY <1>7 DEF Array
  <2>5. line'.header = FALSE /\ line'.date = "none"
    BY <1>1, <1>2, <1>7, <2>1, <2>3, <2>4, SeenFacts
  <2> QED BY <1>1, <1>2, <1>7, <2>1, <2>2, <2>3, <2>5, StringFacts
<1>8. CASE inside = "none" /\ c.sort = "hash" /\ expects # "value" /\ Enter("comment")
  <2>1. line'.header = line.header /\ line'.date = line.date
    BY <1>1, <1>8, SeenFacts
  <2> QED BY <1>1, <1>2, <1>8, <2>1, StringFacts DEF Enter
<1>9. ~NewLine(c)
  BY DEF NewLine
<1> QED BY <1>3, <1>4, <1>5, <1>6, <1>7, <1>8, <1>9 DEF Accept

LEMMA EndOfLine ==
  ASSUME NEW c \in Symbol, DocumentTypeOK, LexerFollows, LineFollows, DateFollows,
         Accept(c), Scan(c), c.sort = "newline", ~LineRefused
  PROVE  LineFollows' /\ DateFollows'
<1> USE DEF LineFollows, DateFollows
<1>1. line' = EmptyLine /\ EndLine
  BY DEF Scan, SeenLine
<1>2. /\ line.header \in BOOLEAN /\ line.date \in Date \cup {"none"}
      /\ root \in BOOLEAN /\ atRoot \in BOOLEAN /\ bare \in BOOLEAN
  BY DEF DocumentTypeOK
<1>3. CASE inside \in Strings /\ InString(c)
  <2>1. c.sort # QuoteOf(inside)
    BY <1>3, StringFacts DEF Quote
  <2>2. UNCHANGED grammar
    BY <1>3, <2>1 DEF InString
  <2> QED BY <1>1, <1>2, <1>3, <2>2, StringFacts DEF grammar, EndLine, EmptyLine, ValidatesLine
<1>4. CASE NewLine(c) /\ inside \notin Strings
  BY <1>1, <1>2, <1>4, StringFacts DEF NewLine, EndLine, EmptyLine, ValidatesLine, LineRefused, Date
<1>5. ~InComment(c) /\ ~OpenString(c) /\ ~Statement(c) /\ ~Array(c)
  BY DEF InComment, OpenString, Statement, Array, Quote, Date
<1> QED BY <1>3, <1>4, <1>5, StringFacts DEF Accept

LEMMA ReadKeeps ==
  ASSUME NEW c \in Symbol, DocumentInv, Read(c)
  PROVE  DocumentInv'
<1>1. DocumentTypeOK /\ verdict = "reading" /\ Accept(c) /\ Scan(c)
  BY DEF DocumentInv, Read
<1>2. LineRefused \in BOOLEAN /\ bare' \in BOOLEAN /\ atRoot' \in BOOLEAN
  BY <1>1 DEF DocumentTypeOK, LineRefused, Scan, EndLine, ValidatesLine
<1>3. DocumentTypeOK'
  BY <1>1, <1>2, GrammarTypes, ExtraStays, LineTypes DEF DocumentTypeOK, Scan, Read
<1>4. CASE extra'
  BY <1>3, <1>4 DEF DocumentInv, CalendarDatesOnly
<1>5. CASE ~extra'
  <2>1. ~extra
    BY <1>1, <1>5, ExtraStays
  <2>2. LexerFollows /\ LineFollows /\ DateFollows
    BY <1>1, <2>1 DEF DocumentInv
  <2>3. LexerFollows'
    BY <1>1, <1>5, <2>2, LexerStep DEF LexerFollows, Scan
  <2>4. CASE c.sort = "newline" /\ LineRefused
    <3>1. verdict' = "refused"
      BY <2>4 DEF Read
    <3>2. dated = "baddate"
      BY <2>2, <2>4 DEF LineRefused, DateFollows, ValidatesLine
    <3>3. dated' = dated
      BY <1>1, <2>4 DEF Accept, InString, EndValue, grammar, InComment, OpenString, Statement, Array, NewLine, Quote, Date
    <3> QED BY <1>3, <3>1, <3>2, <3>3 DEF DocumentInv, CalendarDatesOnly
  <2>5. CASE ~(c.sort = "newline" /\ LineRefused)
    <3>1. verdict' = "reading"
      BY <2>5 DEF Read
    <3>2. LineFollows' /\ DateFollows'
      BY <1>1, <2>2, <2>5, WithinLine, EndOfLine
    <3> QED BY <1>3, <2>3, <3>1, <3>2 DEF DocumentInv, CalendarDatesOnly
  <2> QED BY <2>4, <2>5
<1> QED BY <1>4, <1>5

LEMMA FinishKeeps ==
  ASSUME DocumentInv, Finish
  PROVE  DocumentInv'
<1>1. /\ DocumentTypeOK /\ verdict = "reading" /\ EndLine
      /\ UNCHANGED <<lexer, line, inside, expects, root, dated, extra>>
      /\ verdict' = IF LineRefused \/ (dated # "none" /\ ~bare') THEN "refused" ELSE "stored"
  BY DEF DocumentInv, Finish, grammar
<1>2. DocumentTypeOK'
  BY <1>1 DEF DocumentTypeOK, EndLine, ValidatesLine, LineRefused
<1>3. CASE extra
  BY <1>1, <1>2, <1>3 DEF DocumentInv, CalendarDatesOnly
<1>4. CASE ~extra
  <2>1. LineFollows /\ DateFollows
    BY <1>1, <1>4 DEF DocumentInv
  <2>2. CASE line.date = "none"
    <3>1. ~LineRefused /\ bare' = bare
      BY <1>1, <2>2 DEF LineRefused, ValidatesLine, EndLine, DocumentTypeOK
    <3>2. verdict' = "stored" /\ dated' # "baddate"
      BY <1>1, <2>1, <2>2, <3>1 DEF DateFollows, DocumentTypeOK
    <3> QED BY <1>1, <1>2, <3>2 DEF DocumentInv, CalendarDatesOnly
  <2>3. CASE line.date # "none"
    <3>1. ValidatesLine /\ line.date = dated
      BY <2>1, <2>3 DEF ValidatesLine, LineFollows, DateFollows
    <3>2. CASE dated = "baddate"
      BY <1>1, <1>2, <3>1, <3>2 DEF DocumentInv, CalendarDatesOnly, LineRefused
    <3>3. CASE dated # "baddate"
      <4>1. ~LineRefused /\ bare' = TRUE
        BY <1>1, <3>1, <3>3 DEF LineRefused, EndLine, DocumentTypeOK
      <4>2. verdict' = "stored" /\ dated' # "baddate"
        BY <1>1, <3>3, <4>1
      <4> QED BY <1>1, <1>2, <4>2 DEF DocumentInv, CalendarDatesOnly
    <3> QED BY <3>2, <3>3
  <2> QED BY <2>2, <2>3
<1> QED BY <1>3, <1>4

LEMMA ScanStarts ==
  ASSUME ScanInit
  PROVE  DocumentInv
<1>1. DocumentTypeOK
  BY DEF ScanInit, DocumentTypeOK, EmptyLine
<1>2. LexerFollows /\ LineFollows /\ DateFollows
  BY StringFacts DEF ScanInit, EmptyLine, LexerFollows, LineFollows, DateFollows
<1>3. CalendarDatesOnly
  BY DEF ScanInit, CalendarDatesOnly
<1> QED BY <1>1, <1>2, <1>3 DEF DocumentInv

LEMMA ScanStep == DocumentInv /\ [ScanDocument]_documentVars => DocumentInv'
<1>1. ASSUME DocumentInv, ScanDocument
      PROVE  DocumentInv'
  BY <1>1, ReadKeeps, FinishKeeps DEF ScanDocument
<1>2. ASSUME DocumentInv, UNCHANGED documentVars
      PROVE  DocumentInv'
  BY <1>2 DEF documentVars, scan, grammar, DocumentInv, DocumentTypeOK, CalendarDatesOnly, LexerFollows, LineFollows,
              DateFollows
<1> QED BY <1>1, <1>2

\* A document of any length is stored exactly if the timestamp of its root table is a date of the calendar,
\* as long as no string of it ends in more than three quotes (session_toml.ts: the bare literals are found
\* by masking strings and comments, before the parser normalises them).
THEOREM DatesAreOfTheCalendar == DocumentSpec => []CalendarDatesOnly
<1>1. DocumentInv => CalendarDatesOnly
  BY DEF DocumentInv
<1> QED
  BY <1>1, ScanStarts, ScanStep, PTL DEF DocumentSpec

-----------------------------------------------------------------------------
(* The fields of a document.                                               *)

\* A number that a double cannot hold is refused, never rounded.
LEMMA NumbersAreExact ==
  ASSUME NEW n \in Int, JsNumber(n) \in 1..MaxSafe
  PROVE  JsNumber(n) = n
BY NumberAssumption DEF JsNumber

LEMMA ReadersKeep ==
  ASSUME NEW key \in SessionKey, NEW v, v.n \in Int, Reader(key, v) # Refused
  PROVE  SameValue(Reader(key, v), v)
<1> USE DEF Reader, SameValue
<1>1. CASE key = "id"
  BY <1>1, NumbersAreExact DEF ToPositiveInt, Value
<1>2. CASE key \in {"title", "goal"}
  BY <1>2 DEF ToStr
<1>3. CASE key \in {"workspace_id", "project_id"}
  BY <1>3 DEF ToScopeId, Value
<1>4. CASE key \in {"status", "visibility"}
  BY <1>4 DEF ToWord
<1>5. CASE key = "tags"
  BY <1>5 DEF ToStringArray
<1> QED BY <1>1, <1>2, <1>3, <1>4, <1>5 DEF SessionKey

\* Whatever keys and values a document has: it is refused, or every field that it assigns is stored as
\* written (session_toml.ts: an unknown key, a value of another type or an inexact id is an error).
THEOREM FieldsAreStored ==
  ASSUME NEW doc, \A key \in DOMAIN doc : doc[key].n \in Int
  PROVE  NothingAuthoredIsLost(doc)
<1> SUFFICES ASSUME ~DocumentRefused(doc), NEW key \in DOMAIN doc
             PROVE  key \in SessionKey /\ SameValue(ParsedSession(doc)[key], doc[key])
  BY DEF NothingAuthoredIsLost
<1>1. key \in SessionKey
  BY DEF DocumentRefused
<1>2. ReadField(doc, key) = Reader(key, doc[key]) /\ ReadField(doc, key) # Refused
  BY <1>1 DEF DocumentRefused, ReadField
<1>3. SameValue(Reader(key, doc[key]), doc[key])
  BY <1>1, <1>2, ReadersKeep
<1> QED BY <1>1, <1>2, <1>3 DEF ParsedSession

\* Every entry of a list of artifacts is stored at its place with the fields it assigns, or the document
\* is refused.
THEOREM ArtifactsAreStored ==
  ASSUME NEW S, NEW entries \in Seq(S)
  PROVE  ArtifactsAreKept(entries)
BY DEF ArtifactsAreKept, ArtifactRefused, ParsedArtifacts

-----------------------------------------------------------------------------
(* Days.                                                                   *)

\* The days before a month.
MonthStart(year, m) ==
  LET feb == DaysIn(year, 2)
  IN  CASE m = 1 -> 0
        [] m = 2 -> 31
        [] m = 3 -> 31 + feb
        [] m = 4 -> 62 + feb
        [] m = 5 -> 92 + feb
        [] m = 6 -> 123 + feb
        [] m = 7 -> 153 + feb
        [] m = 8 -> 184 + feb
        [] m = 9 -> 215 + feb
        [] m = 10 -> 245 + feb
        [] m = 11 -> 276 + feb
        [] m = 12 -> 306 + feb

LEMMA FebruaryFacts ==
  ASSUME NEW year \in Int
  PROVE  DaysIn(year, 2) = 28 + IF Leap(year) THEN 1 ELSE 0
BY DEF DaysIn

LEMMA MonthStep ==
  ASSUME NEW year \in Int, NEW m \in 1..12
  PROVE  MonthStart(year, m) = IF m = 1 THEN 0 ELSE MonthStart(year, m - 1) + DaysIn(year, m - 1)
<1> DEFINE feb == DaysIn(year, 2)
<1>1. feb \in Int
  BY FebruaryFacts
<1>2. \A k \in {1, 3, 5, 7, 8, 10, 12} : DaysIn(year, k) = 31
  BY DEF DaysIn
<1>3. \A k \in {4, 6, 9, 11} : DaysIn(year, k) = 30
  BY DEF DaysIn
<1>4. m \in {1, 2, 3, 4, 5, 6, 7, 8, 9, 10, 11, 12}
  OBVIOUS
<1> QED BY <1>1, <1>2, <1>3, <1>4 DEF MonthStart

Days(d) ==
  LET years == d.year - 1
  IN  years * 365 + years \div 4 - years \div 100 + years \div 400 + MonthStart(d.year, d.month) + d.day

\* The recursion of DayNumber adds up the months.
LEMMA DayNumberAddsUp ==
  ASSUME NEW d, d.year \in Int, d.month \in 1..12, d.day \in Int
  PROVE  DayNumber(d) = Days(d)
<1> DEFINE F(f) == [m \in 1..12 |-> IF m = 1 THEN 0 ELSE f[m - 1] + DaysIn(d.year, m - 1)]
           G == [m \in 1..12 |-> MonthStart(d.year, m)]
           months == CHOOSE f : f = F(f)
<1>1. G = F(G)
  BY MonthStep
<1>2. months = F(months)
  <2> HIDE DEF F, G
  <2> QED BY <1>1
<1>3. \A f : f = F(f) => \A m \in 1..12 : f[m] = IF m = 1 THEN 0 ELSE f[m - 1] + DaysIn(d.year, m - 1)
  OBVIOUS
<1>4. \A m \in 1..12 : months[m] = IF m = 1 THEN 0 ELSE months[m - 1] + DaysIn(d.year, m - 1)
  <2> HIDE DEF F, months
  <2> QED BY <1>2, <1>3
<1>5. DayNumber(d) = LET years == d.year - 1
                     IN  years * 365 + years \div 4 - years \div 100 + years \div 400 + months[d.month] + d.day
  BY DEF DayNumber
<1>6. \A m \in 1..12 : months[m] = MonthStart(d.year, m)
  <2> HIDE DEF months
  <2> DEFINE Right(m) == months[m] = MonthStart(d.year, m)
  <2>1. Right(1)
    BY <1>4, MonthStep
  <2>2. \A m \in 2..12 : Right(m - 1) => Right(m)
    BY <1>4, MonthStep
  <2> HIDE DEF Right
  <2>3. Right(2) /\ Right(3) /\ Right(4) /\ Right(5) /\ Right(6) /\ Right(7)
    BY <2>1, <2>2
  <2>4. Right(8) /\ Right(9) /\ Right(10) /\ Right(11) /\ Right(12)
    BY <2>2, <2>3
  <2>5. \A m \in 1..12 : m \in {1, 2, 3, 4, 5, 6, 7, 8, 9, 10, 11, 12}
    OBVIOUS
  <2>6. \A m \in 1..12 : Right(m)
    BY <2>1, <2>3, <2>4, <2>5
  <2> QED BY <2>6 DEF Right
<1> QED
  <2> HIDE DEF months
  <2> QED BY <1>5, <1>6 DEF Days

\* The days of the years before year, which grow by a leap day exactly after a leap year.
YearStart(year) == (year - 1) * 365 + (year - 1) \div 4 - (year - 1) \div 100 + (year - 1) \div 400

LEMMA Quotients ==
  ASSUME NEW n \in Int
  PROVE  /\ n \div 4 = (n - 1) \div 4 + IF n % 4 = 0 THEN 1 ELSE 0
         /\ n \div 100 = (n - 1) \div 100 + IF n % 100 = 0 THEN 1 ELSE 0
         /\ n \div 400 = (n - 1) \div 400 + IF n % 400 = 0 THEN 1 ELSE 0
         /\ n % 400 = 0 => n % 100 = 0
         /\ n % 100 = 0 => n % 4 = 0
         /\ n \div 4 \in Int /\ n \div 100 \in Int /\ n \div 400 \in Int
<1>1. n \div 4 \in Int /\ n \div 100 \in Int /\ n \div 400 \in Int
  OBVIOUS
<1>2. n \div 4 = (n - 1) \div 4 + IF n % 4 = 0 THEN 1 ELSE 0
  OBVIOUS
<1>3. n \div 100 = (n - 1) \div 100 + IF n % 100 = 0 THEN 1 ELSE 0
  OBVIOUS
<1>4. n \div 400 = (n - 1) \div 400 + IF n % 400 = 0 THEN 1 ELSE 0
  OBVIOUS
<1>5. n % 400 = 0 => n % 100 = 0
  OBVIOUS
<1>6. n % 100 = 0 => n % 4 = 0
  OBVIOUS
<1> QED BY <1>1, <1>2, <1>3, <1>4, <1>5, <1>6

LEMMA YearsFollow ==
  ASSUME NEW year \in Int
  PROVE  /\ YearStart(year) \in Int
         /\ YearStart(year + 1) = YearStart(year) + 365 + IF Leap(year) THEN 1 ELSE 0
<1> DEFINE a == (year - 1) \div 4
           b == (year - 1) \div 100
           c == (year - 1) \div 400
<1>1. a \in Int /\ b \in Int /\ c \in Int
  BY Quotients
<1>2. YearStart(year) = (year - 1) * 365 + a - b + c
  BY DEF YearStart
<1>3. YearStart(year + 1) = year * 365 + year \div 4 - year \div 100 + year \div 400
  BY DEF YearStart
<1>4. year * 365 = (year - 1) * 365 + 365
  OBVIOUS
<1>5. /\ year \div 4 = a + IF year % 4 = 0 THEN 1 ELSE 0
      /\ year \div 100 = b + IF year % 100 = 0 THEN 1 ELSE 0
      /\ year \div 400 = c + IF year % 400 = 0 THEN 1 ELSE 0
      /\ year % 400 = 0 => year % 100 = 0
      /\ year % 100 = 0 => year % 4 = 0
  BY Quotients
<1> HIDE DEF a, b, c
<1>6. (year - 1) * 365 \in Int
  OBVIOUS
<1> QED BY <1>1, <1>2, <1>3, <1>4, <1>5, <1>6 DEF Leap

LEMMA YearEnds ==
  ASSUME NEW year \in Int
  PROVE  /\ MonthStart(year, 1) = 0 /\ DaysIn(year, 1) = 31 /\ DaysIn(year, 12) = 31
         /\ MonthStart(year, 12) = 334 + IF Leap(year) THEN 1 ELSE 0
BY FebruaryFacts DEF MonthStart, DaysIn

LEMMA MonthLengths ==
  ASSUME NEW year \in Int, NEW m \in 1..12
  PROVE  DaysIn(year, m) \in Int /\ DaysIn(year, m) >= 28 /\ DaysIn(year, m) <= 31 /\ MonthStart(year, m) \in Int
<1>1. DaysIn(year, m) \in Int /\ DaysIn(year, m) >= 28 /\ DaysIn(year, m) <= 31
  BY DEF DaysIn
<1>2. DaysIn(year, 2) \in Int /\ m \in {1, 2, 3, 4, 5, 6, 7, 8, 9, 10, 11, 12}
  BY DEF DaysIn
<1>3. MonthStart(year, m) \in Int
  BY <1>2 DEF MonthStart
<1> QED BY <1>1, <1>3

Dates == [year : Int, month : Int, day : Int]

LEMMA CalendarFacts ==
  /\ \A y \in Years : y \in Int
  /\ \A d : ValidCalendarDate(d) <=> /\ d.year \in Years /\ d.month \in 1..12
                                    /\ d.day >= 1 /\ d.day <= DaysIn(d.year, d.month)
  /\ \A t : ~TimestampRefused(t) => ValidCalendarDate(t.date) /\ UtcDate(t).year \in Years
<1>1. \A y \in Years : y \in Int
  BY DEF Years
<1>2. \A d : ValidCalendarDate(d) <=> /\ d.year \in Years /\ d.month \in 1..12
                                    /\ d.day >= 1 /\ d.day <= DaysIn(d.year, d.month)
  BY DEF ValidCalendarDate
<1>3. \A t : ~TimestampRefused(t) => ValidCalendarDate(t.date) /\ UtcDate(t).year \in Years
  BY DEF TimestampRefused
<1> QED BY <1>1, <1>2, <1>3

LEMMA DaysSplit ==
  ASSUME NEW d
  PROVE  Days(d) = YearStart(d.year) + MonthStart(d.year, d.month) + d.day
BY DEF Days, YearStart

LEMMA NextDay ==
  ASSUME NEW d \in Dates, ValidCalendarDate(d), DayAfter(d).year \in Years
  PROVE  ValidCalendarDate(DayAfter(d)) /\ Days(DayAfter(d)) = Days(d) + 1
<1> DEFINE e == DayAfter(d)
<1>1. /\ d.year \in Years /\ d.month \in 1..12 /\ d.day \in Int /\ d.day >= 1 /\ d.day <= DaysIn(d.year, d.month)
      /\ DaysIn(d.year, d.month) \in Int
  BY CalendarFacts, MonthLengths DEF Dates
<1>2. YearStart(d.year) \in Int /\ MonthStart(d.year, d.month) \in Int
  BY <1>1, CalendarFacts, YearsFollow, MonthLengths
<1>3. CASE d.day < DaysIn(d.year, d.month)
  <2>1. e.year = d.year /\ e.month = d.month /\ e.day = d.day + 1
    BY <1>3 DEF DayAfter, Dates
  <2> HIDE DEF e
  <2>2. ValidCalendarDate(e)
    BY CalendarFacts, <1>1, <1>3, <2>1
  <2> QED BY <1>1, <1>2, <2>1, <2>2, DaysSplit DEF e
<1>4. CASE ~(d.day < DaysIn(d.year, d.month)) /\ d.month < 12
  <2>1. e.year = d.year /\ e.month = d.month + 1 /\ e.day = 1
    BY <1>4 DEF DayAfter, Dates
  <2>2. d.day = DaysIn(d.year, d.month)
    BY CalendarFacts, <1>1, <1>4
  <2> HIDE DEF e
  <2>3. e.month \in 1..12 /\ 1 <= DaysIn(e.year, e.month)
    <3>1. e.month \in 1..12 /\ e.year \in Int
      BY CalendarFacts, <1>1, <1>4, <2>1
    <3>2. DaysIn(e.year, e.month) \in Int /\ DaysIn(e.year, e.month) >= 28
      BY <3>1, MonthLengths
    <3> QED BY <3>1, <3>2
  <2>4. MonthStart(e.year, e.month) = MonthStart(d.year, d.month) + d.day
    BY CalendarFacts, <1>1, <1>4, <2>1, <2>2, <2>3, MonthStep
  <2>5. ValidCalendarDate(e)
    BY CalendarFacts, <1>1, <2>1, <2>3
  <2> QED BY <1>1, <1>2, <2>1, <2>4, <2>5, DaysSplit DEF e
<1>5. CASE ~(d.day < DaysIn(d.year, d.month)) /\ ~(d.month < 12)
  <2>1. e.year = d.year + 1 /\ e.month = 1 /\ e.day = 1 /\ d.month = 12
    BY CalendarFacts, <1>1, <1>5 DEF DayAfter, Dates
  <2>2. d.day = 31
    <3>1. DaysIn(d.year, d.month) = 31
      BY CalendarFacts, <1>1, <2>1, YearEnds
    <3> QED BY <1>1, <1>5, <3>1
  <2>3. YearStart(e.year) = YearStart(d.year) + 365 + IF Leap(d.year) THEN 1 ELSE 0
    BY CalendarFacts, <1>1, <2>1, YearsFollow
  <2>4. MonthStart(e.year, e.month) = 0 /\ MonthStart(d.year, d.month) = 334 + IF Leap(d.year) THEN 1 ELSE 0
    BY CalendarFacts, <1>1, <2>1, YearEnds
  <2>5. e.year \in Years
    OBVIOUS
  <2> HIDE DEF e
  <2>6. ValidCalendarDate(e)
    <3>1. 1 \in 1..12 /\ DaysIn(e.year, 1) = 31
      BY CalendarFacts, <2>5, YearEnds
    <3> QED BY CalendarFacts, <2>1, <2>5, <3>1
  <2> QED BY <1>2, <2>1, <2>2, <2>3, <2>4, <2>6, DaysSplit DEF e
<1> QED BY <1>3, <1>4, <1>5

LEMMA PreviousDay ==
  ASSUME NEW d \in Dates, ValidCalendarDate(d), DayBefore(d).year \in Years
  PROVE  ValidCalendarDate(DayBefore(d)) /\ Days(DayBefore(d)) = Days(d) - 1
<1> DEFINE e == DayBefore(d)
<1>1. /\ d.year \in Years /\ d.month \in 1..12 /\ d.day \in Int /\ d.day >= 1 /\ d.day <= DaysIn(d.year, d.month)
      /\ DaysIn(d.year, d.month) \in Int
  BY CalendarFacts, MonthLengths DEF Dates
<1>2. YearStart(d.year) \in Int /\ MonthStart(d.year, d.month) \in Int
  BY <1>1, CalendarFacts, YearsFollow, MonthLengths
<1>3. CASE d.day > 1
  <2>1. e.year = d.year /\ e.month = d.month /\ e.day = d.day - 1
    BY <1>3 DEF DayBefore, Dates
  <2> HIDE DEF e
  <2>2. ValidCalendarDate(e)
    BY CalendarFacts, <1>1, <1>3, <2>1
  <2> QED BY <1>1, <1>2, <2>1, <2>2, DaysSplit DEF e
<1>4. CASE ~(d.day > 1) /\ d.month > 1
  <2>1. e.year = d.year /\ e.month = d.month - 1 /\ e.day = DaysIn(d.year, d.month - 1) /\ d.day = 1
    BY CalendarFacts, <1>1, <1>4 DEF DayBefore, Dates
  <2> HIDE DEF e
  <2>2. /\ e.month \in 1..12 /\ e.day \in Int /\ 1 <= e.day /\ e.day <= DaysIn(e.year, e.month)
        /\ MonthStart(e.year, e.month) \in Int
    <3>1. e.month \in 1..12 /\ e.year \in Int
      BY CalendarFacts, <1>1, <1>4, <2>1
    <3>2. DaysIn(e.year, e.month) >= 28 /\ DaysIn(e.year, e.month) \in Int /\ MonthStart(e.year, e.month) \in Int
      BY <3>1, MonthLengths
    <3>3. e.day = DaysIn(e.year, e.month)
      BY <2>1
    <3> QED BY <3>1, <3>2, <3>3
  <2>3. MonthStart(d.year, d.month) = MonthStart(e.year, e.month) + e.day
    BY CalendarFacts, <1>1, <1>4, <2>1, MonthStep
  <2>4. ValidCalendarDate(e)
    BY CalendarFacts, <1>1, <2>1, <2>2
  <2> QED BY <1>1, <1>2, <2>1, <2>2, <2>3, <2>4, DaysSplit DEF e
<1>5. CASE ~(d.day > 1) /\ ~(d.month > 1)
  <2>1. e.year = d.year - 1 /\ e.month = 12 /\ e.day = 31 /\ d.month = 1 /\ d.day = 1
    BY CalendarFacts, <1>1, <1>5 DEF DayBefore, Dates
  <2>2. e.year \in Years
    OBVIOUS
  <2> HIDE DEF e
  <2>3. YearStart(d.year) = YearStart(e.year) + 365 + IF Leap(e.year) THEN 1 ELSE 0
    <3>1. d.year = e.year + 1
      BY <1>1, <2>1, CalendarFacts
    <3> QED BY CalendarFacts, <2>2, <3>1, YearsFollow
  <2>4. MonthStart(d.year, d.month) = 0 /\ MonthStart(e.year, e.month) = 334 + IF Leap(e.year) THEN 1 ELSE 0
    BY CalendarFacts, <1>1, <2>1, <2>2, YearEnds
  <2>5. ValidCalendarDate(e)
    <3>1. 12 \in 1..12 /\ DaysIn(e.year, 12) = 31
      BY CalendarFacts, <2>2, YearEnds
    <3> QED BY CalendarFacts, <2>1, <2>2, <3>1
  <2>6. YearStart(e.year) \in Int
    BY CalendarFacts, <2>2, YearsFollow
  <2> QED BY <1>2, <2>1, <2>3, <2>4, <2>5, <2>6, DaysSplit DEF e
<1> QED BY <1>3, <1>4, <1>5

\* The day stored for a timestamp is that of the instant in Greenwich, in every year, month and offset
\* (session_toml.ts and dates.ts: a timestamp is brought to UTC and cut to its date).
THEOREM StoredDaysAreTheInstants ==
  ASSUME NEW t \in [date : Dates, minute : Int, offset : Int]
  PROVE  DaysAreKept(t)
<1> DEFINE shift == t.minute - t.offset
<1> SUFFICES ASSUME ~TimestampRefused(t)
             PROVE  /\ ValidCalendarDate(UtcDate(t))
                    /\ DayNumber(UtcDate(t)) = DayNumber(t.date)
                         + (IF shift < 0 THEN -1 ELSE IF shift >= 1440 THEN 1 ELSE 0)
  BY DEF DaysAreKept
<1>1. /\ t.date \in Dates /\ ValidCalendarDate(t.date) /\ shift \in Int
      /\ UtcDate(t).year \in Years
  BY CalendarFacts
<1>2. UtcDate(t) = IF shift < 0 THEN DayBefore(t.date) ELSE IF shift >= 1440 THEN DayAfter(t.date) ELSE t.date
  BY <1>1 DEF UtcDate
<1> HIDE DEF shift
<1>3. /\ ValidCalendarDate(UtcDate(t))
      /\ Days(UtcDate(t)) = Days(t.date) + (IF shift < 0 THEN -1 ELSE IF shift >= 1440 THEN 1 ELSE 0)
  <2>1. Days(t.date) \in Int
    <3>1. t.date.year \in Int /\ t.date.month \in 1..12 /\ t.date.day \in Int
      BY <1>1, CalendarFacts DEF Dates
    <3>2. YearStart(t.date.year) \in Int /\ MonthStart(t.date.year, t.date.month) \in Int
      BY <3>1, YearsFollow, MonthLengths
    <3> QED BY <3>1, <3>2, DaysSplit
  <2>2. CASE shift < 0
    BY <1>1, <1>2, <2>1, <2>2, PreviousDay
  <2>3. CASE ~(shift < 0) /\ shift >= 1440
    BY <1>1, <1>2, <2>1, <2>3, NextDay
  <2>4. CASE ~(shift < 0) /\ ~(shift >= 1440)
    BY <1>1, <1>2, <2>1, <2>4
  <2> QED BY <2>2, <2>3, <2>4
<1>4. DayNumber(t.date) = Days(t.date)
  BY CalendarFacts, <1>1, DayNumberAddsUp DEF Dates
<1>5. DayNumber(UtcDate(t)) = Days(UtcDate(t))
  <2>1. UtcDate(t).day \in Int
    BY CalendarFacts, <1>1, <1>2, MonthLengths DEF DayBefore, DayAfter, Dates
  <2> QED BY CalendarFacts, <1>3, <2>1, DayNumberAddsUp
<1> QED BY <1>3, <1>4, <1>5

-----------------------------------------------------------------------------
(* The embedded text.                                                      *)

Char == Nat \ {Nul}

\* Concatenation, out of the provers' sight.
Cat(x, y) == x \o y

\* A text, a separator and what follows.
Separated(text, rest) == Cat(text, Cat(<<Nul>>, rest))

LEMMA SeparatedFacts ==
  ASSUME NEW a \in Seq(Char), NEW x \in Seq(Nat)
  PROVE  /\ Separated(a, x) \in Seq(Nat)
         /\ \A i \in 1..Len(a) : Separated(a, x)[i] = a[i] /\ a[i] # Nul
         /\ Separated(a, x)[Len(a) + 1] = Nul
         /\ Len(a) \in Nat
<1> DEFINE r == <<Nul>> \o x
<1>1. a \in Seq(Nat) /\ <<Nul>> \in Seq(Nat) /\ Len(<<Nul>>) = 1 /\ Len(a) \in Nat /\ Len(x) \in Nat
  <2>1. Char \subseteq Nat
    BY DEF Char
  <2>2. <<Nul>> \in Seq(Nat) /\ Len(<<Nul>>) = 1
    BY DEF Nul
  <2>3. Len(a) \in Nat /\ Len(x) \in Nat
    BY LenProperties
  <2> QED BY <2>1, <2>2, <2>3, SeqMonotonic
<1>2. r \in Seq(Nat) /\ Len(r) = 1 + Len(x) /\ r[1] = Nul
  BY <1>1, ConcatProperties
<1> HIDE DEF r
<1>3. /\ a \o r \in Seq(Nat)
      /\ \A i \in 1..(Len(a) + Len(r)) : (a \o r)[i] = IF i <= Len(a) THEN a[i] ELSE r[i - Len(a)]
  BY <1>1, <1>2, ConcatProperties
<1>4. \A i \in 1..Len(a) : (a \o r)[i] = a[i] /\ a[i] # Nul
  <2> TAKE i \in 1..Len(a)
  <2>1. a[i] \in Char
    BY ElementOfSeq
  <2>2. i \in 1..(Len(a) + Len(r)) /\ i <= Len(a)
    BY <1>1, <1>2
  <2> QED BY <1>3, <2>1, <2>2 DEF Char
<1>5. (a \o r)[Len(a) + 1] = Nul
  <2>1. Len(a) + 1 \in 1..(Len(a) + Len(r)) /\ ~(Len(a) + 1 <= Len(a)) /\ Len(a) + 1 - Len(a) = 1
    BY <1>1, <1>2
  <2> QED BY <1>2, <1>3, <2>1
<1> QED BY <1>1, <1>3, <1>4, <1>5 DEF Separated, Cat, r

\* The first separator ends the first text.
LEMMA SeparatedOnce ==
  ASSUME NEW a \in Seq(Char), NEW b \in Seq(Char), NEW x \in Seq(Nat), NEW y \in Seq(Nat),
         Separated(a, x) = Separated(b, y)
  PROVE  a = b /\ x = y
<1>1. Len(a) = Len(b)
  <2> DEFINE s == Separated(a, x)
  <2>1. /\ \A i \in 1..Len(a) : s[i] # Nul
        /\ \A i \in 1..Len(b) : s[i] # Nul
        /\ s[Len(a) + 1] = Nul /\ s[Len(b) + 1] = Nul
        /\ Len(a) \in Nat /\ Len(b) \in Nat
    <3>1. /\ \A i \in 1..Len(a) : Separated(a, x)[i] # Nul
          /\ Separated(a, x)[Len(a) + 1] = Nul /\ Len(a) \in Nat
      BY SeparatedFacts
    <3>2. /\ \A i \in 1..Len(b) : Separated(b, y)[i] # Nul
          /\ Separated(b, y)[Len(b) + 1] = Nul /\ Len(b) \in Nat
      BY SeparatedFacts
    <3> QED BY <3>1, <3>2
  <2> HIDE DEF s
  <2>2. ~(Len(a) < Len(b))
    BY <2>1
  <2>3. ~(Len(b) < Len(a))
    BY <2>1
  <2> QED BY <2>1, <2>2, <2>3
<1>2. \A i \in 1..Len(a) : a[i] = b[i]
  BY <1>1, SeparatedFacts, SMTT(30)
<1>3. a = b
  BY <1>1, <1>2, SeqEqual
<1>4. a \in Seq(Nat) /\ <<Nul>> \in Seq(Nat)
  <2>1. Char \subseteq Nat
    BY DEF Char
  <2>2. <<Nul>> \in Seq(Nat)
    BY DEF Nul
  <2> QED BY <2>1, <2>2, SeqMonotonic
<1>5. <<Nul>> \o x \in Seq(Nat) /\ <<Nul>> \o y \in Seq(Nat)
  BY <1>4, ConcatProperties
<1>6. \A u, v, w \in Seq(Nat) : u \o v = u \o w => v = w
  BY ConcatSimplifications
<1>7. <<Nul>> \o x = <<Nul>> \o y
  BY <1>3, <1>4, <1>5, <1>6 DEF Separated, Cat
<1>8. x = y
  BY <1>4, <1>6, <1>7
<1> QED BY <1>3, <1>8

LEMMA CatFacts ==
  ASSUME NEW x \in Seq(Nat), NEW y \in Seq(Nat), NEW z \in Seq(Nat)
  PROVE  Cat(x, y) \in Seq(Nat) /\ Cat(Cat(x, y), z) = Cat(x, Cat(y, z))
<1>1. (x \o y) \o z = x \o (y \o z)
  BY ConcatAssociative, SMTT(30)
<1>2. x \o y \in Seq(Nat)
  BY ConcatProperties
<1> QED BY <1>1, <1>2, Zenon DEF Cat

LEMMA Regrouped ==
  ASSUME NEW a \in Seq(Nat), NEW b \in Seq(Nat), NEW c \in Seq(Nat), NEW d \in Seq(Nat), NEW n \in Seq(Nat)
  PROVE  Cat(Cat(Cat(Cat(Cat(Cat(a, n), b), n), c), n), d) = Cat(a, Cat(n, Cat(b, Cat(n, Cat(c, Cat(n, d))))))
<1> DEFINE p == Cat(Cat(Cat(Cat(a, n), b), n), c)
           q == Cat(Cat(Cat(a, n), b), n)
           r == Cat(Cat(a, n), b)
           x == Cat(n, d)
           y == Cat(c, x)
           z == Cat(n, y)
<1>1. p = Cat(q, c) /\ q = Cat(r, n) /\ p \in Seq(Nat) /\ q \in Seq(Nat) /\ r \in Seq(Nat) /\ Cat(a, n) \in Seq(Nat)
  BY CatFacts
<1>2. x \in Seq(Nat) /\ y \in Seq(Nat) /\ z \in Seq(Nat) /\ Cat(b, z) \in Seq(Nat)
  BY CatFacts
<1>3. Cat(Cat(p, n), d) = Cat(p, x)
  BY <1>1, CatFacts
<1>4. Cat(p, x) = Cat(q, y)
  BY <1>1, <1>2, CatFacts
<1>5. Cat(q, y) = Cat(r, z)
  BY <1>1, <1>2, CatFacts
<1>6. Cat(r, z) = Cat(Cat(a, n), Cat(b, z))
  BY <1>1, <1>2, CatFacts
<1>7. Cat(Cat(a, n), Cat(b, z)) = Cat(a, Cat(n, Cat(b, z)))
  BY <1>1, <1>2, CatFacts
<1> QED BY <1>3, <1>4, <1>5, <1>6, <1>7

\* The recursion of EmbedSource separates four texts.
LEMMA SourceSeparates ==
  ASSUME NEW t \in [1..4 -> Seq(Char)]
  PROVE  /\ EmbedSource(t) = Separated(t[1], Separated(t[2], Separated(t[3], t[4])))
         /\ \A i \in 1..4 : t[i] \in Seq(Char) /\ t[i] \in Seq(Nat)
         /\ Separated(t[3], t[4]) \in Seq(Nat)
         /\ Separated(t[2], Separated(t[3], t[4])) \in Seq(Nat)
<1> DEFINE N == <<Nul>>
           one == t[1]
           two == Cat(Cat(one, N), t[2])
           three == Cat(Cat(two, N), t[3])
           four == Cat(Cat(three, N), t[4])
           G == [i \in 0..4 |-> CASE i = 0 -> <<>> [] i = 1 -> one [] i = 2 -> two [] i = 3 -> three [] i = 4 -> four]
           Longer(f, i) == Cat(Cat(f[i - 1], IF i > 1 THEN <<Nul>> ELSE <<>>), t[i])
           F(f) == [i \in 0..4 |-> IF i = 0 THEN <<>> ELSE Longer(f, i)]
           joined == CHOOSE f : f = F(f)
<1>1. \A i \in 1..4 : t[i] \in Seq(Char) /\ t[i] \in Seq(Nat)
  <2>1. Char \subseteq Nat
    BY DEF Char
  <2> QED BY <2>1, SeqMonotonic
<1>2. N \in Seq(Nat)
  BY DEF Nul
<1>3. Len(t) = 4
  OBVIOUS
<1>4. EmbedSource(t) = joined[4]
  BY <1>3 DEF EmbedSource, Cat
<1>5. G = F(G)
  <2>1. Cat(Cat(<<>>, <<>>), t[1]) = t[1]
    BY <1>1, ConcatEmptySeq, EmptySeq DEF Cat
  <2> QED BY <2>1
<1>6. joined = F(joined)
  <2> HIDE DEF F, G
  <2> QED BY <1>5
<1>7. \A f : f = F(f) =>
        /\ f[0] = <<>>
        /\ f[1] = Cat(Cat(f[0], <<>>), t[1])
        /\ f[2] = Cat(Cat(f[1], <<Nul>>), t[2])
        /\ f[3] = Cat(Cat(f[2], <<Nul>>), t[3])
        /\ f[4] = Cat(Cat(f[3], <<Nul>>), t[4])
  <2> TAKE f
  <2> HAVE f = F(f)
  <2>1. /\ Longer(f, 1) = Cat(Cat(f[0], <<>>), t[1])
        /\ Longer(f, 2) = Cat(Cat(f[1], <<Nul>>), t[2])
        /\ Longer(f, 3) = Cat(Cat(f[2], <<Nul>>), t[3])
        /\ Longer(f, 4) = Cat(Cat(f[3], <<Nul>>), t[4])
    OBVIOUS
  <2> HIDE DEF Longer
  <2>2. /\ F(f)[0] = <<>> /\ F(f)[1] = Longer(f, 1) /\ F(f)[2] = Longer(f, 2)
        /\ F(f)[3] = Longer(f, 3) /\ F(f)[4] = Longer(f, 4)
    OBVIOUS
  <2> HIDE DEF F
  <2> QED BY <2>1, <2>2
<1>8. Cat(Cat(<<>>, <<>>), t[1]) = t[1]
  BY <1>1, ConcatEmptySeq, EmptySeq DEF Cat
<1>9. joined[4] = four
  <2> HIDE DEF F, joined
  <2> QED BY <1>6, <1>7, <1>8
<1> HIDE DEF joined, F, G
<1>10. Separated(t[3], t[4]) \in Seq(Nat) /\ Separated(t[2], Separated(t[3], t[4])) \in Seq(Nat)
  BY <1>1, SeparatedFacts
<1>11. four = Separated(t[1], Separated(t[2], Separated(t[3], t[4])))
  <2> HIDE DEF N
  <2>1. t[1] \in Seq(Nat) /\ t[2] \in Seq(Nat) /\ t[3] \in Seq(Nat) /\ t[4] \in Seq(Nat)
    BY <1>1
  <2>2. four = Cat(t[1], Cat(N, Cat(t[2], Cat(N, Cat(t[3], Cat(N, t[4]))))))
    BY <1>2, <2>1, Regrouped
  <2> QED BY <2>2 DEF Separated, N
<1> QED BY <1>1, <1>4, <1>9, <1>10, <1>11

LEMMA SameTexts ==
  ASSUME NEW S, NEW f \in [1..4 -> S], NEW g \in [1..4 -> S], \A i \in 1..4 : f[i] = g[i]
  PROVE  f = g
OBVIOUS

\* Two captures have the same embedded text only if each of their four texts is the same, of whatever
\* length, for texts without a NUL of their own (embedSource joins them by one).
THEOREM SourcesAreTold ==
  ASSUME NEW t \in [1..4 -> Seq(Char)], NEW o \in [1..4 -> Seq(Char)]
  PROVE  SourcesDiffer(t, o)
<1> SUFFICES ASSUME EmbedSource(t) = EmbedSource(o)
             PROVE  t = o
  BY DEF SourcesDiffer
<1>1. t[1] = o[1] /\ Separated(t[2], Separated(t[3], t[4])) = Separated(o[2], Separated(o[3], o[4]))
  BY SourceSeparates, SeparatedOnce
<1>2. t[2] = o[2] /\ Separated(t[3], t[4]) = Separated(o[3], o[4])
  BY <1>1, SourceSeparates, SeparatedOnce
<1>3. t[3] = o[3] /\ t[4] = o[4]
  BY <1>2, SourceSeparates, SeparatedOnce
<1>4. \A i \in 1..4 : t[i] = o[i]
  <2> TAKE i \in 1..4
  <2>1. i \in {1, 2, 3, 4}
    OBVIOUS
  <2> QED BY <1>1, <1>2, <1>3, <2>1
<1> QED BY <1>4, SameTexts

-----------------------------------------------------------------------------
(* Settings.                                                               *)

\* A list without duplicates has as many members as entries.
LEMMA DistinctListsCount ==
  ASSUME NEW S, NEW list \in Seq(S), Distinct(list)
  PROVE  Cardinality(ToSet(list)) = Len(list)
<1>1. ExistsBijection(1..Len(list), ToSet(list))
  <2>1. DOMAIN list = 1..Len(list)
    OBVIOUS
  <2>2. list \in [1..Len(list) -> ToSet(list)]
    BY <2>1 DEF ToSet
  <2>3. \A i, j \in 1..Len(list) : list[i] = list[j] => i = j
    BY <2>1 DEF Distinct
  <2>4. \A s \in ToSet(list) : \E i \in 1..Len(list) : list[i] = s
    BY <2>1 DEF ToSet
  <2> QED BY <2>2, <2>3, <2>4 DEF ExistsBijection, Bijection, Injection, Surjection, IsInjective
<1>2. Len(list) \in Nat
  OBVIOUS
<1>3. IsFiniteSet(1..Len(list)) /\ Cardinality(1..Len(list)) = Len(list)
  BY <1>2, FS_Interval
<1> QED BY <1>1, <1>3, FS_Bijection

\* A server that starts has every door whose settings were given and at least one, over https alone
\* (config.ts); what it starts with can be imported, and the other way round.
THEOREM DoorsAreAsSet ==
  ASSUME NEW env, env.key \in {"blank", "short", "long"},
         NEW S, env.allowed \in Seq(S), env.services \in Seq(S)
  PROVE  DoorsMeanWhatTheySay(env)
<1> DEFINE lists == {env.allowed, env.services}
<1>1. ASSUME ~DoorsRefused(env)
      PROVE  /\ StaticDoor(env) \/ NativeDoor(env) \/ OAuthDoor(env)
             /\ env.key # "blank" => env.key = "long"
             /\ env.native # "blank" => env.native = IF NativeDoor(env) THEN "true" ELSE "false"
             /\ \A url \in TrustRoot : env.auth0[url] # "blank" => OAuthDoor(env) /\ env.auth0[url] = "https"
             /\ env.principal # "blank" => StaticDoor(env)
             /\ \A list \in lists : list # <<>> => OAuthDoor(env) /\ Cardinality(ToSet(list)) = Len(list)
  <2>1. StaticDoor(env) \/ NativeDoor(env) \/ OAuthDoor(env)
    BY <1>1 DEF DoorsRefused
  <2>2. env.key # "blank" => env.key = "long"
    BY <1>1 DEF DoorsRefused
  <2>3. env.native # "blank" => env.native = IF NativeDoor(env) THEN "true" ELSE "false"
    BY <1>1 DEF DoorsRefused, SwitchRefused, NativeDoor, On
  <2>4. \A url \in TrustRoot : env.auth0[url] # "blank" => OAuthDoor(env) /\ env.auth0[url] = "https"
    BY <1>1 DEF DoorsRefused
  <2>5. env.principal # "blank" => StaticDoor(env)
    BY <1>1 DEF DoorsRefused
  <2>6. ASSUME NEW list \in lists, list # <<>>
        PROVE  OAuthDoor(env) /\ Cardinality(ToSet(list)) = Len(list)
    <3>1. list \in Seq(S)
      OBVIOUS
    <3>2. OAuthDoor(env) /\ Distinct(list)
      BY <1>1, <2>6 DEF DoorsRefused, SubjectsRefused
    <3> QED BY <3>1, <3>2, DistinctListsCount
  <2> QED BY <2>1, <2>2, <2>3, <2>4, <2>5, <2>6
<1>2. ASSUME ~ImportRefused(env.allowed, env.services)
      PROVE  /\ ~SubjectsRefused(env.allowed) /\ ~SubjectsRefused(env.services)
             /\ DOMAIN Imported(env.allowed, env.services) = ToSet(env.allowed)
  BY <1>2 DEF ImportRefused, SubjectsRefused, Imported
<1>3. ASSUME ~DoorsRefused(env), env.allowed # <<>>, "c1" \notin ToSet(env.allowed) \cup ToSet(env.services)
      PROVE  ~ImportRefused(env.allowed, env.services)
  BY <1>3 DEF DoorsRefused, ImportRefused, SubjectsRefused
<1> QED BY <1>1, <1>2, <1>3 DEF DoorsMeanWhatTheySay

\* Under a server that starts no thought reaches the fallback classifier unless an operator asked for it
\* (config.ts, metadata.ts).
THEOREM FallbackIsOptIn ==
  ASSUME NEW env, NEW S, env.channels \in Seq(S)
  PROVE  FallbackIsAsked(env)
<1> SUFFICES ASSUME ~MetadataRefused(env)
             PROVE  /\ FallbackEnabled(env) =>
                         \/ env.policy = "allow"
                         \/ env.policy = "alert" /\ \E c \in {"pushover", "ntfy"} :
                              c \in ToSet(env.channels) /\ Complete(env, c)
                    /\ env.primary = "true" => PrimaryEnabled(env)
                    /\ \A c \in ToSet(env.channels) \ {"blank"} : Complete(env, c)
  BY DEF FallbackIsAsked
<1>1. \A i \in Channels(env) : env.channels[i] \in {"pushover", "ntfy"} /\ Complete(env, env.channels[i])
  BY DEF MetadataRefused
<1>2. \A c \in ToSet(env.channels) \ {"blank"} : Complete(env, c)
  BY <1>1 DEF Channels, ToSet
<1>3. env.primary = "true" => PrimaryEnabled(env)
  BY DEF MetadataRefused, PrimaryEnabled, On
<1>4. ASSUME FallbackEnabled(env), env.policy # "allow"
      PROVE  env.policy = "alert" /\ \E c \in {"pushover", "ntfy"} : c \in ToSet(env.channels) /\ Complete(env, c)
  <2>1. env.policy = "alert" /\ Channels(env) # {}
    BY <1>4 DEF FallbackEnabled, MetadataRefused
  <2>2. PICK i \in Channels(env) : TRUE
    BY <2>1
  <2>3. env.channels[i] \in ToSet(env.channels)
    BY DEF Channels, ToSet
  <2> QED BY <1>1, <2>1, <2>3
<1> QED BY <1>2, <1>3, <1>4

\* A number is the one written or the default, between one and the larger of the bound and the default
\* (parsePositiveIntegerSetting).
THEOREM NumbersAreAsWritten ==
  ASSUME NEW raw, raw.n \in Int, NEW fallback \in Nat \ {0}, NEW max \in Nat
  PROVE  NumberIsAsWritten(raw, fallback, max)
BY DEF NumberIsAsWritten, IntegerRefused, IntegerSetting

-----------------------------------------------------------------------------
(* Requests to the model servers.                                          *)

Exchanges == [fires : Stage, fails : Stage, ok : BOOLEAN, body : Body, content : Content]

\* No part of a late or broken answer is used, and a status that arrived is the one reported
\* (bounded_fetch.ts, metadata.ts).
THEOREM NothingLateIsUsed ==
  ASSUME NEW x \in Exchanges
  PROVE  LateAnswersAreNotUsed(x)
<1>1. CASE Interrupted(x, 1)
  <2>1. ClassifyOnce(x) = "transport_or_timeout"
    BY <1>1 DEF ClassifyOnce
  <2>2. x.fires = 1 \/ x.fails = 1
    BY <1>1 DEF Interrupted
  <2> QED BY <2>1, <2>2 DEF LateAnswersAreNotUsed
<1>2. CASE ~Interrupted(x, 1) /\ ~x.ok
  <2>1. ClassifyOnce(x) = "non_2xx"
    BY <1>2 DEF ClassifyOnce
  <2>2. x.fires # 1 /\ x.fails # 1
    BY <1>2 DEF Interrupted
  <2> QED BY <1>2, <2>1, <2>2 DEF LateAnswersAreNotUsed
<1>3. CASE ~Interrupted(x, 1) /\ x.ok /\ Interrupted(x, 2)
  <2>1. ClassifyOnce(x) = "transport_or_timeout"
    BY <1>3 DEF ClassifyOnce
  <2> QED BY <1>3, <2>1 DEF LateAnswersAreNotUsed
<1>4. CASE ~Interrupted(x, 1) /\ x.ok /\ ~Interrupted(x, 2)
  <2>1. ClassifyOnce(x) # "non_2xx"
    BY <1>4 DEF ClassifyOnce
  <2>2. x.fires = 0 /\ x.fails = 0
    BY <1>4 DEF Interrupted, Exchanges, Stage
  <2> QED BY <1>4, <2>1, <2>2 DEF LateAnswersAreNotUsed
<1> QED BY <1>1, <1>2, <1>3, <1>4

\* The fallback sees a thought only where it is enabled and the primary did not answer, and the events tell
\* of each endpoint asked that failed (extractMetadata).
Told(events) == {events[i].event : i \in DOMAIN events}

LEMMA ToldTogether ==
  ASSUME NEW S, NEW a \in Seq(S), NEW b \in Seq(S)
  PROVE  Told(a \o b) = Told(a) \cup Told(b)
<1>1. \A i \in DOMAIN a : i \in DOMAIN (a \o b) /\ (a \o b)[i] = a[i]
  OBVIOUS
<1>2. \A i \in DOMAIN b : Len(a) + i \in DOMAIN (a \o b) /\ (a \o b)[Len(a) + i] = b[i]
  OBVIOUS
<1>3. \A i \in DOMAIN (a \o b) : (i \in DOMAIN a /\ (a \o b)[i] = a[i])
                                 \/ (i - Len(a) \in DOMAIN b /\ (a \o b)[i] = b[i - Len(a)])
  OBVIOUS
<1> HIDE DEF Told
<1>4. Told(a \o b) \subseteq Told(a) \cup Told(b)
  BY <1>3 DEF Told
<1>5. Told(a) \subseteq Told(a \o b)
  BY <1>1 DEF Told
<1>6. Told(b) \subseteq Told(a \o b)
  BY <1>2 DEF Told
<1> QED BY <1>4, <1>5, <1>6


Result == {"transport_or_timeout", "non_2xx", "invalid_response", "unparseable_output", "schema_rejection", "ok"}
EventWord == Result \cup {"disabled", "none", "primary_failure", "fallback_failure", "fallback_used", "stub_used"}
Event == [event : EventWord, reason : EventWord]

FirstResult(setup, primary) == IF setup.primary THEN ClassifyOnce(primary) ELSE "disabled"
SecondResult(setup, primary, fallback) ==
  IF setup.fallback /\ FirstResult(setup, primary) # "ok" THEN ClassifyOnce(fallback) ELSE "disabled"
Failed(role, result) == IF result \in {"ok", "disabled"} THEN <<>> ELSE <<[event |-> role, reason |-> result]>>
Ends(first, second) ==
  IF first = "ok" THEN <<>>
  ELSE IF second = "ok" THEN <<[event |-> "fallback_used", reason |-> "none"]>>
  ELSE <<[event |-> "stub_used", reason |-> "none"]>>

LEMMA ResultsAreWords ==
  ASSUME NEW x
  PROVE  ClassifyOnce(x) \in Result /\ ClassifyOnce(x) # "disabled"
<1>1. ClassifyOnce(x) \in Result
  BY Zenon DEF ClassifyOnce, Result
<1> QED BY <1>1 DEF Result

LEMMA ToldOfOne ==
  ASSUME NEW role \in EventWord, NEW reason \in EventWord
  PROVE  /\ <<[event |-> role, reason |-> reason]>> \in Seq(Event)
         /\ Told(<<[event |-> role, reason |-> reason]>>) = {role}
<1> DEFINE e == [event |-> role, reason |-> reason]
<1>1. e \in Event /\ e.event = role
  BY DEF Event
<1> HIDE DEF e
<1>2. <<e>> \in Seq(Event) /\ DOMAIN <<e>> = {1} /\ <<e>>[1] = e
  BY <1>1
<1>3. Told(<<e>>) = {role}
  BY <1>1, <1>2, Zenon DEF Told
<1> QED BY <1>2, <1>3 DEF e

LEMMA ToldOfNone == <<>> \in Seq(Event) /\ Told(<<>>) = {}
<1>1. DOMAIN <<>> = {}
  OBVIOUS
<1> QED BY <1>1 DEF Told

LEMMA FailedTells ==
  ASSUME NEW role \in EventWord, NEW result \in EventWord
  PROVE  /\ Failed(role, result) \in Seq(Event)
         /\ Told(Failed(role, result)) = IF result \in {"ok", "disabled"} THEN {} ELSE {role}
BY ToldOfOne, ToldOfNone DEF Failed

LEMMA EndsTell ==
  ASSUME NEW first, NEW second
  PROVE  /\ Ends(first, second) \in Seq(Event)
         /\ Told(Ends(first, second)) =
              IF first = "ok" THEN {} ELSE IF second = "ok" THEN {"fallback_used"} ELSE {"stub_used"}
<1>1. "fallback_used" \in EventWord /\ "stub_used" \in EventWord /\ "none" \in EventWord
  BY DEF EventWord
<1>2. CASE first = "ok"
  BY <1>2, ToldOfNone DEF Ends
<1>3. CASE first # "ok" /\ second = "ok"
  BY <1>1, <1>3, ToldOfOne, Zenon DEF Ends
<1>4. CASE first # "ok" /\ second # "ok"
  BY <1>1, <1>4, ToldOfOne, Zenon DEF Ends
<1> QED BY <1>2, <1>3, <1>4

\* A thought reaches the fallback only where it is enabled and the primary did not answer, and the events tell
\* of each endpoint that was asked and of what stands in the thought (metadata.ts), whatever the answers.
THEOREM DegradationsAreTold ==
  ASSUME NEW setup \in [primary : BOOLEAN, fallback : BOOLEAN], NEW primary, NEW fallback
  PROVE  DegradationIsTold(setup, primary, fallback)
<1> DEFINE first == FirstResult(setup, primary)
           second == SecondResult(setup, primary, fallback)
           result == Extract(setup, primary, fallback)
           told == Told(result.events)
<1>1. first \in EventWord /\ second \in EventWord
  <2>1. ClassifyOnce(primary) \in EventWord /\ ClassifyOnce(fallback) \in EventWord /\ "disabled" \in EventWord
    BY ResultsAreWords DEF EventWord
  <2> QED BY <2>1 DEF FirstResult, SecondResult
<1>2. (first = "disabled") <=> ~setup.primary
  BY ResultsAreWords DEF FirstResult
<1>3. (second = "disabled") <=> (~setup.fallback \/ first = "ok")
  BY ResultsAreWords DEF SecondResult
<1>4. CASE ~setup.primary /\ ~setup.fallback
  <2>1. result = [asked |-> {}, stamp |-> "stub", events |-> <<>>]
    BY <1>4 DEF Extract
  <2>2. told = {}
    BY <2>1 DEF Told
  <2>3. ClassifyWithPrimary(setup, primary) # "ok"
    BY <1>4 DEF ClassifyWithPrimary
  <2> QED BY <2>1, <2>2, <2>3 DEF DegradationIsTold, Told
<1>5. CASE setup.primary \/ setup.fallback
  <2> DEFINE p == Failed("primary_failure", first)
             f == Failed("fallback_failure", second)
             e == Ends(first, second)
  <2>1. /\ result.asked = {x \in {"primary", "fallback"} : \/ x = "primary" /\ first # "disabled"
                                                           \/ x = "fallback" /\ second # "disabled"}
        /\ result.stamp = IF first = "ok" THEN "primary" ELSE IF second = "ok" THEN "fallback" ELSE "stub"
    BY <1>5 DEF Extract, FirstResult, SecondResult
  <2>2. result.events = p \o f \o e
    BY <1>5 DEF Extract, FirstResult, SecondResult, Failed, Ends
  <2>3. /\ p \in Seq(Event) /\ Told(p) = IF first \in {"ok", "disabled"} THEN {} ELSE {"primary_failure"}
        /\ f \in Seq(Event) /\ Told(f) = IF second \in {"ok", "disabled"} THEN {} ELSE {"fallback_failure"}
    <3>1. "primary_failure" \in EventWord /\ "fallback_failure" \in EventWord
      BY DEF EventWord
    <3> HIDE DEF first, second
    <3> QED BY <1>1, <3>1, FailedTells, Zenon
  <2>4. /\ e \in Seq(Event)
        /\ Told(e) = IF first = "ok" THEN {} ELSE IF second = "ok" THEN {"fallback_used"} ELSE {"stub_used"}
    BY EndsTell
  <2> HIDE DEF p, f, e
  <2>5. told = Told(p) \cup Told(f) \cup Told(e)
    <3>1. p \o f \in Seq(Event)
      BY <2>3
    <3>2. Told(p \o f) = Told(p) \cup Told(f)
      BY <2>3, ToldTogether
    <3> DEFINE pf == p \o f
    <3> HIDE DEF pf
    <3>3. Told(pf \o e) = Told(pf) \cup Told(e)
      <4>1. pf \in Seq(Event)
        BY <3>1 DEF pf
      <4>2. e \in Seq(Event)
        BY <2>4
      <4> QED BY <4>1, <4>2, ToldTogether
    <3> QED BY <2>2, <3>2, <3>3 DEF pf
  <2>6. (ClassifyWithPrimary(setup, primary) = "ok") <=> (first = "ok")
    BY ResultsAreWords DEF ClassifyWithPrimary, FirstResult
  <2>7. told = {result.events[i].event : i \in DOMAIN result.events}
    BY DEF Told
  <2> HIDE DEF first, second, result, told
  <2>8. /\ ("primary_failure" \in told) <=> first \notin {"ok", "disabled"}
        /\ ("fallback_failure" \in told) <=> second \notin {"ok", "disabled"}
        /\ ("fallback_used" \in told) <=> (first # "ok" /\ second = "ok")
        /\ ("stub_used" \in told) <=> (first # "ok" /\ second # "ok")
        /\ first = "ok" => told = {}
    BY <1>3, <2>3, <2>4, <2>5
  <2>9. /\ "fallback" \in result.asked => setup.fallback /\ result.stamp # "primary"
        /\ result.stamp = "primary" => told = {}
        /\ (result.stamp = "fallback") <=> ("fallback_used" \in told)
        /\ (result.stamp = "stub" /\ result.asked # {}) <=> ("stub_used" \in told)
        /\ ("primary" \in result.asked /\ result.stamp # "primary") <=> ("primary_failure" \in told)
        /\ ("fallback" \in result.asked /\ result.stamp # "fallback") <=> ("fallback_failure" \in told)
        /\ (ClassifyWithPrimary(setup, primary) = "ok") <=> (result.stamp = "primary")
    BY <1>2, <1>3, <1>5, <2>1, <2>6, <2>8
  <2> QED BY <2>7, <2>9 DEF DegradationIsTold, result
<1> QED BY <1>4, <1>5

AnyVector == [length : Int, finite : BOOLEAN, zero : BOOLEAN]

\* Only one whole, finite, directed vector of the right length is stored, from an answer in time (embeddings.ts).
THEOREM VectorsAreSound ==
  ASSUME NEW x \in [left : Int, status : Int, vectors : Seq(AnyVector), fires : Stage, fails : Stage, body : Body],
         NEW inFlight \in Nat
  PROVE  OnlySoundVectors(x, inFlight)
<1>1. ASSUME Embed(x, inFlight) = "ok"
      PROVE  /\ x.status = 200 /\ x.fires = 0 /\ x.fails = 0 /\ x.left > 0 /\ inFlight < InFlightMost
             /\ x.vectors = <<[length |-> Dimension, finite |-> TRUE, zero |-> FALSE]>>
  <2>1. ~EmbedRefused(x, inFlight) /\ ~Interrupted(x, 1) /\ x.status = 200 /\ EmbedVector(x) = "ok"
    BY <1>1 DEF Embed, EmbedError, Thrown
  <2>2. /\ ~Interrupted(x, 2) /\ Len(x.vectors) = 1 /\ x.vectors[1].length = Dimension
        /\ x.vectors[1].finite /\ ~x.vectors[1].zero
    BY <2>1 DEF EmbedVector, Thrown
  <2>3. x.fires = 0 /\ x.fails = 0
    BY <2>1, <2>2 DEF Interrupted, Stage
  <2>4. x.left > 0 /\ inFlight < InFlightMost
    BY <2>1, OutboundAssumption DEF EmbedRefused
  <2>5. x.vectors[1] \in AnyVector
    BY <2>2
  <2>6. x.vectors[1] = [length |-> Dimension, finite |-> TRUE, zero |-> FALSE]
    BY <2>2, <2>5 DEF AnyVector
  <2>7. x.vectors = <<x.vectors[1]>>
    BY <2>2
  <2> QED BY <2>1, <2>3, <2>4, <2>6, <2>7
<1>2. ASSUME Embed(x, inFlight) = "context"
      PROVE  x.status = 400 /\ x.body = "context" /\ x.fires = 0 /\ x.fails = 0
  <2>1. ~Interrupted(x, 1) /\ EmbedError(x) = "context"
    BY <1>2 DEF Embed, EmbedVector, Thrown
  <2>2. x.fires # 2 /\ x.fails # 2 /\ x.status = 400 /\ x.body = "context"
    BY <2>1 DEF EmbedError
  <2> QED BY <2>1, <2>2 DEF Interrupted, Stage
<1> QED BY <1>1, <1>2 DEF OnlySoundVectors

-----------------------------------------------------------------------------
(* Scopes.                                                                 *)

\* The path that an abridged answer names for what it left out finds the row again for the same caller
\* (scopedRestPath), whatever the registry.
THEOREM AbridgedRecordsAreFound ==
  ASSUME NEW input \in RequestSet, NEW principal \in Principal \cup {None}, NEW p \in Principal,
         NEW a \in WriteAudiences(p)
  PROVE  RecoveryFindsTheRecord(input, principal, a)
<1> DEFINE path == ScopedRestPath(a)
<1> SUFFICES ASSUME ~ReadScopeRefused(input, principal),
                    AudienceMatches(ResolveReadScope(input, principal), a)
             PROVE  ~ReadScopeRefused(path, principal) /\ AudienceMatches(ResolveReadScope(path, principal), a)
  BY DEF RecoveryFindsTheRecord
<1>1. PICK w \in RequestSet : ~WriteScopeRefused(w, p) /\ a = WriteAudience(w, p)
  BY DEF WriteAudiences
<1>2. /\ path.workspace = w.workspace /\ path.visibility = WriteVisibility(w)
      /\ path.project = IF WriteVisibility(w) = "project" THEN w.project ELSE None
  BY <1>1 DEF ScopedRestPath, WriteAudience
<1>3. WriteVisibility(w) \in Visibility /\ None \notin Visibility
  BY RegistryAssumption DEF WriteVisibility, RequestSet, Visibility
<1>4. ~UnknownProject(path)
  BY <1>1, <1>2 DEF WriteScopeRefused, UnknownProject
<1>5. a.visibility = "personal" => principal # None
  BY DEF AudienceMatches, ResolveReadScope
<1>6. a.visibility = "project" => path.project # None
  BY <1>1, <1>2 DEF WriteAudience, WriteScopeRefused
<1>7. w.workspace \in PersonalOnly => WriteVisibility(w) = "personal"
  BY <1>1 DEF WriteScopeRefused
<1>8. path.visibility = a.visibility /\ a.visibility = WriteVisibility(w)
  BY <1>1, <1>2 DEF WriteAudience
<1>9. ~ReadScopeRefused(path, principal)
  BY <1>2, <1>3, <1>4, <1>5, <1>6, <1>7, <1>8 DEF ReadScopeRefused
<1>10. ReadVisibilities(path, principal) = {a.visibility}
  BY <1>3, <1>8 DEF ReadVisibilities
<1>11. AudienceMatches(ResolveReadScope(path, principal), a)
  <2>1. /\ a.visibility = "personal" => a.owner = principal
        /\ a.visibility = "project" => a.project # None
    BY DEF AudienceMatches, ResolveReadScope
  <2>2. path.workspace = a.workspace /\ path.project = a.project
    BY DEF ScopedRestPath
  <2> QED BY <1>3, <1>5, <1>6, <1>8, <1>10, <2>1, <2>2 DEF AudienceMatches, ResolveReadScope, Visibility
<1> QED BY <1>9, <1>11

\* A move whose target is accepted lands in the audience it names (resolveWriteScope).
THEOREM MovesLand ==
  ASSUME NEW input \in RequestSet, NEW principal \in Principal \cup {None}
  PROVE  MoveLandsWhereNamed(input, principal)
<1> DEFINE a == WriteAudience(input, principal)
<1> SUFFICES ASSUME input.visibility # None, input.project # None <=> input.visibility = "project",
                    ~WriteScopeRefused(input, principal)
             PROVE  /\ WellShaped(a) /\ a.workspace = input.workspace /\ a.project = input.project
                    /\ a.visibility = input.visibility
                    /\ a.owner = IF input.visibility = "personal" THEN principal ELSE None
  BY DEF MoveLandsWhereNamed
<1>1. WriteVisibility(input) = input.visibility /\ input.visibility \in Visibility
  BY DEF WriteVisibility, RequestSet
<1>2. /\ a.workspace = input.workspace /\ a.visibility = input.visibility
      /\ a.project = IF input.visibility = "project" THEN input.project ELSE None
      /\ a.owner = IF input.visibility = "personal" THEN principal ELSE None
  BY <1>1 DEF WriteAudience
<1>3. a.project = input.project
  BY <1>2
<1>4. input.visibility = "personal" => principal # None
  BY <1>1 DEF WriteScopeRefused
<1>5. WellShaped(a)
  BY <1>1, <1>2, <1>3, <1>4 DEF WellShaped, Visibility
<1> QED BY <1>2, <1>3, <1>5

-----------------------------------------------------------------------------
(* The two transports.                                                     *)

LEMMA JoinedFields ==
  ASSUME NEW f, NEW g
  PROVE  /\ DOMAIN Joined(f, g) = DOMAIN f \cup DOMAIN g
         /\ \A x \in DOMAIN f : Joined(f, g)[x] = f[x]
         /\ \A x \in DOMAIN g \ DOMAIN f : Joined(f, g)[x] = g[x]
BY DEF Joined

LEMMA JoinedApart ==
  ASSUME NEW f, NEW g, DOMAIN f \cap DOMAIN g = {}
  PROVE  /\ DOMAIN Joined(f, g) = DOMAIN f \cup DOMAIN g
         /\ \A x \in DOMAIN f : Joined(f, g)[x] = f[x]
         /\ \A x \in DOMAIN g : Joined(f, g)[x] = g[x]
BY DEF Joined

ReadTools == {"search", "search_thoughts", "list_thoughts", "fetch", "thought_stats"}
WriteTools == {"capture_thought", "update_thought", "move_thought", "forget_thought", "restore_thought"}
SessionTools == {"session_capture", "session_lookup", "session_search", "session_list", "session_update_status"}

LEMMA ToolsAre ==
  /\ DOMAIN ThoughtReadShapes = ReadTools
  /\ DOMAIN ThoughtWriteShapes = WriteTools
  /\ DOMAIN SessionShapes = SessionTools
  /\ Tool = ReadTools \cup WriteTools \cup SessionTools
  /\ \A tool \in ReadTools : McpShapes[tool] = ThoughtReadShapes[tool]
  /\ \A tool \in WriteTools : McpShapes[tool] = ThoughtWriteShapes[tool]
  /\ \A tool \in SessionTools : McpShapes[tool] = SessionShapes[tool]
<1>1. DOMAIN ThoughtReadShapes = ReadTools
  BY DEF ThoughtReadShapes, ReadTools
<1>2. DOMAIN ThoughtWriteShapes = WriteTools
  BY DEF ThoughtWriteShapes, WriteTools
<1>3. DOMAIN SessionShapes = SessionTools
  BY DEF SessionShapes, SessionTools
<1> DEFINE writes == Joined(ThoughtWriteShapes, SessionShapes)
<1>4. /\ DOMAIN writes = DOMAIN ThoughtWriteShapes \cup DOMAIN SessionShapes
      /\ \A tool \in DOMAIN ThoughtWriteShapes : writes[tool] = ThoughtWriteShapes[tool]
      /\ \A tool \in DOMAIN SessionShapes \ DOMAIN ThoughtWriteShapes : writes[tool] = SessionShapes[tool]
  BY JoinedFields, Zenon
<1> HIDE DEF writes
<1>5. /\ DOMAIN McpShapes = DOMAIN ThoughtReadShapes \cup DOMAIN writes
      /\ \A tool \in DOMAIN ThoughtReadShapes : McpShapes[tool] = ThoughtReadShapes[tool]
      /\ \A tool \in DOMAIN writes \ DOMAIN ThoughtReadShapes : McpShapes[tool] = writes[tool]
  BY JoinedFields, Zenon DEF McpShapes, writes
<1>6. /\ ReadTools \cap (WriteTools \cup SessionTools) = {}
      /\ WriteTools \cap SessionTools = {}
  BY DEF ReadTools, WriteTools, SessionTools
<1> QED BY <1>1, <1>2, <1>3, <1>4, <1>5, <1>6 DEF Tool

ThoughtRouteNames == (ReadTools \cup WriteTools) \ {"search"}
SessionRouteNames == SessionTools \cup {"session_record"}

LEMMA RoutesAre ==
  /\ DOMAIN Routes = ThoughtRouteNames \cup SessionRouteNames
  /\ \A route \in ThoughtRouteNames : Routes[route] = ThoughtRoutes[route]
  /\ \A route \in SessionRouteNames : Routes[route] = SessionRoutes[route]
<1>1. DOMAIN ThoughtRoutes = ThoughtRouteNames
  BY DEF ThoughtRoutes, ThoughtRouteNames, ReadTools, WriteTools
<1>2. DOMAIN SessionRoutes = SessionRouteNames
  BY DEF SessionRoutes, SessionRouteNames, SessionTools
<1>3. \A route \in SessionRouteNames : route \notin ThoughtRouteNames
  BY DEF SessionRouteNames, ThoughtRouteNames, ReadTools, WriteTools, SessionTools
<1>4. /\ DOMAIN Routes = DOMAIN ThoughtRoutes \cup DOMAIN SessionRoutes
      /\ \A route \in DOMAIN ThoughtRoutes : Routes[route] = ThoughtRoutes[route]
      /\ \A route \in DOMAIN SessionRoutes \ DOMAIN ThoughtRoutes : Routes[route] = SessionRoutes[route]
  BY JoinedFields, Zenon DEF Routes
<1> QED BY <1>1, <1>2, <1>3, <1>4

-----------------------------------------------------------------------------
(* One field on its two ways.                                              *)

Text(place, v) == IF place = "query" THEN AsText(v) ELSE v

LEMMA TextsAreReceived ==
  ASSUME NEW v, NEW place
  PROVE  Received(Text(place, v)) = Received(v)
BY DEF Text, AsText, Received, Value

\* The rule of a field of a query string is that of the arguments, for numbers in digits and without null.
Twin(place, rule, other) ==
  \/ place # "query" /\ other = rule
  \/ /\ place = "query"
     /\ other.least = rule.least /\ other.most = rule.most
     /\ other.required = rule.required /\ other.default = rule.default
     /\ \/ rule.types = {"integer"} /\ other.types = {"digits"}
        \/ "integer" \notin rule.types /\ "digits" \notin rule.types /\ other.types = rule.types \ {"null"}

LEMMA TwinsFit ==
  ASSUME NEW place, NEW rule, NEW other, Twin(place, rule, other),
         NEW v, v.type # "digits", place = "query" => v.type # "null"
  PROVE  Fits(rule, v) <=> Fits(other, Text(place, v))
<1>1. CASE place # "query"
  BY <1>1 DEF Twin, Text
<1>2. CASE place = "query"
  <2>1. Received(Text(place, v)) = Received(v)
    BY TextsAreReceived
  <2>2. (v.type \in rule.types) <=> (Text(place, v).type \in other.types)
    BY <1>2 DEF Twin, Text, AsText, Value
  <2> QED BY <1>2, <2>1, <2>2 DEF Twin, Fits
<1> QED BY <1>1, <1>2

-----------------------------------------------------------------------------
(* One call on its two ways.                                               *)

\* What the path carries is required of the arguments; a route may take more than a reduced tool offers.
TwinShapes(place, path, more, shape, other) ==
  /\ path \subseteq DOMAIN shape /\ more \cap DOMAIN shape = {}
  /\ DOMAIN other = (DOMAIN shape \ path) \cup more
  /\ \A f \in more : ~other[f].required
  /\ \A f \in DOMAIN shape \ path : Twin(place, shape[f], other[f])

InPath(path, shape, args) ==
  \A f \in path : IF f \in DOMAIN args THEN Fits(shape[f], args[f]) ELSE ~shape[f].required

LEMMA ShapesTakeTheSame ==
  ASSUME NEW place, NEW path, NEW more, NEW shape, NEW other, TwinShapes(place, path, more, shape, other),
         NEW args, more \cap DOMAIN args = {},
         \A f \in DOMAIN args : args[f].type # "digits" /\ (place = "query" => args[f].type # "null"),
         NEW fields, fields = [f \in DOMAIN args \ path |-> Text(place, args[f])]
  PROVE  /\ Accepts(shape, args) <=> (Accepts(other, fields) /\ InPath(path, shape, args))
         /\ \A f \in DOMAIN shape \ path : Parsed(other, fields)[f] = Parsed(shape, args)[f]
<1>1. DOMAIN fields = DOMAIN args \ path
  OBVIOUS
<1>2. \A f \in DOMAIN fields : fields[f] = Text(place, args[f])
  OBVIOUS
<1>3. \A f \in (DOMAIN shape \ path) \cap DOMAIN args : Fits(shape[f], args[f]) <=> Fits(other[f], fields[f])
  BY <1>1, <1>2, TwinsFit DEF TwinShapes
<1>4. \A f \in DOMAIN shape \ path : (shape[f].required <=> other[f].required) /\ shape[f].default = other[f].default
  BY DEF TwinShapes, Twin
<1>5. \A f \in DOMAIN shape \ path : Parsed(other, fields)[f] = Parsed(shape, args)[f]
  <2> TAKE f \in DOMAIN shape \ path
  <2>1. f \in DOMAIN other
    BY DEF TwinShapes
  <2>2. CASE f \in DOMAIN args
    BY <1>1, <1>2, <2>1, <2>2, TextsAreReceived DEF Parsed
  <2>3. CASE f \notin DOMAIN args
    BY <1>1, <1>4, <2>1, <2>3 DEF Parsed
  <2> QED BY <2>2, <2>3
<1>6. ASSUME Accepts(shape, args)
      PROVE  Accepts(other, fields) /\ InPath(path, shape, args)
  BY <1>1, <1>3, <1>4, <1>6 DEF Accepts, InPath, TwinShapes
<1>7. ASSUME Accepts(other, fields), InPath(path, shape, args)
      PROVE  Accepts(shape, args)
  BY <1>1, <1>3, <1>4, <1>7 DEF Accepts, InPath, TwinShapes
<1> QED BY <1>5, <1>6, <1>7

-----------------------------------------------------------------------------
(* Every tool and its route.                                               *)

ScopeFields == {"workspace_id", "project_id", "visibility"}

LEMMA ScopesAreTwins ==
  /\ DOMAIN MemoryScope = ScopeFields /\ DOMAIN ScopeQuery = ScopeFields
  /\ \A f \in ScopeFields : Twin("query", MemoryScope[f], ScopeQuery[f])
<1>1. DOMAIN MemoryScope = ScopeFields /\ DOMAIN ScopeQuery = ScopeFields
  BY DEF MemoryScope, ScopeQuery, ScopeFields
<1>2. Twin("query", ScopeId, ScopeId)
  BY DEF Twin, ScopeId, Field
<1>3. Twin("query", NullableId, ScopeId)
  BY DEF Twin, NullableId, ScopeId, Field
<1>4. Twin("query", Word(3), Word(3))
  BY DEF Twin, Word, Field
<1> QED BY <1>1, <1>2, <1>3, <1>4 DEF MemoryScope, ScopeQuery, ScopeFields

LEMMA QueryRules ==
  /\ Twin("query", AnyText, AnyText) /\ Twin("query", Timestamp, Timestamp)
  /\ \A n \in Int : Twin("query", Word(n), Word(n)) /\ Twin("query", Default(Word(n), "word", 1), Default(Word(n), "word", 1))
  /\ \A n \in Int : Twin("query", Number(1, n), Digits(1, n))
  /\ \A n, d \in Int : Twin("query", Default(Number(1, n), "integer", d), Default(Digits(1, n), "integer", d))
BY DEF Twin, AnyText, Timestamp, Word, Default, Number, Digits, Field

\* The scope that a place carries.
ScopeAt(place) == IF place = "query" THEN ScopeQuery ELSE MemoryScope

LEMMA ScopesAt ==
  ASSUME NEW place
  PROVE  DOMAIN ScopeAt(place) = ScopeFields /\ \A f \in ScopeFields : Twin(place, MemoryScope[f], ScopeAt(place)[f])
BY ScopesAreTwins DEF ScopeAt, Twin

LEMMA ScopedShapesAreTwins ==
  ASSUME NEW place, NEW path, NEW more, NEW shape, NEW other, TwinShapes(place, path, more, shape, other),
         DOMAIN shape \cap ScopeFields = {}, more \cap ScopeFields = {}
  PROVE  TwinShapes(place, path, more, Joined(shape, MemoryScope), Joined(other, ScopeAt(place)))
<1> DEFINE s == Joined(shape, MemoryScope)
           o == Joined(other, ScopeAt(place))
<1>1. /\ DOMAIN s = DOMAIN shape \cup ScopeFields
      /\ \A f \in DOMAIN shape : s[f] = shape[f]
      /\ \A f \in ScopeFields : s[f] = MemoryScope[f]
  <2>1. DOMAIN MemoryScope = ScopeFields
    BY ScopesAreTwins
  <2>2. DOMAIN shape \cap DOMAIN MemoryScope = {}
    BY <2>1
  <2>3. /\ DOMAIN s = DOMAIN shape \cup DOMAIN MemoryScope
        /\ \A f \in DOMAIN shape : s[f] = shape[f]
        /\ \A f \in DOMAIN MemoryScope : s[f] = MemoryScope[f]
    BY <2>2, JoinedApart, Zenon
  <2> QED BY <2>1, <2>3
<1>2. DOMAIN other \cap ScopeFields = {}
  BY DEF TwinShapes
<1>3. /\ DOMAIN o = DOMAIN other \cup ScopeFields
      /\ \A f \in DOMAIN other : o[f] = other[f]
      /\ \A f \in ScopeFields : o[f] = ScopeAt(place)[f]
  <2>1. DOMAIN ScopeAt(place) = ScopeFields
    BY ScopesAt
  <2>2. DOMAIN other \cap DOMAIN ScopeAt(place) = {}
    BY <1>2, <2>1
  <2>3. /\ DOMAIN o = DOMAIN other \cup DOMAIN ScopeAt(place)
        /\ \A f \in DOMAIN other : o[f] = other[f]
        /\ \A f \in DOMAIN ScopeAt(place) : o[f] = ScopeAt(place)[f]
    BY <2>2, JoinedApart, Zenon
  <2> QED BY <2>1, <2>3
<1> HIDE DEF s, o
<1>4. \A f \in DOMAIN s \ path : Twin(place, s[f], o[f])
  <2> TAKE f \in DOMAIN s \ path
  <2>1. CASE f \in ScopeFields
    BY <1>1, <1>3, <2>1, ScopesAt
  <2>2. CASE f \notin ScopeFields
    <3>1. f \in DOMAIN shape \ path /\ f \in DOMAIN other
      BY <1>1, <2>2 DEF TwinShapes
    <3>2. s[f] = shape[f] /\ o[f] = other[f]
      BY <1>1, <1>3, <3>1
    <3> QED BY <3>1, <3>2 DEF TwinShapes
  <2> QED BY <2>1, <2>2
<1>5. DOMAIN o = (DOMAIN s \ path) \cup more
  BY <1>1, <1>3 DEF TwinShapes
<1>6. \A f \in more : ~o[f].required
  BY <1>3 DEF TwinShapes
<1>7. path \subseteq DOMAIN s /\ more \cap DOMAIN s = {}
  BY <1>1 DEF TwinShapes
<1>8. TwinShapes(place, path, more, s, o)
  BY <1>4, <1>5, <1>6, <1>7 DEF TwinShapes
<1> QED BY <1>8 DEF s, o

\* The tools with no field but an id, and the routes with none.
LEMMA OnlyAnIdIsInThePath ==
  ASSUME NEW place, NEW rule
  PROVE  TwinShapes(place, {"id"}, {}, Joined([id |-> rule], MemoryScope), ScopeAt(place))
<1> DEFINE s == Joined([id |-> rule], MemoryScope)
<1>1. DOMAIN [id |-> rule] = {"id"} /\ "id" \notin ScopeFields
  BY DEF ScopeFields
<1>2. DOMAIN s = {"id"} \cup ScopeFields /\ \A f \in ScopeFields : s[f] = MemoryScope[f]
  <2> DEFINE r == [id |-> rule]
  <2>1. DOMAIN MemoryScope = ScopeFields /\ DOMAIN r = {"id"}
    BY ScopesAreTwins
  <2> HIDE DEF r
  <2>2. DOMAIN r \cap DOMAIN MemoryScope = {}
    BY <1>1, <2>1
  <2>3. /\ DOMAIN Joined(r, MemoryScope) = DOMAIN r \cup DOMAIN MemoryScope
        /\ \A f \in DOMAIN MemoryScope : Joined(r, MemoryScope)[f] = MemoryScope[f]
    BY <2>2, JoinedApart, Zenon
  <2> QED BY <2>1, <2>3 DEF r
<1> HIDE DEF s
<1>3. TwinShapes(place, {"id"}, {}, s, ScopeAt(place))
  BY <1>1, <1>2, ScopesAt DEF TwinShapes
<1> QED BY <1>3 DEF s

LEMMA EqualShapesAreTwins ==
  ASSUME NEW shape
  PROVE  TwinShapes("body", {}, {}, shape, shape)
BY DEF TwinShapes, Twin

PathOf(tool) == IF Routes[RouteOf(tool)].path = "none" THEN {} ELSE {"id"}
MoreOf(tool) == IF tool = "search" THEN {"limit", "threshold", "filter"} ELSE {}
TwinTool(tool) ==
  LET route == Routes[RouteOf(tool)]
  IN  TwinShapes(route.place, PathOf(tool), MoreOf(tool), McpShapes[tool], route.shape)

LEMMA ToolShapes ==
  ASSUME NEW tool \in Tool
  PROVE  /\ tool \in ReadTools => McpShapes[tool] = ThoughtReadShapes[tool]
         /\ tool \in WriteTools => McpShapes[tool] = ThoughtWriteShapes[tool]
         /\ tool \in SessionTools => McpShapes[tool] = SessionShapes[tool]
BY ToolsAre

\* A list of thoughts: a query string.
LEMMA ListThoughtsTwin == TwinTool("list_thoughts")
<1> DEFINE A == [limit |-> Default(Number(1, 100), "integer", 10), type |-> AnyText, topic |-> AnyText,
                 person |-> AnyText, days |-> Number(1, 3650)]
           B == [limit |-> Default(Digits(1, 100), "integer", 10), type |-> AnyText, topic |-> AnyText,
                 person |-> AnyText, days |-> Digits(1, 3650)]
<1>1. McpShapes["list_thoughts"] = Joined(A, MemoryScope)
  BY ToolsAre DEF ReadTools, ThoughtReadShapes
<1>2. Routes["list_thoughts"] = Route("none", "query", Joined(B, ScopeQuery))
  BY RoutesAre DEF ThoughtRouteNames, ReadTools, ThoughtRoutes, ListThoughtsQuery
<1>3. TwinShapes("query", {}, {}, A, B)
  BY QueryRules DEF TwinShapes
<1>4. DOMAIN A \cap ScopeFields = {}
  BY DEF ScopeFields
<1> HIDE DEF A, B
<1>5. TwinShapes("query", {}, {}, Joined(A, MemoryScope), Joined(B, ScopeAt("query")))
  BY <1>3, <1>4, ScopedShapesAreTwins
<1> QED BY <1>1, <1>2, <1>5 DEF TwinTool, RouteOf, PathOf, MoreOf, ScopeAt, Route

LEMMA ListSessionsTwin == TwinTool("session_list")
<1> DEFINE A == [status |-> Word(5), repo_url |-> AnyText, branch |-> AnyText, agent |-> AnyText,
                 tag |-> AnyText, linked_issue |-> AnyText, since |-> Timestamp, until |-> Timestamp,
                 order_by |-> Default(Word(4), "word", 1),
                 limit |-> Default(Number(1, 200), "integer", 50)]
           B == [status |-> Word(5), repo_url |-> AnyText, branch |-> AnyText, agent |-> AnyText, tag |-> AnyText,
                 linked_issue |-> AnyText, since |-> Timestamp, until |-> Timestamp,
                 order_by |-> Default(Word(4), "word", 1), limit |-> Default(Digits(1, 200), "integer", 50)]
<1>1. McpShapes["session_list"] = Joined(A, MemoryScope)
  BY ToolsAre DEF SessionTools, SessionShapes
<1>2. Routes["session_list"] = Route("none", "query", Joined(B, ScopeQuery))
  BY RoutesAre DEF SessionRouteNames, SessionTools, SessionRoutes, ListSessionsQuery
<1>3. TwinShapes("query", {}, {}, A, B)
  BY QueryRules DEF TwinShapes
<1>4. DOMAIN A \cap ScopeFields = {}
  BY DEF ScopeFields
<1> HIDE DEF A, B
<1>5. TwinShapes("query", {}, {}, Joined(A, MemoryScope), Joined(B, ScopeAt("query")))
  BY <1>3, <1>4, ScopedShapesAreTwins
<1> QED BY <1>1, <1>2, <1>5 DEF TwinTool, RouteOf, PathOf, MoreOf, ScopeAt, Route

LEMMA StatsTwin == TwinTool("thought_stats")
<1>1. McpShapes["thought_stats"] = MemoryScope
  BY ToolsAre DEF ReadTools, ThoughtReadShapes
<1>2. Routes["thought_stats"] = Route("none", "query", ScopeQuery)
  BY RoutesAre DEF ThoughtRouteNames, ReadTools, ThoughtRoutes
<1>3. TwinShapes("query", {}, {}, MemoryScope, ScopeQuery)
  BY ScopesAreTwins DEF TwinShapes
<1> QED BY <1>1, <1>2, <1>3 DEF TwinTool, RouteOf, PathOf, MoreOf, Route

LEMMA FetchTwin == TwinTool("fetch")
<1>1. McpShapes["fetch"] = Joined([id |-> Required(Uuid)], MemoryScope)
  BY ToolsAre DEF ReadTools, ThoughtReadShapes
<1>2. Routes["fetch"] = Route("thought", "query", ScopeQuery)
  BY RoutesAre DEF ThoughtRouteNames, ReadTools, ThoughtRoutes
<1>3. TwinShapes("query", {"id"}, {}, Joined([id |-> Required(Uuid)], MemoryScope), ScopeQuery)
  BY OnlyAnIdIsInThePath DEF ScopeAt
<1> QED BY <1>1, <1>2, <1>3 DEF TwinTool, RouteOf, PathOf, MoreOf, Route

LEMMA ForgetAndRestoreTwin == TwinTool("forget_thought") /\ TwinTool("restore_thought")
<1>1. /\ McpShapes["forget_thought"] = Joined([id |-> Required(Uuid)], MemoryScope)
      /\ McpShapes["restore_thought"] = Joined([id |-> Required(Uuid)], MemoryScope)
  BY ToolsAre DEF WriteTools, ThoughtWriteShapes
<1>2. /\ Routes["forget_thought"] = Route("thought", "body", ScopeBody)
      /\ Routes["restore_thought"] = Route("thought", "body", ScopeBody)
  BY RoutesAre DEF ThoughtRouteNames, WriteTools, ThoughtRoutes
<1>3. TwinShapes("body", {"id"}, {}, Joined([id |-> Required(Uuid)], MemoryScope), ScopeBody)
  BY OnlyAnIdIsInThePath DEF ScopeAt, ScopeBody
<1> QED BY <1>1, <1>2, <1>3 DEF TwinTool, RouteOf, PathOf, MoreOf, Route

\* The routes whose body has the shape of the tool.
LEMMA BodyTwins ==
  ASSUME NEW tool \in {"capture_thought", "search_thoughts", "session_capture", "session_search"}
  PROVE  TwinTool(tool)
<1>1. Routes[tool] = Route("none", "body", McpShapes[tool])
  <2>1. CASE tool \in {"capture_thought", "search_thoughts"}
    BY <2>1, RoutesAre, ToolsAre DEF ThoughtRouteNames, ReadTools, WriteTools, ThoughtRoutes
  <2>2. CASE tool \in {"session_capture", "session_search"}
    BY <2>2, RoutesAre, ToolsAre DEF SessionRouteNames, SessionTools, SessionRoutes
  <2> QED BY <2>1, <2>2
<1> QED BY <1>1, EqualShapesAreTwins DEF TwinTool, RouteOf, PathOf, MoreOf, Route

\* The reduced search is a search that gives no option.
LEMMA ReducedSearchTwin == TwinTool("search")
<1> DEFINE A == [query |-> Required(SearchQuery)]
           B == [query |-> Required(SearchQuery), limit |-> Default(Number(1, 100), "integer", 10),
                 threshold |-> Threshold, filter |-> Filter]
           more == {"limit", "threshold", "filter"}
<1>1. McpShapes["search"] = Joined(A, MemoryScope)
  BY ToolsAre DEF ReadTools, ThoughtReadShapes
<1>2. Routes["search_thoughts"] = Route("none", "body", Joined(B, MemoryScope))
  BY RoutesAre DEF ThoughtRouteNames, ReadTools, ThoughtRoutes, ThoughtReadShapes
<1>3. TwinShapes("body", {}, more, A, B)
  <2>1. \A f \in more : ~B[f].required
    BY DEF Default, Number, Threshold, Filter, Field
  <2>2. DOMAIN A = {"query"} /\ DOMAIN B = {"query"} \cup more /\ A["query"] = B["query"]
    OBVIOUS
  <2> QED BY <2>1, <2>2 DEF TwinShapes, Twin
<1>4. DOMAIN A \cap ScopeFields = {} /\ more \cap ScopeFields = {}
  BY DEF ScopeFields
<1> HIDE DEF A, B
<1>5. TwinShapes("body", {}, more, Joined(A, MemoryScope), Joined(B, ScopeAt("body")))
  BY <1>3, <1>4, ScopedShapesAreTwins
<1> QED BY <1>1, <1>2, <1>5 DEF TwinTool, RouteOf, PathOf, MoreOf, ScopeAt, Route

LEMMA UpdateTwin == TwinTool("update_thought")
<1> DEFINE A == [id |-> Required(Uuid), content |-> Required(StoredText)]
           B == [content |-> Required(StoredText)]
<1>1. McpShapes["update_thought"] = Joined(A, MemoryScope)
  BY ToolsAre DEF WriteTools, ThoughtWriteShapes
<1>2. Routes["update_thought"] = Route("thought", "body", Joined(B, MemoryScope))
  BY RoutesAre DEF ThoughtRouteNames, WriteTools, ThoughtRoutes, ScopeBody
<1>3. TwinShapes("body", {"id"}, {}, A, B)
  BY DEF TwinShapes, Twin
<1>4. DOMAIN A \cap ScopeFields = {}
  BY DEF ScopeFields
<1> HIDE DEF A, B
<1>5. TwinShapes("body", {"id"}, {}, Joined(A, MemoryScope), Joined(B, ScopeAt("body")))
  BY <1>3, <1>4, ScopedShapesAreTwins
<1> QED BY <1>1, <1>2, <1>5 DEF TwinTool, RouteOf, PathOf, MoreOf, ScopeAt, Route

LEMMA UpdateStatusTwin == TwinTool("session_update_status")
<1> DEFINE A == [id |-> Required(Number(1, MaxSafe)), status |-> Required(Word(5))]
           B == [status |-> Required(Word(5))]
<1>1. McpShapes["session_update_status"] = Joined(A, MemoryScope)
  BY ToolsAre DEF SessionTools, SessionShapes
<1>2. Routes["session_update_status"] = Route("session", "body", Joined(B, MemoryScope))
  BY RoutesAre DEF SessionRouteNames, SessionTools, SessionRoutes, ScopeBody
<1>3. TwinShapes("body", {"id"}, {}, A, B)
  BY DEF TwinShapes, Twin
<1>4. DOMAIN A \cap ScopeFields = {}
  BY DEF ScopeFields
<1> HIDE DEF A, B
<1>5. TwinShapes("body", {"id"}, {}, Joined(A, MemoryScope), Joined(B, ScopeAt("body")))
  BY <1>3, <1>4, ScopedShapesAreTwins
<1> QED BY <1>1, <1>2, <1>5 DEF TwinTool, RouteOf, PathOf, MoreOf, ScopeAt, Route

LEMMA MoveTwin == TwinTool("move_thought")
<1> DEFINE r == [id |-> Required(Uuid)]
           X == Joined(MoveTarget, MemoryScope)
           s == Joined(r, X)
<1>1. McpShapes["move_thought"] = s
  BY ToolsAre DEF WriteTools, ThoughtWriteShapes
<1>2. Routes["move_thought"] = Route("thought", "body", X)
  BY RoutesAre DEF ThoughtRouteNames, WriteTools, ThoughtRoutes, ScopeBody
<1>3. DOMAIN X = DOMAIN MoveTarget \cup DOMAIN MemoryScope
  BY JoinedFields, Zenon
<1>4. DOMAIN r = {"id"} /\ "id" \notin DOMAIN X
  BY <1>3, ScopesAreTwins DEF MoveTarget, ScopeFields
<1> HIDE DEF r, X
<1>5. DOMAIN r \cap DOMAIN X = {}
  BY <1>4
<1>6. DOMAIN s = DOMAIN r \cup DOMAIN X /\ \A f \in DOMAIN X : s[f] = X[f]
  BY <1>5, JoinedApart, Zenon
<1> HIDE DEF s
<1>7. TwinShapes("body", {"id"}, {}, s, X)
  BY <1>4, <1>6 DEF TwinShapes, Twin
<1> QED BY <1>1, <1>2, <1>7 DEF TwinTool, RouteOf, PathOf, MoreOf, Route

AllButLookup == Tool \ {"session_lookup"}

LEMMA ToolsAreTwins ==
  ASSUME NEW tool \in AllButLookup
  PROVE  TwinTool(tool)
<1>1. CASE tool \in ReadTools
  BY <1>1, ReducedSearchTwin, BodyTwins, ListThoughtsTwin, FetchTwin, StatsTwin DEF ReadTools
<1>2. CASE tool \in WriteTools
  BY <1>2, BodyTwins, UpdateTwin, MoveTwin, ForgetAndRestoreTwin DEF WriteTools
<1>3. CASE tool \in SessionTools
  BY <1>3, BodyTwins, ListSessionsTwin, UpdateStatusTwin DEF SessionTools, AllButLookup
<1> QED BY <1>1, <1>2, <1>3, ToolsAre DEF AllButLookup

-----------------------------------------------------------------------------
(* What a path carries.                                                    *)

ThoughtPaths == {"fetch", "update_thought", "move_thought", "forget_thought", "restore_thought"}

LEMMA PathsAre ==
  ASSUME NEW tool \in Tool
  PROVE  /\ RouteOf(tool) \in DOMAIN Routes
         /\ Routes[RouteOf(tool)].place \in {"query", "body"}
         /\ Routes[RouteOf(tool)].path = IF tool \in ThoughtPaths THEN "thought"
                                         ELSE IF tool = "session_update_status" THEN "session" ELSE "none"
<1>1. CASE tool \in ReadTools
  <2>1. CASE tool \in {"search", "search_thoughts"}
    BY <2>1, RoutesAre DEF RouteOf, ThoughtRouteNames, ReadTools, ThoughtPaths, ThoughtRoutes, Route
  <2>2. CASE tool \in {"list_thoughts", "fetch", "thought_stats"}
    BY <2>2, RoutesAre DEF RouteOf, ThoughtRouteNames, ReadTools, ThoughtPaths, ThoughtRoutes, Route
  <2> QED BY <1>1, <2>1, <2>2 DEF ReadTools
<1>2. CASE tool \in WriteTools
  BY <1>2, RoutesAre DEF RouteOf, ThoughtRouteNames, WriteTools, ThoughtPaths, ThoughtRoutes, Route
<1>3. CASE tool \in SessionTools
  BY <1>3, RoutesAre DEF RouteOf, SessionRouteNames, SessionTools, ThoughtPaths, SessionRoutes, Route
<1> QED BY <1>1, <1>2, <1>3, ToolsAre

LEMMA AnIdStays ==
  ASSUME NEW r, NEW X, "id" \in DOMAIN r
  PROVE  "id" \in DOMAIN Joined(r, X) /\ Joined(r, X)["id"] = r["id"]
BY DEF Joined

LEMMA IdsOfThoughts ==
  ASSUME NEW tool \in ThoughtPaths
  PROVE  "id" \in DOMAIN McpShapes[tool] /\ McpShapes[tool]["id"] = Required(Uuid)
<1> DEFINE r == [id |-> Required(Uuid)]
           q == [id |-> Required(Uuid), content |-> Required(StoredText)]
           X == Joined(MoveTarget, MemoryScope)
<1> HIDE DEF X
<1>0. "id" \in DOMAIN r /\ r["id"] = Required(Uuid) /\ "id" \in DOMAIN q /\ q["id"] = Required(Uuid)
  OBVIOUS
<1>1. CASE tool = "fetch"
  <2>1. McpShapes[tool] = Joined(r, MemoryScope)
    BY <1>1, ToolsAre DEF ReadTools, ThoughtReadShapes
  <2> HIDE DEF r, q
  <2> QED BY <1>0, <2>1, AnIdStays
<1>2. CASE tool = "update_thought"
  <2>1. McpShapes[tool] = Joined(q, MemoryScope)
    BY <1>2, ToolsAre DEF WriteTools, ThoughtWriteShapes
  <2> HIDE DEF r, q
  <2> QED BY <1>0, <2>1, AnIdStays
<1>3. CASE tool = "move_thought"
  <2>1. McpShapes[tool] = Joined(r, X)
    BY <1>3, ToolsAre DEF WriteTools, ThoughtWriteShapes, X
  <2> HIDE DEF r, q
  <2> QED BY <1>0, <2>1, AnIdStays
<1>4. CASE tool \in {"forget_thought", "restore_thought"}
  <2>1. McpShapes[tool] = Joined(r, MemoryScope)
    BY <1>4, ToolsAre DEF WriteTools, ThoughtWriteShapes
  <2> HIDE DEF r, q
  <2> QED BY <1>0, <2>1, AnIdStays
<1> QED BY <1>1, <1>2, <1>3, <1>4 DEF ThoughtPaths

LEMMA IdOfStatus ==
  LET shape == McpShapes["session_update_status"]
  IN  "id" \in DOMAIN shape /\ shape["id"] = Required(Number(1, MaxSafe))
<1> DEFINE r == [id |-> Required(Number(1, MaxSafe)), status |-> Required(Word(5))]
<1>1. McpShapes["session_update_status"] = Joined(r, MemoryScope)
  BY ToolsAre DEF SessionTools, SessionShapes
<1>2. "id" \in DOMAIN r /\ r["id"] = Required(Number(1, MaxSafe))
  OBVIOUS
<1> HIDE DEF r
<1> QED BY <1>1, <1>2, AnIdStays

LEMMA PathsTakeTheSame ==
  ASSUME NEW tool \in Tool, NEW args, \A f \in DOMAIN args : args[f].type # "digits",
         NEW id, id = IF PathOf(tool) \cap DOMAIN args = {} THEN Absent ELSE AsText(args["id"])
  PROVE  /\ PathFits(Routes[RouteOf(tool)].path, id) <=> InPath(PathOf(tool), McpShapes[tool], args)
         /\ PathOf(tool) \cap DOMAIN args # {} => Received(id) = Received(args["id"])
<1>1. CASE tool \in ThoughtPaths
  <2>1. Routes[RouteOf(tool)].path = "thought" /\ PathOf(tool) = {"id"}
    BY <1>1, PathsAre DEF PathOf
  <2>2. "id" \in DOMAIN McpShapes[tool] /\ McpShapes[tool]["id"] = Required(Uuid)
    BY <1>1, IdsOfThoughts
  <2>3. CASE "id" \notin DOMAIN args
    <3>1. ~PathFits("thought", id)
      BY <2>1, <2>3 DEF PathFits, Fits, Uuid, Field, Absent, Value
    <3>2. ~InPath(PathOf(tool), McpShapes[tool], args)
      BY <2>1, <2>2, <2>3 DEF InPath, Required, Uuid, Field
    <3> QED BY <2>1, <2>3, <3>1, <3>2
  <2>4. CASE "id" \in DOMAIN args
    <3>1. id = AsText(args["id"]) /\ Received(id) = Received(args["id"])
      BY <2>1, <2>4, TextsAreReceived DEF Text
    <3>2. Fits(Uuid, id) <=> Fits(Required(Uuid), args["id"])
      BY <3>1 DEF Fits, Uuid, Required, Field, AsText, Value
    <3> QED BY <2>1, <2>2, <2>4, <3>1, <3>2 DEF PathFits, InPath
  <2> QED BY <2>3, <2>4
<1>2. CASE tool = "session_update_status"
  <2>1. Routes[RouteOf(tool)].path = "session" /\ PathOf(tool) = {"id"}
    BY <1>2, PathsAre DEF PathOf, ThoughtPaths
  <2>2. "id" \in DOMAIN McpShapes[tool] /\ McpShapes[tool]["id"] = Required(Number(1, MaxSafe))
    BY <1>2, IdOfStatus
  <2>3. CASE "id" \notin DOMAIN args
    <3>1. ~PathFits("session", id)
      BY <2>1, <2>3 DEF PathFits, Fits, Digits, Field, Absent, Value
    <3>2. ~InPath(PathOf(tool), McpShapes[tool], args)
      BY <2>1, <2>2, <2>3 DEF InPath, Required, Number, Field
    <3> QED BY <2>1, <2>3, <3>1, <3>2
  <2>4. CASE "id" \in DOMAIN args
    <3>1. id = AsText(args["id"]) /\ Received(id) = Received(args["id"])
      BY <2>1, <2>4, TextsAreReceived DEF Text
    <3>2. (id.type = "digits") <=> (args["id"].type = "integer")
      BY <2>4, <3>1 DEF AsText, Value
    <3>3. Fits(Digits(1, MaxSafe), id) <=> Fits(Required(Number(1, MaxSafe)), args["id"])
      BY <3>1, <3>2 DEF Fits, Number, Digits, Required, Field
    <3> QED BY <2>1, <2>2, <2>4, <3>1, <3>3 DEF PathFits, InPath
  <2> QED BY <2>3, <2>4
<1>3. CASE tool \notin ThoughtPaths /\ tool # "session_update_status"
  <2>1. Routes[RouteOf(tool)].path = "none" /\ PathOf(tool) = {}
    BY <1>3, PathsAre DEF PathOf
  <2> QED BY <2>1 DEF PathFits, InPath
<1> QED BY <1>1, <1>2, <1>3

-----------------------------------------------------------------------------
(* Outcomes.                                                               *)

LEMMA RestTells ==
  ASSUME NEW route, NEW outcome
  PROVE  (RestStatus(route, outcome) >= 400) <=> outcome \in Exception \cup {"missing"}
<1>1. CASE outcome \in Exception \cup {"missing"}
  BY <1>1 DEF RestStatus, Exception
<1>2. CASE outcome \notin Exception \cup {"missing"}
  <2>1. RestStatus(route, outcome) \in {200, 201}
    BY <1>2 DEF RestStatus, Exception
  <2> QED BY <1>2, <2>1
<1> QED BY <1>1, <1>2

LEMMA ToolsTell ==
  ASSUME NEW tool \in Tool, NEW outcome \in OutcomeOf(tool), NEW args
  PROVE  (McpAnswer(tool, args, outcome) = "error") <=>
           \/ ~McpAccepts(tool, args)
           \/ outcome \in Exception
           \/ outcome = "missing" /\ tool # "session_lookup"
<1>1. CASE ~McpAccepts(tool, args)
  BY <1>1 DEF McpAnswer
<1>2. CASE McpAccepts(tool, args)
  <2>0. tool \in Rows => outcome # "missing"
    BY DEF OutcomeOf
  <2>1. CASE tool \in {"search", "search_thoughts", "fetch"}
    <3>1. McpAnswer(tool, args, outcome) = FindAnswer(tool, outcome)
      BY <1>2, <2>1 DEF McpAnswer
    <3>2. (FindAnswer(tool, outcome) = "error") <=> outcome \in Exception \cup {"missing"}
      BY DEF FindAnswer
    <3> QED BY <1>2, <2>1, <3>1, <3>2
  <2>2. CASE tool \in {"list_thoughts", "thought_stats"}
    <3>1. McpAnswer(tool, args, outcome) = OverviewAnswer(tool, outcome)
      BY <1>2, <2>2 DEF McpAnswer
    <3>2. (OverviewAnswer(tool, outcome) = "error") <=> outcome \in Exception
      BY DEF OverviewAnswer
    <3> QED BY <1>2, <2>0, <2>2, <3>1, <3>2 DEF Rows
  <2>3. CASE tool \in WriteTools
    <3>1. tool \in DOMAIN ThoughtWriteShapes
          /\ tool \notin {"search", "search_thoughts", "fetch", "list_thoughts", "thought_stats"}
      BY <2>3, ToolsAre DEF WriteTools
    <3>2. McpAnswer(tool, args, outcome) = ThoughtWriteAnswer(outcome)
      BY <1>2, <3>1 DEF McpAnswer
    <3>3. (ThoughtWriteAnswer(outcome) = "error") <=> outcome \in Exception \cup {"missing"}
      BY DEF ThoughtWriteAnswer
    <3> QED BY <1>2, <2>3, <3>2, <3>3 DEF WriteTools
  <2>4. CASE tool \in SessionTools
    <3>1. tool \notin DOMAIN ThoughtWriteShapes
          /\ tool \notin {"search", "search_thoughts", "fetch", "list_thoughts", "thought_stats"}
      BY <2>4, ToolsAre DEF WriteTools, SessionTools
    <3>2. McpAnswer(tool, args, outcome) = SessionAnswer(tool, outcome)
      BY <1>2, <3>1 DEF McpAnswer
    <3>3. (SessionAnswer(tool, outcome) = "error") <=>
            outcome \in Exception \/ (outcome = "missing" /\ tool # "session_lookup")
      BY DEF SessionAnswer
    <3> QED BY <1>2, <3>2, <3>3
  <2> QED BY <2>1, <2>2, <2>3, <2>4, ToolsAre DEF ReadTools
<1> QED BY <1>1, <1>2

-----------------------------------------------------------------------------
(* The lookup of a session, whose branch may not be empty.                 *)

\* What JSON can carry: no digits of a query string.
IsJson(v) == v.type # "digits" /\ v.n \in Int

LEMMA LookupTakesTheSame ==
  ASSUME NEW args, \A f \in DOMAIN args : IsJson(args[f]), Expressible("session_lookup", args),
         NEW fields, fields = [f \in DOMAIN args |-> AsText(args[f])]
  PROVE  /\ Accepts(McpShapes["session_lookup"], args) <=> Accepts(SessionLookupQuery, fields)
         /\ \A f \in DOMAIN McpShapes["session_lookup"] :
              Parsed(SessionLookupQuery, fields)[f] = Parsed(McpShapes["session_lookup"], args)[f]
         /\ DOMAIN McpShapes["session_lookup"] = DOMAIN SessionLookupQuery
<1> DEFINE A == [id |-> Number(1, MaxSafe), branch |-> AnyText]
           B == [id |-> Digits(1, MaxSafe), branch |-> AnyText]
           C == [id |-> Digits(1, MaxSafe), branch |-> [AnyText EXCEPT !.least = 1]]
           shape == Joined(A, MemoryScope)
           other == Joined(B, ScopeQuery)
           query == Joined(C, ScopeQuery)
<1>1. McpShapes["session_lookup"] = shape
  BY ToolsAre DEF SessionTools, SessionShapes
<1>2. Routes["session_lookup"] = Route("none", "query", SessionLookupQuery) /\ SessionLookupQuery = query
  BY RoutesAre DEF SessionRouteNames, SessionTools, SessionRoutes, SessionLookupQuery
<1>3. TwinShapes("query", {}, {}, A, B)
  BY QueryRules, NumberAssumption DEF TwinShapes
<1>4. DOMAIN A = {"id", "branch"} /\ DOMAIN B = {"id", "branch"} /\ DOMAIN C = {"id", "branch"}
      /\ C["id"] = B["id"] /\ B["branch"] = AnyText /\ C["branch"] = [AnyText EXCEPT !.least = 1]
  OBVIOUS
<1>5. {"id", "branch"} \cap ScopeFields = {} /\ DOMAIN ScopeQuery = ScopeFields
  BY ScopesAreTwins DEF ScopeFields
<1> HIDE DEF A, B, C
<1>6. TwinShapes("query", {}, {}, shape, other)
  <2>1. TwinShapes("query", {}, {}, Joined(A, MemoryScope), Joined(B, ScopeAt("query")))
    BY <1>3, <1>4, <1>5, ScopedShapesAreTwins
  <2> QED BY <2>1 DEF ScopeAt
<1>7. /\ DOMAIN other = {"id", "branch"} \cup ScopeFields
      /\ \A f \in {"id", "branch"} : other[f] = B[f]
      /\ \A f \in ScopeFields : other[f] = ScopeQuery[f]
  <2>1. DOMAIN B \cap DOMAIN ScopeQuery = {}
    BY <1>4, <1>5
  <2>2. /\ DOMAIN other = DOMAIN B \cup DOMAIN ScopeQuery
        /\ \A f \in DOMAIN B : other[f] = B[f]
        /\ \A f \in DOMAIN ScopeQuery : other[f] = ScopeQuery[f]
    BY <2>1, JoinedApart, Zenon
  <2> QED BY <1>4, <1>5, <2>2
<1>8. /\ DOMAIN query = {"id", "branch"} \cup ScopeFields
      /\ \A f \in {"id", "branch"} : query[f] = C[f]
      /\ \A f \in ScopeFields : query[f] = ScopeQuery[f]
  <2>1. DOMAIN C \cap DOMAIN ScopeQuery = {}
    BY <1>4, <1>5
  <2>2. /\ DOMAIN query = DOMAIN C \cup DOMAIN ScopeQuery
        /\ \A f \in DOMAIN C : query[f] = C[f]
        /\ \A f \in DOMAIN ScopeQuery : query[f] = ScopeQuery[f]
    BY <2>1, JoinedApart, Zenon
  <2> QED BY <1>4, <1>5, <2>2
<1> HIDE DEF shape, other, query
<1>9. \A f \in DOMAIN args : args[f].type # "digits" /\ args[f].type # "null" /\ args[f].n \in Int
  BY <1>2 DEF Expressible, RouteOf, Route, IsJson
<1>10. fields = [f \in DOMAIN args \ {} |-> Text("query", args[f])]
  BY DEF Text
<1>11. /\ Accepts(shape, args) <=> (Accepts(other, fields) /\ InPath({}, shape, args))
       /\ \A f \in DOMAIN shape \ {} : Parsed(other, fields)[f] = Parsed(shape, args)[f]
  <2>1. {} \cap DOMAIN args = {}
    OBVIOUS
  <2> QED BY <1>6, <1>9, <1>10, <2>1, ShapesTakeTheSame
<1>12. DOMAIN other = DOMAIN query /\ \A f \in DOMAIN query \ {"branch"} : other[f] = query[f]
  BY <1>4, <1>7, <1>8
<1>13. other["branch"] = AnyText /\ query["branch"] = [AnyText EXCEPT !.least = 1]
  BY <1>4, <1>7, <1>8
<1>14. "branch" \in DOMAIN fields => (Fits(other["branch"], fields["branch"]) <=> Fits(query["branch"], fields["branch"]))
  <2> SUFFICES ASSUME "branch" \in DOMAIN args
               PROVE  Fits(other["branch"], fields["branch"]) <=> Fits(query["branch"], fields["branch"])
    OBVIOUS
  <2> DEFINE v == args["branch"]
  <2>1. v.n \in Int /\ v.n > 0
    BY <1>9 DEF Expressible
  <2>2. fields["branch"] = AsText(v)
    OBVIOUS
  <2>3. CASE v.type = "integer"
    BY <1>13, <2>2, <2>3 DEF Fits, AnyText, Field, AsText, Value
  <2>4. CASE v.type # "integer"
    <3>1. fields["branch"] = v /\ Received(v) = v
      BY <1>9, <2>2, <2>4 DEF AsText, Received
    <3> QED BY <1>13, <2>1, <3>1 DEF Fits, AnyText, Field, NoBound
  <2> QED BY <2>3, <2>4
<1>15. Accepts(other, fields) <=> Accepts(query, fields)
  <2>1. other["branch"].required <=> query["branch"].required
    BY <1>13 DEF AnyText, Field
  <2> QED BY <1>12, <1>14, <2>1 DEF Accepts
<1>16. \A f \in DOMAIN query : Parsed(other, fields)[f] = Parsed(query, fields)[f]
  <2>1. other["branch"].default = query["branch"].default
    BY <1>13 DEF AnyText, Field
  <2> QED BY <1>12, <2>1 DEF Parsed
<1>17. DOMAIN shape = DOMAIN other
  BY <1>6 DEF TwinShapes
<1>18. InPath({}, shape, args)
  BY DEF InPath
<1> QED BY <1>1, <1>2, <1>11, <1>12, <1>15, <1>16, <1>17, <1>18

-----------------------------------------------------------------------------
(* The transports agree.                                                   *)

LEMMA RequestsAre ==
  ASSUME NEW tool \in Tool, NEW args
  PROVE  LET request == Encoded(RouteOf(tool), args)
             place == Routes[RouteOf(tool)].place
         IN  /\ request.route = RouteOf(tool) /\ request.authenticated /\ ~request.large /\ request.json
             /\ request.id = IF PathOf(tool) \cap DOMAIN args = {} THEN Absent ELSE AsText(args["id"])
             /\ request.fields = [f \in DOMAIN args \ PathOf(tool) |-> Text(place, args[f])]
BY DEF Encoded, PathOf, Text

\* The accepted calls and the values handed on.
LEMMA CallsAgree ==
  ASSUME NEW tool \in Tool, NEW args, \A f \in DOMAIN args : IsJson(args[f]),
         tool = "search" => DOMAIN args \cap {"limit", "threshold", "filter"} = {},
         Expressible(tool, args)
  PROVE  LET request == Encoded(RouteOf(tool), args)
             byRest == Parsed(Routes[request.route].shape, request.fields)
             byMcp == Parsed(McpShapes[tool], args)
         IN  /\ McpAccepts(tool, args) <=> RestAccepts(request)
             /\ McpAccepts(tool, args) =>
                  \A f \in DOMAIN byMcp : byMcp[f] = IF f \in DOMAIN byRest THEN byRest[f] ELSE Received(request.id)
<1> DEFINE request == Encoded(RouteOf(tool), args)
           route == Routes[RouteOf(tool)]
           fields == request.fields
           shape == McpShapes[tool]
           path == PathOf(tool)
<1>1. /\ request.route = RouteOf(tool) /\ request.authenticated /\ ~request.large /\ request.json
      /\ request.id = IF path \cap DOMAIN args = {} THEN Absent ELSE AsText(args["id"])
      /\ fields = [f \in DOMAIN args \ path |-> Text(route.place, args[f])]
  BY RequestsAre
<1>2. \A f \in DOMAIN args : args[f].type # "digits" /\ args[f].n \in Int
  BY DEF IsJson
<1> HIDE DEF request
<1>3. /\ PathFits(route.path, request.id) <=> InPath(path, shape, args)
      /\ path \cap DOMAIN args # {} => Received(request.id) = Received(args["id"])
  BY <1>1, <1>2, PathsTakeTheSame
<1>4. DOMAIN Parsed(shape, args) = DOMAIN shape /\ DOMAIN Parsed(route.shape, fields) = DOMAIN route.shape
  BY DEF Parsed
<1>5. CASE tool # "session_lookup"
  <2>1. TwinShapes(route.place, path, MoreOf(tool), shape, route.shape)
    BY <1>5, ToolsAreTwins DEF AllButLookup, TwinTool
  <2>2. \A f \in DOMAIN args : args[f].type # "digits" /\ (route.place = "query" => args[f].type # "null")
    BY <1>2 DEF Expressible
  <2>3. MoreOf(tool) \cap DOMAIN args = {}
    BY DEF MoreOf
  <2>4. /\ Accepts(shape, args) <=> (Accepts(route.shape, fields) /\ InPath(path, shape, args))
        /\ \A f \in DOMAIN shape \ path : Parsed(route.shape, fields)[f] = Parsed(shape, args)[f]
    <3> HIDE DEF shape, route, path, fields
    <3> QED BY <1>1, <2>1, <2>2, <2>3, ShapesTakeTheSame
  <2>5. Accepts(shape, args) <=> (PathFits(route.path, request.id) /\ Accepts(route.shape, fields))
    BY <1>3, <2>4
  <2>6. (tool = "move_thought" /\ Accepts(shape, args)) => (MoveTargetFits(args) <=> MoveTargetFits(fields))
    <3> SUFFICES ASSUME tool = "move_thought", Accepts(shape, args)
                 PROVE  MoveTargetFits(args) <=> MoveTargetFits(fields)
      OBVIOUS
    <3>1. route.place = "body" /\ path = {"id"}
      <4>1. Routes["move_thought"] = Route("thought", "body", Joined(MoveTarget, ScopeBody))
        BY RoutesAre DEF ThoughtRouteNames, WriteTools, ThoughtRoutes
      <4> QED BY <4>1 DEF RouteOf, PathOf, Route
    <3>2. "target_visibility" \in DOMAIN shape /\ shape["target_visibility"].required
      <4> DEFINE X == Joined(MoveTarget, MemoryScope)
                 r == [id |-> Required(Uuid)]
      <4>1. shape = Joined(r, X)
        BY ToolsAre DEF WriteTools, ThoughtWriteShapes
      <4>2. "target_visibility" \in DOMAIN MoveTarget /\ MoveTarget["target_visibility"].required
        BY DEF MoveTarget, Required, Word, Field
      <4>3. "target_visibility" \in DOMAIN X /\ X["target_visibility"] = MoveTarget["target_visibility"]
        BY <4>2 DEF Joined
      <4>4. "target_visibility" \notin DOMAIN r
        OBVIOUS
      <4> HIDE DEF X, r
      <4>5. "target_visibility" \in DOMAIN Joined(r, X) /\ Joined(r, X)["target_visibility"] = X["target_visibility"]
        BY <4>3, <4>4 DEF Joined
      <4> QED BY <4>1, <4>2, <4>3, <4>5
    <3>3. "target_visibility" \in DOMAIN args
      BY <3>2 DEF Accepts
    <3>4. /\ DOMAIN fields = DOMAIN args \ {"id"}
          /\ \A f \in DOMAIN args \ {"id"} : fields[f] = args[f]
      BY <1>1, <3>1 DEF Text
    <3> QED BY <3>3, <3>4 DEF MoveTargetFits
  <2>7. RouteOf(tool) # "session_lookup" /\ (RouteOf(tool) = "move_thought" <=> tool = "move_thought")
    BY <1>5 DEF RouteOf
  <2>8. McpAccepts(tool, args) <=> RestAccepts(request)
    BY <1>1, <1>5, <2>5, <2>6, <2>7 DEF McpAccepts, RestAccepts
  <2>9. ASSUME McpAccepts(tool, args), NEW f \in DOMAIN shape
        PROVE  Parsed(shape, args)[f] = IF f \in DOMAIN route.shape THEN Parsed(route.shape, fields)[f]
                                        ELSE Received(request.id)
    <3>1. CASE f \notin path
      <4>1. f \in DOMAIN route.shape
        BY <2>1, <2>9, <3>1 DEF TwinShapes
      <4> QED BY <2>4, <2>9, <3>1, <4>1
    <3>2. CASE f \in path
      <4>1. f \notin DOMAIN route.shape
        BY <2>1, <2>9, <3>2 DEF TwinShapes
      <4>2. f = "id" /\ path = {"id"}
        BY <3>2 DEF PathOf
      <4>3. shape["id"].required
        <5>1. tool \in ThoughtPaths \/ tool = "session_update_status"
          BY <4>2, PathsAre DEF PathOf
        <5>2. CASE tool \in ThoughtPaths
          BY <5>2, IdsOfThoughts DEF Required, Uuid, Field
        <5>3. CASE tool = "session_update_status"
          BY <5>3, IdOfStatus DEF Required, Number, Field
        <5> QED BY <5>1, <5>2, <5>3
      <4>4. "id" \in DOMAIN args
        BY <2>9, <4>2, <4>3 DEF McpAccepts, Accepts
      <4>5. Parsed(shape, args)[f] = Received(args["id"])
        BY <2>9, <4>2, <4>4 DEF Parsed
      <4> QED BY <1>3, <4>1, <4>2, <4>4, <4>5
    <3> QED BY <3>1, <3>2
  <2> QED BY <1>1, <1>4, <2>8, <2>9 DEF request
<1>6. CASE tool = "session_lookup"
  <2>1. route = Route("none", "query", SessionLookupQuery) /\ path = {}
    <3>1. Routes["session_lookup"] = Route("none", "query", SessionLookupQuery)
      BY RoutesAre DEF SessionRouteNames, SessionTools, SessionRoutes
    <3> QED BY <1>6, <3>1 DEF RouteOf, PathOf, Route
  <2>2. fields = [f \in DOMAIN args |-> AsText(args[f])]
    BY <1>1, <2>1 DEF Route, Text
  <2>3. /\ Accepts(shape, args) <=> Accepts(route.shape, fields)
        /\ \A f \in DOMAIN shape : Parsed(route.shape, fields)[f] = Parsed(shape, args)[f]
    <3>1. Expressible("session_lookup", args)
      BY <1>6
    <3>2. /\ Accepts(McpShapes["session_lookup"], args) <=> Accepts(SessionLookupQuery, fields)
          /\ \A f \in DOMAIN McpShapes["session_lookup"] :
               Parsed(SessionLookupQuery, fields)[f] = Parsed(McpShapes["session_lookup"], args)[f]
      BY <2>2, <3>1, LookupTakesTheSame
    <3> QED BY <1>6, <2>1, <3>2 DEF Route
  <2>4. ("branch" \in DOMAIN args) => args["branch"].n > 0
    BY <1>6 DEF Expressible
  <2>5. DOMAIN fields = DOMAIN args
    BY <2>2
  <2>6. RouteOf(tool) = "session_lookup"
    BY <1>6 DEF RouteOf
  <2>7. McpAccepts(tool, args) <=> RestAccepts(request)
    BY <1>1, <1>6, <2>1, <2>3, <2>4, <2>5, <2>6 DEF McpAccepts, RestAccepts, Route, PathFits
  <2>8. \A f \in DOMAIN shape : f \in DOMAIN route.shape
    <3>1. Expressible("session_lookup", args)
      BY <1>6
    <3>2. DOMAIN McpShapes["session_lookup"] = DOMAIN SessionLookupQuery
      BY <2>2, <3>1, LookupTakesTheSame
    <3> QED BY <1>6, <2>1, <3>2 DEF Route
  <2> QED BY <1>1, <1>4, <2>3, <2>7, <2>8 DEF request
<1> QED BY <1>5, <1>6

\* Both transports take the same arguments, hand the same values and defaults to the service and call the
\* same outcomes failures (schemas.ts, api.ts, mcp-server.ts), for every JSON value of every field, except
\* that the reduced search is compared without the options only the full one has.
THEOREM TransportsTakeTheSame ==
  ASSUME NEW tool \in Tool, NEW outcome \in OutcomeOf(tool),
         NEW args, \A f \in DOMAIN args : IsJson(args[f]),
         tool = "search" => DOMAIN args \cap {"limit", "threshold", "filter"} = {}
  PROVE  TransportsAgree(tool, args, outcome)
<1> DEFINE request == Encoded(RouteOf(tool), args)
           byRest == Parsed(Routes[request.route].shape, request.fields)
           byMcp == Parsed(McpShapes[tool], args)
<1> SUFFICES ASSUME Expressible(tool, args)
             PROVE  /\ McpAccepts(tool, args) <=> RestAccepts(request)
                    /\ McpAccepts(tool, args) =>
                         \A f \in DOMAIN byMcp : byMcp[f] = IF f \in DOMAIN byRest THEN byRest[f]
                                                            ELSE Received(request.id)
                    /\ (McpAnswer(tool, args, outcome) = "error") <=>
                         /\ RestAnswer(request, outcome) >= 400
                         /\ ~(McpAccepts(tool, args) /\ tool = "session_lookup" /\ outcome = "missing")
  BY DEF TransportsAgree
<1>1. /\ McpAccepts(tool, args) <=> RestAccepts(request)
      /\ McpAccepts(tool, args) =>
           \A f \in DOMAIN byMcp : byMcp[f] = IF f \in DOMAIN byRest THEN byRest[f] ELSE Received(request.id)
  BY CallsAgree
<1>2. RestAnswer(request, outcome) = IF RestAccepts(request) THEN RestStatus(RouteOf(tool), outcome) ELSE 400
  <2>1. request.route = RouteOf(tool) /\ request.authenticated /\ ~request.large
    BY RequestsAre
  <2>2. request.route \in DOMAIN Routes
    BY <2>1, PathsAre
  <2> HIDE DEF request
  <2> QED BY <2>1, <2>2 DEF RestAnswer
<1>3. (RestAnswer(request, outcome) >= 400) <=> (~RestAccepts(request) \/ outcome \in Exception \cup {"missing"})
  <2>1. CASE RestAccepts(request)
    <3> HIDE DEF request
    <3> QED BY <1>2, <2>1, RestTells
  <2>2. CASE ~RestAccepts(request)
    BY <1>2, <2>2
  <2> QED BY <2>1, <2>2
<1> HIDE DEF request, byRest, byMcp
<1> QED BY <1>1, <1>3, ToolsTell DEF Exception

-----------------------------------------------------------------------------
(* The calls that are made.                                                *)

LEMMA FieldsAsked ==
  ASSUME AskFields
  PROVE  UNCHANGED documentVars /\ call'.fn = "fields" /\ NothingAuthoredIsLost(call'.doc)
<1>1. PICK key \in SessionKey \cup {"misspelt"}, v \in Written, titled \in BOOLEAN :
        call' = [fn |-> "fields",
                 doc |-> Joined(One(key, v), IF titled THEN One("title", Value("string", 1)) ELSE NoFields)]
  BY DEF AskFields
<1> DEFINE f == One(key, v)
           g == IF titled THEN One("title", Value("string", 1)) ELSE NoFields
<1>2. \A k \in DOMAIN f : f[k].n \in Int
  BY NumberAssumption DEF One, Written, Value
<1>3. \A k \in DOMAIN g : g[k].n \in Int
  BY DEF One, NoFields, Value
<1> HIDE DEF f, g
<1>4. \A k \in DOMAIN Joined(f, g) : Joined(f, g)[k].n \in Int
  BY <1>2, <1>3 DEF Joined
<1>5. NothingAuthoredIsLost(Joined(f, g))
  BY <1>4, FieldsAreStored
<1> QED BY <1>1, <1>5 DEF AskFields, Idle, f, g

LEMMA ArtifactsAsked ==
  ASSUME AskArtifacts
  PROVE  UNCHANGED documentVars /\ call'.fn = "artifacts" /\ ArtifactsAreKept(call'.entries)
<1> DEFINE S == Entry \cup {Sound}
<1>1. PICK entry \in Entry, entries \in {<<>>, <<Sound>>} :
        \E list \in {<<entry>> \o entries, entries \o <<entry>>} :
          call' = [fn |-> "artifacts", entries |-> list]
  BY DEF AskArtifacts
<1>2. PICK list \in {<<entry>> \o entries, entries \o <<entry>>} :
        call' = [fn |-> "artifacts", entries |-> list]
  BY <1>1
<1>3. entry \in S /\ Sound \in S
  OBVIOUS
<1> HIDE DEF S
<1>4. list \in Seq(S)
  <2>1. <<entry>> \in Seq(S) /\ <<Sound>> \in Seq(S) /\ <<>> \in Seq(S)
    BY <1>3
  <2> HIDE DEF S
  <2> QED BY <1>2, <2>1
<1>5. ArtifactsAreKept(list)
  BY <1>4, ArtifactsAreStored
<1> QED BY <1>2, <1>5 DEF AskArtifacts, Idle

LEMMA InstantAsked ==
  ASSUME AskInstant
  PROVE  UNCHANGED documentVars /\ call'.fn = "instant" /\ DaysAreKept(call'.t)
<1>1. PICK t \in Instant : call' = [fn |-> "instant", t |-> t]
  BY DEF AskInstant
<1>2. t \in [date : Dates, minute : Int, offset : Int]
  BY DEF Instant, Dates
<1>3. DaysAreKept(t)
  BY <1>2, StoredDaysAreTheInstants
<1> QED BY <1>1, <1>3 DEF AskInstant, Idle

LEMMA SourcesAsked ==
  ASSUME AskSources
  PROVE  UNCHANGED documentVars /\ call'.fn = "sources" /\ SourcesDiffer(call'.a, call'.b)
<1>1. PICK a \in [1..4 -> UpTo({1, 2}, 1)], b \in [1..4 -> UpTo({1, 2}, 1)] :
        call' = [fn |-> "sources", a |-> a, b |-> b]
  BY DEF AskSources
<1>2. UpTo({1, 2}, 1) \subseteq Seq(Char)
  <2> SUFFICES ASSUME NEW k \in 0..1, NEW s \in [1..k -> {1, 2}]
               PROVE  s \in Seq(Char)
    BY DEF UpTo
  <2> QED BY DEF Char, Nul
<1>3. a \in [1..4 -> Seq(Char)] /\ b \in [1..4 -> Seq(Char)]
  BY <1>2
<1>4. SourcesDiffer(a, b)
  BY <1>3, SourcesAreTold
<1> QED BY <1>1, <1>4 DEF AskSources, Idle

LEMMA RecoveryAsked ==
  ASSUME AskRecovery
  PROVE  /\ UNCHANGED documentVars /\ call'.fn = "recovery"
         /\ RecoveryFindsTheRecord(call'.input, call'.principal, call'.a)
<1>1. PICK input \in RequestSet, p \in Principal \cup {None}, a \in Stored :
        call' = [fn |-> "recovery", input |-> input, principal |-> p, a |-> a]
  BY DEF AskRecovery
<1>2. PICK q \in Principal : a \in WriteAudiences(q)
  BY DEF Stored
<1>3. RecoveryFindsTheRecord(input, p, a)
  BY <1>2, AbridgedRecordsAreFound
<1> QED BY <1>1, <1>3 DEF AskRecovery, Idle

LEMMA MoveAsked ==
  ASSUME AskMove
  PROVE  UNCHANGED documentVars /\ call'.fn = "move" /\ MoveLandsWhereNamed(call'.input, call'.principal)
<1>1. PICK input \in RequestSet, p \in Principal \cup {None} :
        call' = [fn |-> "move", input |-> input, principal |-> p]
  BY DEF AskMove
<1>2. MoveLandsWhereNamed(input, p)
  BY MovesLand
<1> QED BY <1>1, <1>2 DEF AskMove, Idle

LEMMA RestAsked ==
  ASSUME AskRest
  PROVE  UNCHANGED documentVars /\ call'.fn = "rest" /\ StrangersLearnNothing(call'.request, call'.outcome)
<1>1. PICK route \in DOMAIN Routes \cup {"no such"}, large \in BOOLEAN, json \in BOOLEAN, outcome \in Outcome :
        call' = [fn |-> "rest", outcome |-> outcome,
                 request |-> [route |-> route, authenticated |-> TRUE, large |-> large, json |-> json, id |-> Absent,
                              fields |-> NoFields]]
  BY DEF AskRest
<1> DEFINE request == [route |-> route, authenticated |-> TRUE, large |-> large, json |-> json, id |-> Absent,
                       fields |-> NoFields]
<1>2. ~[request EXCEPT !.authenticated = FALSE].authenticated
  OBVIOUS
<1> HIDE DEF request
<1>3. StrangersLearnNothing(request, outcome)
  BY <1>2 DEF StrangersLearnNothing, RestAnswer
<1> QED BY <1>1, <1>3 DEF AskRest, Idle, request

LEMMA DoorsAsked ==
  ASSUME AskDoors
  PROVE  UNCHANGED documentVars /\ call'.fn = "doors" /\ DoorsMeanWhatTheySay(call'.env)
<1> DEFINE S == {"a", "b", "c", "blank", "control", "c1"}
<1>1. PICK env \in [key : {"blank", "short", "long"}, principal : {"blank", "set", "long"},
                    native : {"blank", "true", "false", "yes"}, auth0 : [TrustRoot -> {"blank", "https", "other"}],
                    allowed : Subjects, services : {<<>>, <<"a">>, <<"blank">>}] :
        call' = [fn |-> "doors", env |-> env]
  BY DEF AskDoors
<1>2. Subjects \subseteq Seq(S) /\ {<<>>, <<"a">>, <<"blank">>} \subseteq Seq(S)
  BY DEF Subjects
<1>3. env.key \in {"blank", "short", "long"} /\ env.allowed \in Seq(S) /\ env.services \in Seq(S)
  BY <1>2
<1>4. DoorsMeanWhatTheySay(env)
  BY <1>3, DoorsAreAsSet
<1> QED BY <1>1, <1>4 DEF AskDoors, Idle

LEMMA MetadataAsked ==
  ASSUME AskMetadata
  PROVE  UNCHANGED documentVars /\ call'.fn = "metadata" /\ FallbackIsAsked(call'.env)
<1> DEFINE lists == {<<>>, <<"pushover">>, <<"ntfy">>, <<"blank", "ntfy", "pushover">>, <<"ntfy", "ntfy">>,
                     <<"sms">>, <<"blank">>}
           S == {"pushover", "ntfy", "sms", "blank"}
<1>1. PICK env \in [primary : {"blank", "true", "false", "yes"}, chat : [base : {TRUE}, model : BOOLEAN],
                    fallback : [base : BOOLEAN, model : {TRUE}],
                    policy : {"blank", "off", "alert", "allow", "Allow"}, channels : lists,
                    pushover : [app : BOOLEAN, user : {TRUE}], ntfy : Ntfy] :
        call' = [fn |-> "metadata", env |-> env]
  BY DEF AskMetadata
<1>2. env.channels \in Seq(S)
  <2>1. lists \subseteq Seq(S)
    OBVIOUS
  <2> HIDE DEF lists
  <2> QED BY <2>1
<1>3. FallbackIsAsked(env)
  BY <1>2, FallbackIsOptIn
<1> QED BY <1>1, <1>3 DEF AskMetadata, Idle

LEMMA NumberAsked ==
  ASSUME AskNumber
  PROVE  UNCHANGED documentVars /\ call'.fn = "number" /\ NumberIsAsWritten(call'.raw, call'.fallback, 3)
<1>1. PICK raw \in [class : {"blank", "digits", "text"}, n : 0..4], fallback \in {1, 3} :
        call' = [fn |-> "number", raw |-> raw, fallback |-> fallback]
  BY DEF AskNumber
<1>2. raw.n \in Int /\ fallback \in Nat \ {0} /\ 3 \in Nat
  OBVIOUS
<1>3. NumberIsAsWritten(raw, fallback, 3)
  BY <1>2, NumbersAreAsWritten
<1> QED BY <1>1, <1>3 DEF AskNumber, Idle

LEMMA ClassifierAsked ==
  ASSUME AskClassifier
  PROVE  /\ UNCHANGED documentVars /\ call'.fn = "classifier"
         /\ LateAnswersAreNotUsed(call'.primary)
         /\ DegradationIsTold(call'.setup, call'.primary, call'.fallback)
<1>1. PICK setup \in [primary : BOOLEAN, fallback : BOOLEAN], x \in Exchange, y \in Fallbacks :
        call' = [fn |-> "classifier", setup |-> setup, primary |-> x, fallback |-> y]
  BY DEF AskClassifier
<1>2. x \in Exchanges
  BY DEF Exchange, Exchanges, Stage
<1>3. LateAnswersAreNotUsed(x) /\ DegradationIsTold(setup, x, y)
  BY <1>2, NothingLateIsUsed, DegradationsAreTold
<1> QED BY <1>1, <1>3 DEF AskClassifier, Idle

LEMMA EmbedderAsked ==
  ASSUME AskEmbedder
  PROVE  UNCHANGED documentVars /\ call'.fn = "embedder" /\ OnlySoundVectors(call'.x, call'.inFlight)
<1>1. PICK x \in [left : {0, 1}, status : {200, 400, 500}, vectors : UpTo(Vector, 2), fires : 0..2, fails : 0..2,
                  body : Body],
           inFlight \in {0, InFlightMost} :
        call' = [fn |-> "embedder", x |-> x, inFlight |-> inFlight]
  BY DEF AskEmbedder
<1>2. Vector \subseteq AnyVector
  BY OutboundAssumption DEF Vector, AnyVector
<1>3. UpTo(Vector, 2) \subseteq Seq(AnyVector)
  <2> SUFFICES ASSUME NEW k \in 0..2, NEW s \in [1..k -> Vector]
               PROVE  s \in Seq(AnyVector)
    BY DEF UpTo
  <2> HIDE DEF AnyVector
  <2> QED BY <1>2
<1>4. x \in [left : Int, status : Int, vectors : Seq(AnyVector), fires : Stage, fails : Stage, body : Body]
  BY <1>3 DEF Stage
<1>5. inFlight \in Nat
  BY OutboundAssumption
<1>6. OnlySoundVectors(x, inFlight)
  BY <1>4, <1>5, VectorsAreSound
<1> QED BY <1>1, <1>6 DEF AskEmbedder, Idle

-----------------------------------------------------------------------------
(* What the transports are asked.                                          *)

\* A field a probe can fill: a type that is neither null nor blank and no digits, and a bound.
Fillable(rule) ==
  /\ \E type \in rule.types : type \notin {"null", "blank"}
  /\ "digits" \notin rule.types /\ rule.least \in Int

LEMMA RulesAreFillable ==
  /\ Fillable(AnyText) /\ Fillable(Timestamp) /\ Fillable(Threshold) /\ Fillable(Filter) /\ Fillable(Claims)
  /\ Fillable(Required(SearchQuery)) /\ Fillable(Required(StoredText)) /\ Fillable(Required(Uuid))
  /\ Fillable(ScopeId) /\ Fillable(Required(ScopeId)) /\ Fillable(NullableId)
  /\ \A n \in Int : /\ Fillable(Word(n)) /\ Fillable(Required(Word(n))) /\ Fillable(Default(Word(n), "word", 1))
                    /\ Fillable(Number(1, n)) /\ Fillable(Required(Number(1, n)))
                    /\ \A d \in Int : Fillable(Default(Number(1, n), "integer", d))
<1>1. /\ Fillable(AnyText) /\ Fillable(Timestamp) /\ Fillable(Threshold) /\ Fillable(Filter) /\ Fillable(Claims)
      /\ Fillable(Required(SearchQuery)) /\ Fillable(Required(StoredText)) /\ Fillable(Required(Uuid))
  BY DEF Fillable, AnyText, Timestamp, Threshold, Filter, Claims, Required, Default, SearchQuery, StoredText, Uuid, Field
<1>2. Fillable(ScopeId) /\ Fillable(Required(ScopeId)) /\ Fillable(NullableId)
  BY DEF Fillable, ScopeId, NullableId, Required, Field
<1>3. \A n \in Int : /\ Fillable(Word(n)) /\ Fillable(Required(Word(n))) /\ Fillable(Default(Word(n), "word", 1))
                     /\ Fillable(Number(1, n)) /\ Fillable(Required(Number(1, n)))
                     /\ \A d \in Int : Fillable(Default(Number(1, n), "integer", d))
  BY DEF Fillable, Word, Number, Required, Default, Field
<1> QED BY <1>1, <1>2, <1>3

FillableShape(shape) == \A f \in DOMAIN shape : Fillable(shape[f])

LEMMA JoinedIsFillable ==
  ASSUME NEW f, NEW g, FillableShape(f), FillableShape(g)
  PROVE  FillableShape(Joined(f, g))
BY DEF FillableShape, Joined

LEMMA ScopeIsFillable == FillableShape(MemoryScope)
BY RulesAreFillable DEF FillableShape, MemoryScope

LEMMA ReadShapesAreFillable ==
  ASSUME NEW tool \in ReadTools
  PROVE  FillableShape(McpShapes[tool])
<1> DEFINE search == [query |-> Required(SearchQuery)]
           searchThoughts == [query |-> Required(SearchQuery), limit |-> Default(Number(1, 100), "integer", 10),
                              threshold |-> Threshold, filter |-> Filter]
           list == [limit |-> Default(Number(1, 100), "integer", 10), type |-> AnyText, topic |-> AnyText,
                    person |-> AnyText, days |-> Number(1, 3650)]
           fetch == [id |-> Required(Uuid)]
<1>1. /\ McpShapes["search"] = Joined(search, MemoryScope)
      /\ McpShapes["search_thoughts"] = Joined(searchThoughts, MemoryScope)
      /\ McpShapes["list_thoughts"] = Joined(list, MemoryScope)
      /\ McpShapes["fetch"] = Joined(fetch, MemoryScope)
      /\ McpShapes["thought_stats"] = MemoryScope
  BY ToolsAre DEF ReadTools, ThoughtReadShapes
<1>2. FillableShape(search) /\ FillableShape(searchThoughts) /\ FillableShape(list) /\ FillableShape(fetch)
  BY RulesAreFillable DEF FillableShape
<1> HIDE DEF search, searchThoughts, list, fetch
<1> QED BY <1>1, <1>2, JoinedIsFillable, ScopeIsFillable DEF ReadTools

LEMMA WriteShapesAreFillable ==
  ASSUME NEW tool \in WriteTools
  PROVE  FillableShape(McpShapes[tool])
<1> DEFINE capture == [content |-> Required(StoredText), provenance |-> Claims]
           update == [id |-> Required(Uuid), content |-> Required(StoredText)]
           target == Joined(MoveTarget, MemoryScope)
           id == [id |-> Required(Uuid)]
<1>1. /\ McpShapes["capture_thought"] = Joined(capture, MemoryScope)
      /\ McpShapes["update_thought"] = Joined(update, MemoryScope)
      /\ McpShapes["move_thought"] = Joined(id, target)
      /\ McpShapes["forget_thought"] = Joined(id, MemoryScope)
      /\ McpShapes["restore_thought"] = Joined(id, MemoryScope)
  BY ToolsAre DEF WriteTools, ThoughtWriteShapes
<1>2. FillableShape(capture) /\ FillableShape(update) /\ FillableShape(id) /\ FillableShape(MoveTarget)
  BY RulesAreFillable DEF FillableShape, MoveTarget
<1>3. FillableShape(target)
  BY <1>2, JoinedIsFillable, ScopeIsFillable
<1> HIDE DEF capture, update, id, target
<1> QED BY <1>1, <1>2, <1>3, JoinedIsFillable, ScopeIsFillable DEF WriteTools

LEMMA SessionShapesAreFillable ==
  ASSUME NEW tool \in SessionTools
  PROVE  FillableShape(McpShapes[tool])
<1> DEFINE capture == [toml_text |-> Required(StoredText)]
           lookup == [id |-> Number(1, MaxSafe), branch |-> AnyText]
           search == [query |-> Required(SearchQuery), limit |-> Default(Number(1, 50), "integer", 5),
                      threshold |-> Threshold, status |-> Word(5), repo_url |-> AnyText, tag |-> AnyText]
           list == [status |-> Word(5), repo_url |-> AnyText, branch |-> AnyText, agent |-> AnyText,
                    tag |-> AnyText, linked_issue |-> AnyText, since |-> Timestamp, until |-> Timestamp,
                    order_by |-> Default(Word(4), "word", 1), limit |-> Default(Number(1, 200), "integer", 50)]
           status == [id |-> Required(Number(1, MaxSafe)), status |-> Required(Word(5))]
<1>1. /\ McpShapes["session_capture"] = capture
      /\ McpShapes["session_lookup"] = Joined(lookup, MemoryScope)
      /\ McpShapes["session_search"] = Joined(search, MemoryScope)
      /\ McpShapes["session_list"] = Joined(list, MemoryScope)
      /\ McpShapes["session_update_status"] = Joined(status, MemoryScope)
  BY ToolsAre DEF SessionTools, SessionShapes
<1>2. /\ FillableShape(capture) /\ FillableShape(lookup) /\ FillableShape(search)
      /\ FillableShape(list) /\ FillableShape(status)
  BY RulesAreFillable, NumberAssumption DEF FillableShape
<1> HIDE DEF capture, lookup, search, list, status
<1> QED BY <1>1, <1>2, JoinedIsFillable, ScopeIsFillable DEF SessionTools

Sendable(args) == \A f \in DOMAIN args : IsJson(args[f])

LEMMA LeastIsSendable ==
  ASSUME NEW tool \in Tool
  PROVE  Sendable(Least(tool)) /\ DOMAIN Least(tool) \subseteq DOMAIN McpShapes[tool]
<1>1. FillableShape(McpShapes[tool])
  BY ToolsAre, ReadShapesAreFillable, WriteShapesAreFillable, SessionShapesAreFillable
<1>2. \A f \in DOMAIN McpShapes[tool] : IsJson(Good(McpShapes[tool][f]))
  <2> TAKE f \in DOMAIN McpShapes[tool]
  <2> DEFINE rule == McpShapes[tool][f]
             chosen == CHOOSE type \in rule.types : type \notin {"null", "blank"}
  <2>1. Fillable(rule)
    BY <1>1 DEF FillableShape
  <2> HIDE DEF rule
  <2>2. chosen \in rule.types
    BY <2>1 DEF Fillable
  <2>3. Good(rule).type = chosen /\ Good(rule).n \in Int
    BY <2>1 DEF Good, Value, Fillable
  <2> QED BY <2>1, <2>2, <2>3 DEF IsJson, Fillable, rule
<1> QED BY <1>2 DEF Sendable, Least

LEMMA ProbesAreSendable ==
  ASSUME NEW v \in Probe
  PROVE  IsJson(v)
BY NumberAssumption, LimitsAssumption DEF Probe, IsJson, Value

LEMMA OneMoreIsSendable ==
  ASSUME NEW f, NEW v, IsJson(v), NEW args, Sendable(args)
  PROVE  Sendable(Joined(One(f, v), args)) /\ DOMAIN Joined(One(f, v), args) = {f} \cup DOMAIN args
BY DEF Sendable, Joined, One

LEMMA ReducedSearchTakes ==
  /\ DOMAIN McpShapes["search"] \cap {"limit", "threshold", "filter"} = {}
  /\ "misspelt" \notin {"limit", "threshold", "filter"}
<1> DEFINE A == [query |-> Required(SearchQuery)]
<1>1. McpShapes["search"] = Joined(A, MemoryScope)
  BY ToolsAre DEF ReadTools, ThoughtReadShapes
<1>2. DOMAIN A = {"query"}
  OBVIOUS
<1> HIDE DEF A
<1>3. DOMAIN Joined(A, MemoryScope) = DOMAIN A \cup DOMAIN MemoryScope
  BY JoinedFields, Zenon
<1> QED BY <1>1, <1>2, <1>3, ScopesAreTwins DEF ScopeFields

LEMMA BothAsked ==
  ASSUME AskBoth
  PROVE  UNCHANGED documentVars /\ call'.fn = "both" /\ TransportsAgree(call'.tool, call'.args, call'.outcome)
<1>1. PICK tool \in Tool : \E args \in {a \in Single(tool) : Suited(tool, a)} :
        \E outcome \in OutcomeOf(tool) \cap (IF args = Least(tool) THEN Outcome ELSE {"done", "missing", "rows"}) :
          call' = [fn |-> "both", tool |-> tool, args |-> args, outcome |-> outcome]
  BY DEF AskBoth
<1>2. PICK args \in Single(tool), outcome \in OutcomeOf(tool) :
        call' = [fn |-> "both", tool |-> tool, args |-> args, outcome |-> outcome]
  BY <1>1
<1>3. Sendable(args) /\ DOMAIN args \subseteq DOMAIN McpShapes[tool] \cup {"misspelt"}
  <2>0. \A f, v : IsJson(v) =>
          /\ Sendable(Joined(One(f, v), Least(tool)))
          /\ DOMAIN Joined(One(f, v), Least(tool)) = {f} \cup DOMAIN Least(tool)
    BY LeastIsSendable, OneMoreIsSendable, Zenon
  <2>1. CASE args = Least(tool)
    BY <2>1, LeastIsSendable
  <2>2. CASE args = Joined(One("misspelt", Value("text", 1)), Least(tool))
    <3>1. IsJson(Value("text", 1))
      BY DEF IsJson, Value
    <3> QED BY <2>0, <2>2, <3>1, LeastIsSendable
  <2>3. ASSUME NEW f \in DOMAIN McpShapes[tool], NEW v \in Probe, args = Joined(One(f, v), Least(tool))
        PROVE  Sendable(args) /\ DOMAIN args \subseteq DOMAIN McpShapes[tool] \cup {"misspelt"}
    BY <2>0, <2>3, ProbesAreSendable, LeastIsSendable
  <2> QED BY <2>1, <2>2, <2>3 DEF Single
<1>4. tool = "search" => DOMAIN args \cap {"limit", "threshold", "filter"} = {}
  BY <1>3, ReducedSearchTakes
<1>5. TransportsAgree(tool, args, outcome)
  BY <1>3, <1>4, TransportsTakeTheSame DEF Sendable
<1> QED BY <1>2, <1>5 DEF AskBoth, Idle

LEMMA TogetherAsked ==
  ASSUME AskTogether
  PROVE  UNCHANGED documentVars /\ call'.fn = "both" /\ TransportsAgree(call'.tool, call'.args, call'.outcome)
<1>1. PICK pair \in Together :
        \E x \in Sent(McpShapes[pair[1]][pair[2]]), y \in Sent(McpShapes[pair[1]][pair[3]]) :
          call' = [fn |-> "both", tool |-> pair[1], outcome |-> "done",
                   args |-> Joined(One(pair[2], x), Joined(One(pair[3], y), Least(pair[1])))]
  BY DEF AskTogether
<1>2. PICK x \in Probe, y \in Probe :
        call' = [fn |-> "both", tool |-> pair[1], outcome |-> "done",
                 args |-> Joined(One(pair[2], x), Joined(One(pair[3], y), Least(pair[1])))]
  BY <1>1 DEF Sent
<1> DEFINE tool == pair[1]
           most == Joined(One(pair[3], y), Least(tool))
           args == Joined(One(pair[2], x), most)
<1>3. tool \in {"move_thought", "session_lookup"}
  BY DEF Together
<1> HIDE DEF tool
<1>4. tool \in Tool /\ tool # "search" /\ "done" \in OutcomeOf(tool)
  BY <1>3, ToolsAre DEF WriteTools, SessionTools, OutcomeOf, Outcome, Rows
<1>5. Sendable(most)
  BY <1>4, LeastIsSendable, ProbesAreSendable, OneMoreIsSendable
<1> HIDE DEF most
<1>6. Sendable(args)
  BY <1>5, ProbesAreSendable, OneMoreIsSendable
<1> HIDE DEF args
<1>7. TransportsAgree(tool, args, "done")
  BY <1>4, <1>6, TransportsTakeTheSame DEF Sendable
<1>8. call'.fn = "both" /\ call'.tool = tool /\ call'.args = args /\ call'.outcome = "done"
  BY <1>2 DEF tool, args, most
<1> QED BY <1>7, <1>8 DEF AskTogether, Idle

-----------------------------------------------------------------------------
(* Every call.                                                             *)

AnswerCalls == {"text", "records", "record", "search", "session search", "list"}

LEMMA AnswersAsked ==
  ASSUME \/ AskText \/ AskRecords \/ AskRecord \/ AskSearch \/ AskFilteredSearch \/ AskSessionSearch
         \/ AskList \/ AskOrder
  PROVE  UNCHANGED documentVars /\ call'.fn \in AnswerCalls
<1>1. CASE AskText
  BY <1>1 DEF AskText, Idle, AnswerCalls
<1>2. CASE AskRecords
  BY <1>2 DEF AskRecords, Idle, AnswerCalls
<1>3. CASE AskRecord
  BY <1>3 DEF AskRecord, Idle, AnswerCalls
<1>4. CASE AskSearch
  BY <1>4 DEF AskSearch, Idle, AnswerCalls
<1>5. CASE AskFilteredSearch
  BY <1>5 DEF AskFilteredSearch, Idle, AnswerCalls
<1>6. CASE AskSessionSearch
  <2>1. PICK rows \in [1..3 -> [visible : BOOLEAN, similarity : 1..3]], scanned \in SUBSET (1..3), limit \in 1..3,
             contract \in BOOLEAN :
          call' = [fn |-> "session search", rows |-> rows, scanned |-> scanned,
                   q |-> [limit |-> limit, threshold |-> 2, contract |-> contract]]
    BY <1>6 DEF AskSessionSearch
  <2>2. call'.fn = "session search"
    BY <2>1
  <2> QED BY <1>6, <2>2 DEF AskSessionSearch, Idle, AnswerCalls
<1>7. CASE AskList
  BY <1>7 DEF AskList, Idle, AnswerCalls
<1>8. CASE AskOrder
  BY <1>8 DEF AskOrder, Idle, AnswerCalls
<1> QED BY <1>1, <1>2, <1>3, <1>4, <1>5, <1>6, <1>7, <1>8

\* What the operators asked of the call have been found to promise.
EdgesInv == DocumentInv /\ DocumentsAreReadAsWritten /\ SurfacesAgree /\ OperatorsChoicesHold

LEMMA EdgesStart == Init => EdgesInv
<1> SUFFICES ASSUME Init
             PROVE  EdgesInv
  OBVIOUS
<1>1. DocumentInv
  BY ScanStarts DEF Init
<1>2. call.fn = "none"
  BY DEF Init
<1>3. DocumentsAreReadAsWritten
  BY <1>2 DEF DocumentsAreReadAsWritten
<1>4. SurfacesAgree
  BY <1>2 DEF SurfacesAgree
<1>5. OperatorsChoicesHold
  BY <1>2 DEF OperatorsChoicesHold
<1> QED BY <1>1, <1>3, <1>4, <1>5 DEF EdgesInv

\* A call leaves the document alone and is one whose answer is known.
LEMMA CallsKeep ==
  ASSUME DocumentInv, UNCHANGED documentVars, DocumentsAreReadAsWritten', SurfacesAgree', OperatorsChoicesHold'
  PROVE  EdgesInv'
<1>1. DocumentInv'
  BY ScanStep
<1> QED BY <1>1 DEF EdgesInv

LEMMA EdgesStep == EdgesInv /\ [Next]_vars => EdgesInv'
<1> SUFFICES ASSUME EdgesInv, [Next]_vars
             PROVE  EdgesInv'
  OBVIOUS
<1> USE DEF EdgesInv
<1>1. CASE Begin
  <2>1. UNCHANGED documentVars /\ call'.fn = "document"
    BY <1>1 DEF Begin, Idle
  <2>2. DocumentInv'
    BY <2>1, ScanStep
  <2>3. DocumentsAreReadAsWritten'
    BY <2>1, <2>2 DEF DocumentsAreReadAsWritten, DocumentInv
  <2>4. SurfacesAgree' /\ OperatorsChoicesHold'
    BY <2>1 DEF SurfacesAgree, OperatorsChoicesHold
  <2> QED BY <2>2, <2>3, <2>4
<1>2. CASE ReadOn
  <2>1. call' = call /\ call.fn = "document" /\ ScanDocument
    BY <1>2 DEF ReadOn
  <2>2. DocumentInv'
    BY <2>1, ScanStep
  <2>3. DocumentsAreReadAsWritten'
    BY <2>1, <2>2 DEF DocumentsAreReadAsWritten, DocumentInv
  <2>4. SurfacesAgree' /\ OperatorsChoicesHold'
    BY <2>1 DEF SurfacesAgree, OperatorsChoicesHold
  <2> QED BY <2>2, <2>3, <2>4
<1>3. CASE UNCHANGED vars
  <2>1. call' = call /\ UNCHANGED documentVars
    BY <1>3 DEF vars
  <2>2. DocumentInv'
    BY <2>1, ScanStep
  <2>3. DocumentsAreReadAsWritten'
    BY <2>1, <2>2 DEF DocumentsAreReadAsWritten, DocumentInv
  <2>4. SurfacesAgree' /\ OperatorsChoicesHold'
    BY <2>1 DEF SurfacesAgree, OperatorsChoicesHold
  <2> QED BY <2>2, <2>3, <2>4
<1>4. CASE AskFields \/ AskArtifacts \/ AskInstant \/ AskSources
  <2>1. UNCHANGED documentVars /\ call'.fn \in {"fields", "artifacts", "instant", "sources"}
    BY <1>4, FieldsAsked, ArtifactsAsked, InstantAsked, SourcesAsked
  <2>2. DocumentsAreReadAsWritten'
    <3>1. CASE AskFields
      BY <3>1, FieldsAsked DEF DocumentsAreReadAsWritten
    <3>2. CASE AskArtifacts
      BY <3>2, ArtifactsAsked DEF DocumentsAreReadAsWritten
    <3>3. CASE AskInstant
      BY <3>3, InstantAsked DEF DocumentsAreReadAsWritten
    <3>4. CASE AskSources
      BY <3>4, SourcesAsked DEF DocumentsAreReadAsWritten
    <3> QED BY <1>4, <3>1, <3>2, <3>3, <3>4
  <2>3. SurfacesAgree' /\ OperatorsChoicesHold'
    BY <2>1 DEF SurfacesAgree, OperatorsChoicesHold
  <2> QED BY <2>1, <2>2, <2>3, CallsKeep
<1>5. CASE \/ AskText \/ AskRecords \/ AskRecord \/ AskSearch \/ AskFilteredSearch \/ AskSessionSearch
           \/ AskList \/ AskOrder
  <2>1. UNCHANGED documentVars /\ call'.fn \in AnswerCalls
    BY <1>5, AnswersAsked
  <2>2. DocumentsAreReadAsWritten' /\ SurfacesAgree' /\ OperatorsChoicesHold'
    BY <2>1 DEF AnswerCalls, DocumentsAreReadAsWritten, SurfacesAgree, OperatorsChoicesHold
  <2> QED BY <2>1, <2>2, CallsKeep
<1>6. CASE AskBoth \/ AskTogether \/ AskRest \/ AskRecovery \/ AskMove
  <2>1. UNCHANGED documentVars /\ call'.fn \in {"both", "rest", "recovery", "move"}
    BY <1>6, BothAsked, TogetherAsked, RestAsked, RecoveryAsked, MoveAsked
  <2>2. SurfacesAgree'
    <3>1. CASE AskBoth
      BY <3>1, BothAsked DEF SurfacesAgree
    <3>2. CASE AskTogether
      BY <3>2, TogetherAsked DEF SurfacesAgree
    <3>3. CASE AskRest
      BY <3>3, RestAsked DEF SurfacesAgree
    <3>4. CASE AskRecovery
      BY <3>4, RecoveryAsked DEF SurfacesAgree
    <3>5. CASE AskMove
      BY <3>5, MoveAsked DEF SurfacesAgree
    <3> QED BY <1>6, <3>1, <3>2, <3>3, <3>4, <3>5
  <2>3. DocumentsAreReadAsWritten' /\ OperatorsChoicesHold'
    BY <2>1 DEF DocumentsAreReadAsWritten, OperatorsChoicesHold
  <2> QED BY <2>1, <2>2, <2>3, CallsKeep
<1>7. CASE AskDoors \/ AskMetadata \/ AskNumber \/ AskClassifier \/ AskEmbedder
  <2>1. UNCHANGED documentVars /\ call'.fn \in {"doors", "metadata", "number", "classifier", "embedder"}
    BY <1>7, DoorsAsked, MetadataAsked, NumberAsked, ClassifierAsked, EmbedderAsked
  <2>2. OperatorsChoicesHold'
    <3>1. CASE AskDoors
      BY <3>1, DoorsAsked DEF OperatorsChoicesHold
    <3>2. CASE AskMetadata
      BY <3>2, MetadataAsked DEF OperatorsChoicesHold
    <3>3. CASE AskNumber
      BY <3>3, NumberAsked DEF OperatorsChoicesHold
    <3>4. CASE AskClassifier
      BY <3>4, ClassifierAsked DEF OperatorsChoicesHold
    <3>5. CASE AskEmbedder
      BY <3>5, EmbedderAsked DEF OperatorsChoicesHold
    <3> QED BY <1>7, <3>1, <3>2, <3>3, <3>4, <3>5
  <2>3. DocumentsAreReadAsWritten' /\ SurfacesAgree'
    BY <2>1 DEF DocumentsAreReadAsWritten, SurfacesAgree
  <2> QED BY <2>1, <2>2, <2>3, CallsKeep
<1> QED BY <1>1, <1>2, <1>3, <1>4, <1>5, <1>6, <1>7 DEF Next

\* What is stored of a document is what it says, or it is refused, and a stored day is one of the calendar
\* (session_toml.ts): for documents of any length, and the fields, artifacts, instants and texts asked.
THEOREM DocumentsKept == Spec => []DocumentsAreReadAsWritten
<1>1. EdgesInv => DocumentsAreReadAsWritten
  BY DEF EdgesInv
<1> QED BY <1>1, EdgesStart, EdgesStep, PTL DEF Spec

\* The two transports take the same calls and tell the same outcomes, the path of an abridged record leads
\* to it, and a move ends where it was sent (schemas.ts, api.ts, mcp-server.ts), whatever the bounds, the
\* registry and the principals.
THEOREM TransportsKept == Spec => []SurfacesAgree
<1>1. EdgesInv => SurfacesAgree
  BY DEF EdgesInv
<1> QED BY <1>1, EdgesStart, EdgesStep, PTL DEF Spec

\* The doors and the classifiers are those the operator chose, and nothing late, cut or malformed from a
\* model server is used (config.ts, metadata.ts, bounded_fetch.ts, embeddings.ts).
THEOREM ChoicesKept == Spec => []OperatorsChoicesHold
<1>1. EdgesInv => OperatorsChoicesHold
  BY DEF EdgesInv
<1> QED BY <1>1, EdgesStart, EdgesStep, PTL DEF Spec

-----------------------------------------------------------------------------
(* Induction, over a set of numbers that is to be everything.              *)

LEMMA NumbersFollow ==
  ASSUME NEW T \in SUBSET Nat, 0 \in T, \A n \in T : n + 1 \in T
  PROVE  \A n \in Nat : n \in T
<1> SUFFICES ASSUME Nat \ T # {}
             PROVE  FALSE
  OBVIOUS
<1>1. PICK x \in Nat \ T : \A y \in Nat \ T : ~(<<y, x>> \in OpToRel(<, Nat))
  <2>1. Nat \ T \subseteq Nat
    OBVIOUS
  <2> QED BY <2>1, NatLessThanWellFounded, WFMin, Zenon
<1>2. \A y \in Nat \ T : ~(y < x)
  BY <1>1, Zenon DEF OpToRel
<1>3. x - 1 \in T /\ (x - 1) + 1 = x
  BY <1>2
<1> QED BY <1>3

\* A finite set is reached from the empty one by adding elements, so a family that is closed under that has it.
LEMMA SetsGrow ==
  ASSUME NEW S, IsFiniteSet(S), NEW F \in SUBSET SUBSET S, {} \in F,
         \A T \in F : \A x \in S \ T : T \cup {x} \in F
  PROVE  S \in F
<1> DEFINE N == {n \in Nat : \A T \in SUBSET S : Cardinality(T) = n => T \in F}
<1>1. 0 \in N
  BY FS_Subset, FS_EmptySet
<1>2. ASSUME NEW n \in N
      PROVE  n + 1 \in N
  <2> SUFFICES ASSUME NEW T \in SUBSET S, Cardinality(T) = n + 1
               PROVE  T \in F
    OBVIOUS
  <2>1. IsFiniteSet(T) /\ T # {}
    BY FS_Subset, FS_EmptySet
  <2>2. PICK x \in T : TRUE
    BY <2>1
  <2>3. Cardinality(T \ {x}) = n
    <3>1. Cardinality(T \ {x}) = Cardinality(T) - 1
      BY <2>1, <2>2, FS_RemoveElement
    <3> QED BY <3>1
  <2>4. T \ {x} \in F
    BY <2>3
  <2>5. (T \ {x}) \cup {x} \in F
    BY <2>2, <2>4
  <2>6. (T \ {x}) \cup {x} = T
    BY <2>2
  <2> QED BY <2>5, <2>6
<1>3. \A n \in Nat : n \in N
  <2> HIDE DEF N
  <2> QED BY <1>1, <1>2, NumbersFollow DEF N
<1> QED BY <1>3, FS_CardinalityType

\* A function that each step computes from the value before exists.
LEMMA StepsDefine ==
  ASSUME NEW V, NEW first \in V, NEW N \in Nat, NEW step \in [1..N -> [V -> V]]
  PROVE  \E f \in [0..N -> V] : f[0] = first /\ \A n \in 1..N : f[n] = step[n][f[n - 1]]
<1> DEFINE Upto(m) == \E f \in [0..m -> V] : f[0] = first /\ \A n \in 1..m : f[n] = step[n][f[n - 1]]
           T == {m \in Nat : m <= N => Upto(m)}
<1>1. 0 \in T
  <2> DEFINE f == [n \in 0..0 |-> first]
  <2>1. f \in [0..0 -> V] /\ f[0] = first
    OBVIOUS
  <2>2. 1..0 = {}
    OBVIOUS
  <2>3. Upto(0)
    <3> HIDE DEF f
    <3> QED BY <2>1, <2>2
  <2> QED BY <2>3
<1>2. ASSUME NEW m \in T
      PROVE  m + 1 \in T
  <2> SUFFICES ASSUME m + 1 <= N
               PROVE  Upto(m + 1)
    OBVIOUS
  <2>1. PICK f \in [0..m -> V] : f[0] = first /\ \A n \in 1..m : f[n] = step[n][f[n - 1]]
    OBVIOUS
  <2> DEFINE g == [n \in 0..(m + 1) |-> IF n = m + 1 THEN step[m + 1][f[m]] ELSE f[n]]
  <2>2. step[m + 1][f[m]] \in V
    OBVIOUS
  <2>3. g \in [0..(m + 1) -> V]
    BY <2>2
  <2>4. g[0] = first
    BY <2>1
  <2>5. ASSUME NEW n \in 1..(m + 1)
        PROVE  g[n] = step[n][g[n - 1]]
    BY <2>1
  <2> HIDE DEF g
  <2> QED BY <2>3, <2>4, <2>5
<1>3. N \in T
  <2> HIDE DEF T
  <2> QED BY <1>1, <1>2, NumbersFollow DEF T
<1> QED BY <1>3

-----------------------------------------------------------------------------
(* Orders.                                                                 *)

StrictlyOrders(R, S) ==
  /\ \A x, y \in S : x # y => <<x, y>> \in R \/ <<y, x>> \in R
  /\ \A x, y, z \in S : <<x, y>> \in R /\ <<y, z>> \in R => <<x, z>> \in R
  /\ \A x \in S : <<x, x>> \notin R

Enumerates(s, S, R) ==
  /\ s \in [1..Cardinality(S) -> S]
  /\ \A i, j \in 1..Cardinality(S) : i < j => <<s[i], s[j]>> \in R

LEMMA OrderOfPart ==
  ASSUME NEW R, NEW S, StrictlyOrders(R, S), NEW T \in SUBSET S
  PROVE  StrictlyOrders(R, T)
BY DEF StrictlyOrders

LEMMA LastExists ==
  ASSUME NEW R, NEW S, IsFiniteSet(S), StrictlyOrders(R, S), S # {}
  PROVE  \E last \in S : \A x \in S \ {last} : <<x, last>> \in R
<1> DEFINE IsLast(T, m) == m \in T /\ \A x \in T \ {m} : <<x, m>> \in R
           F == {T \in SUBSET S : T = {} \/ \E m \in T : IsLast(T, m)}
<1>1. {} \in F
  OBVIOUS
<1>2. ASSUME NEW T \in F, NEW x \in S \ T
      PROVE  T \cup {x} \in F
  <2>1. CASE T = {}
    <3>1. IsLast(T \cup {x}, x)
      BY <2>1
    <3> QED BY <3>1
  <2>2. CASE T # {}
    <3>1. PICK m \in T : IsLast(T, m)
      BY <2>2
    <3>2. CASE <<m, x>> \in R
      <4>1. IsLast(T \cup {x}, x)
        BY <3>1, <3>2 DEF StrictlyOrders
      <4> QED BY <4>1
    <3>3. CASE <<x, m>> \in R
      <4>1. IsLast(T \cup {x}, m)
        BY <3>1, <3>3 DEF StrictlyOrders
      <4> QED BY <4>1
    <3> QED BY <3>1, <3>2, <3>3 DEF StrictlyOrders
  <2> QED BY <2>1, <2>2
<1>3. S \in F
  <2> HIDE DEF F
  <2>1. F \in SUBSET SUBSET S
    BY DEF F
  <2> QED BY <1>1, <1>2, <2>1, SetsGrow
<1> QED BY <1>3

LEMMA EnumerationExists ==
  ASSUME NEW R, NEW S, IsFiniteSet(S), StrictlyOrders(R, S)
  PROVE  \E s : Enumerates(s, S, R)
<1> DEFINE N == {n \in Nat : \A T \in SUBSET S : Cardinality(T) = n => \E s : Enumerates(s, T, R)}
<1>1. 0 \in N
  <2> SUFFICES ASSUME NEW T \in SUBSET S, Cardinality(T) = 0
               PROVE  \E s : Enumerates(s, T, R)
    OBVIOUS
  <2>1. Enumerates([i \in 1..0 |-> 0], T, R)
    BY DEF Enumerates
  <2> QED BY <2>1
<1>2. ASSUME NEW n \in N
      PROVE  n + 1 \in N
  <2> SUFFICES ASSUME NEW T \in SUBSET S, Cardinality(T) = n + 1
               PROVE  \E s : Enumerates(s, T, R)
    OBVIOUS
  <2>1. IsFiniteSet(T) /\ T # {}
    BY FS_Subset, FS_EmptySet
  <2>2. StrictlyOrders(R, T)
    BY OrderOfPart
  <2>3. PICK last \in T : \A x \in T \ {last} : <<x, last>> \in R
    BY <2>1, <2>2, LastExists
  <2>4. Cardinality(T \ {last}) = n
    <3>1. Cardinality(T \ {last}) = Cardinality(T) - 1
      BY <2>1, FS_RemoveElement
    <3> QED BY <3>1
  <2>5. PICK s : Enumerates(s, T \ {last}, R)
    BY <2>4
  <2> DEFINE t == [i \in 1..(n + 1) |-> IF i = n + 1 THEN last ELSE s[i]]
  <2>6. /\ s \in [1..n -> T \ {last}]
        /\ \A i, j \in 1..n : i < j => <<s[i], s[j]>> \in R
    BY <2>4, <2>5 DEF Enumerates
  <2>7. t \in [1..(n + 1) -> T]
    BY <2>6
  <2>8. ASSUME NEW i \in 1..(n + 1), NEW j \in 1..(n + 1), i < j
        PROVE  <<t[i], t[j]>> \in R
    <3>1. i \in 1..n /\ t[i] = s[i] /\ s[i] \in T \ {last}
      BY <2>6, <2>8
    <3>2. CASE j = n + 1
      BY <2>3, <3>1, <3>2
    <3>3. CASE j # n + 1
      <4>1. j \in 1..n /\ t[j] = s[j]
        BY <3>3
      <4> QED BY <2>6, <2>8, <3>1, <4>1
    <3> QED BY <3>2, <3>3
  <2>9. Enumerates(t, T, R)
    <3> HIDE DEF t
    <3> QED BY <2>7, <2>8 DEF Enumerates
  <2> QED BY <2>9
<1>3. Cardinality(S) \in N
  <2> HIDE DEF N
  <2>1. N \in SUBSET Nat
    BY DEF N
  <2> QED BY <1>1, <1>2, <2>1, NumbersFollow, FS_CardinalityType
<1> QED BY <1>3

\* A sequence of the elements of S in the order R, each at one place.
Lists(s, S, R) ==
  /\ Cardinality(S) \in Nat
  /\ s \in Seq(S) /\ Len(s) = Cardinality(S) /\ DOMAIN s = 1..Cardinality(S)
  /\ \A i, j \in DOMAIN s : s[i] = s[j] => i = j
  /\ \A x \in S : \E i \in DOMAIN s : s[i] = x
  /\ \A i, j \in DOMAIN s : <<s[i], s[j]>> \in R <=> i < j

LEMMA EnumerationLists ==
  ASSUME NEW R, NEW S, IsFiniteSet(S), StrictlyOrders(R, S), NEW s, Enumerates(s, S, R)
  PROVE  Lists(s, S, R)
<1> DEFINE n == Cardinality(S)
<1>1. n \in Nat
  BY FS_CardinalityType
<1> HIDE DEF n
<1>2. /\ s \in [1..n -> S]
      /\ \A i, j \in 1..n : i < j => <<s[i], s[j]>> \in R
  BY DEF Enumerates, n
<1>3. \A i, j \in 1..n : s[i] = s[j] => i = j
  <2> TAKE i, j \in 1..n
  <2>1. i < j \/ j < i \/ i = j
    OBVIOUS
  <2> QED BY <1>2, <2>1 DEF StrictlyOrders
<1>4. \A x \in S : \E i \in 1..n : s[i] = x
  <2>1. s \in Injection(1..n, S)
    BY <1>2, <1>3 DEF Injection, IsInjective
  <2>2. IsFiniteSet(1..n) /\ Cardinality(1..n) = n
    BY <1>1, FS_Interval
  <2>3. s \in Surjection(1..n, S)
    BY <2>1, <2>2, FS_Injection DEF n
  <2> QED BY <2>3 DEF Surjection
<1>5. s \in Seq(S) /\ Len(s) = n /\ DOMAIN s = 1..n
  BY <1>1, <1>2
<1>6. ASSUME NEW i \in 1..n, NEW j \in 1..n, <<s[i], s[j]>> \in R
      PROVE  i < j
  <2>1. i < j \/ j < i \/ i = j
    OBVIOUS
  <2> QED BY <1>2, <1>6, <2>1 DEF StrictlyOrders
<1> QED BY <1>1, <1>2, <1>3, <1>4, <1>5, <1>6 DEF Lists, n

LEMMA EnumerationIsOne ==
  ASSUME NEW R, NEW S, IsFiniteSet(S), StrictlyOrders(R, S),
         NEW s, Enumerates(s, S, R), NEW t, Enumerates(t, S, R)
  PROVE  s = t
<1> DEFINE n == Cardinality(S)
           T == {k \in Nat : \A i \in 1..n : i <= k => s[i] = t[i]}
<1>1. Lists(s, S, R) /\ Lists(t, S, R)
  BY EnumerationLists
<1>2. n \in Nat /\ DOMAIN s = 1..n /\ DOMAIN t = 1..n
  BY <1>1 DEF Lists
<1>3. /\ n \in Nat /\ s \in [1..n -> S]
      /\ \A x \in S : \E i \in 1..n : s[i] = x
      /\ \A i, j \in 1..n : s[i] = s[j] => i = j
      /\ \A i, j \in 1..n : <<s[i], s[j]>> \in R <=> i < j
  <2>1. s \in [1..n -> S]
    BY DEF Enumerates
  <2> HIDE DEF n
  <2> QED BY <2>1, <1>1, <1>2 DEF Lists
<1>4. /\ t \in [1..n -> S]
      /\ \A x \in S : \E i \in 1..n : t[i] = x
      /\ \A i, j \in 1..n : t[i] = t[j] => i = j
      /\ \A i, j \in 1..n : <<t[i], t[j]>> \in R <=> i < j
  <2>1. t \in [1..n -> S]
    BY DEF Enumerates
  <2> HIDE DEF n
  <2> QED BY <2>1, <1>1, <1>2 DEF Lists
<1> HIDE DEF n
<1>5. 0 \in T
  OBVIOUS
<1>6. ASSUME NEW k \in T
      PROVE  k + 1 \in T
  <2> SUFFICES ASSUME k + 1 \in 1..n
               PROVE  s[k + 1] = t[k + 1]
    <3>1. \A i \in 1..n : i <= k + 1 => i <= k \/ i = k + 1
      BY <1>2
    <3> QED BY <3>1
  <2>1. PICK i \in 1..n : s[i] = t[k + 1]
    BY <1>3, <1>4
  <2>2. PICK j \in 1..n : t[j] = s[k + 1]
    BY <1>3, <1>4
  <2>3. ~(i < k + 1)
    <3> SUFFICES ASSUME i < k + 1 PROVE FALSE
      OBVIOUS
    <3>1. t[i] = t[k + 1]
      BY <2>1
    <3> QED BY <1>4, <3>1
  <2>4. ~(j < k + 1)
    <3> SUFFICES ASSUME j < k + 1 PROVE FALSE
      OBVIOUS
    <3>1. s[j] = s[k + 1]
      BY <2>2
    <3> QED BY <1>3, <3>1
  <2>5. CASE i = k + 1
    BY <2>1, <2>5
  <2>6. CASE i # k + 1
    <3>1. <<s[k + 1], s[i]>> \in R
      BY <1>3, <2>3, <2>6
    <3>2. <<t[j], t[k + 1]>> \in R
      BY <2>1, <2>2, <3>1
    <3> QED BY <1>4, <2>4, <3>2
  <2> QED BY <2>5, <2>6
<1>7. n \in T
  <2> HIDE DEF T
  <2>1. T \in SUBSET Nat
    BY DEF T
  <2> QED BY <1>2, <1>5, <1>6, <2>1, NumbersFollow
<1> QED BY <1>3, <1>4, <1>7

LEMMA InOrderEnumerates ==
  ASSUME NEW R, NEW S, IsFiniteSet(S), StrictlyOrders(R, S)
  PROVE  Enumerates(InOrder(S, R), S, R)
<1>1. PICK s : Enumerates(s, S, R)
  BY EnumerationExists
<1> QED BY <1>1 DEF InOrder, Enumerates

LEMMA InOrderLists ==
  ASSUME NEW R, NEW S, IsFiniteSet(S), StrictlyOrders(R, S)
  PROVE  Lists(InOrder(S, R), S, R)
BY InOrderEnumerates, EnumerationLists

\* The only enumeration of a set in an order is the one that is taken.
LEMMA InOrderIs ==
  ASSUME NEW R, NEW S, IsFiniteSet(S), StrictlyOrders(R, S), NEW s, Enumerates(s, S, R)
  PROVE  InOrder(S, R) = s
BY InOrderEnumerates, EnumerationIsOne

\* Places(S): the order of numbers, on S.
Rising(S) == {p \in S \X S : p[1] < p[2]}

LEMMA AscendingFacts ==
  ASSUME NEW S \in SUBSET Int, IsFiniteSet(S), NEW a, a = Ascending(S)
  PROVE  /\ Cardinality(S) \in Nat
         /\ a \in Seq(S) /\ Len(a) = Cardinality(S) /\ DOMAIN a = 1..Cardinality(S)
         /\ a \in [1..Cardinality(S) -> S]
         /\ \A i, j \in DOMAIN a : a[i] = a[j] => i = j
         /\ \A x \in S : \E i \in DOMAIN a : a[i] = x
         /\ \A i, j \in DOMAIN a : a[i] < a[j] <=> i < j
<1>1. StrictlyOrders(Rising(S), S)
  BY DEF StrictlyOrders, Rising
<1>2. a = InOrder(S, Rising(S))
  BY DEF Ascending, Rising
<1>3. Lists(a, S, Rising(S))
  BY <1>1, <1>2, InOrderLists
<1>4. Enumerates(a, S, Rising(S))
  BY <1>1, <1>2, InOrderEnumerates
<1>5. \A i \in DOMAIN a : a[i] \in S
  BY <1>3 DEF Lists
<1>6. a \in [1..Cardinality(S) -> S]
  BY <1>4 DEF Enumerates
<1> QED BY <1>3, <1>5, <1>6 DEF Lists, Rising

LEMMA AscendingInterval ==
  ASSUME NEW n \in Nat
  PROVE  Ascending(1..n) = [i \in 1..n |-> i]
<1>1. IsFiniteSet(1..n) /\ Cardinality(1..n) = n
  BY FS_Interval
<1>2. StrictlyOrders(Rising(1..n), 1..n)
  BY DEF StrictlyOrders, Rising
<1>3. Enumerates([i \in 1..n |-> i], 1..n, Rising(1..n))
  BY <1>1 DEF Enumerates, Rising
<1> QED BY <1>1, <1>2, <1>3, InOrderIs DEF Ascending, Rising

\* Filtering keeps what is wanted, and its order.
LEMMA KeepingAll ==
  ASSUME NEW V, NEW s \in Seq(V), NEW keep, \A i \in DOMAIN s : s[i] \in keep
  PROVE  Keeping(s, keep) = s
<1>1. /\ Len(s) \in Nat /\ DOMAIN s = 1..Len(s) /\ s = [i \in 1..Len(s) |-> s[i]]
  OBVIOUS
<1>2. {i \in DOMAIN s : s[i] \in keep} = 1..Len(s)
  BY <1>1
<1>3. Keeping(s, keep) = [i \in DOMAIN Ascending(1..Len(s)) |-> s[Ascending(1..Len(s))[i]]]
  BY <1>2 DEF Keeping
<1> DEFINE a == Ascending(1..Len(s))
<1>4. a = [i \in 1..Len(s) |-> i]
  BY <1>1, AscendingInterval
<1>5. DOMAIN a = 1..Len(s) /\ \A i \in 1..Len(s) : a[i] = i
  BY <1>4
<1>6. Keeping(s, keep) = [i \in DOMAIN a |-> s[a[i]]]
  BY <1>3
<1> HIDE DEF a
<1>7. Keeping(s, keep) = [i \in 1..Len(s) |-> s[i]]
  BY <1>5, <1>6
<1> QED BY <1>1, <1>7

\* k has the elements of s at the places at, and those are the kept ones.
Picks(k, s, keep, n, at) ==
  /\ DOMAIN k = 1..n /\ Len(k) = n
  /\ \A i \in 1..n : k[i] = s[at[i]] /\ s[at[i]] \in keep
  /\ \A i, j \in 1..n : at[i] < at[j] <=> i < j
  /\ \A j \in DOMAIN s : s[j] \in keep => \E i \in 1..n : at[i] = j

LEMMA KeepingFacts ==
  ASSUME NEW V, NEW s \in Seq(V), NEW keep, NEW k, k = Keeping(s, keep)
  PROVE  \E n \in Nat : \E at \in [1..n -> DOMAIN s] : k \in [1..n -> V] /\ Picks(k, s, keep, n, at)
<1> DEFINE P == {i \in DOMAIN s : s[i] \in keep}
           at == Ascending(P)
           n == Cardinality(P)
<1>1. Len(s) \in Nat /\ DOMAIN s = 1..Len(s) /\ \A i \in DOMAIN s : s[i] \in V
  OBVIOUS
<1>2. P \in SUBSET (1..Len(s))
  BY <1>1
<1>3. IsFiniteSet(P)
  <2>1. IsFiniteSet(1..Len(s))
    BY <1>1, FS_Interval
  <2> HIDE DEF P
  <2> QED BY <1>2, <2>1, FS_Subset
<1>4. k = [i \in DOMAIN at |-> s[at[i]]]
  BY DEF Keeping
<1>5. /\ n \in Nat /\ DOMAIN at = 1..n /\ at \in [1..n -> P]
      /\ \A x \in P : \E i \in DOMAIN at : at[i] = x
      /\ \A i, j \in DOMAIN at : at[i] < at[j] <=> i < j
  <2>1. P \in SUBSET Int
    BY <1>1
  <2> HIDE DEF P
  <2> QED BY <1>3, <2>1, AscendingFacts
<1>6. \A i \in 1..n : at[i] \in DOMAIN s /\ s[at[i]] \in keep
  <2> TAKE i \in 1..n
  <2>1. at[i] \in P
    <3> HIDE DEF at, P, n
    <3> QED BY <1>5
  <2> HIDE DEF at
  <2> QED BY <2>1
<1>7. \A j \in DOMAIN s : s[j] \in keep => j \in P
  OBVIOUS
<1> HIDE DEF at, n, P
<1>8. at \in [1..n -> DOMAIN s]
  BY <1>5, <1>6
<1>9. k \in [1..n -> V] /\ DOMAIN k = 1..n /\ Len(k) = n
  BY <1>1, <1>4, <1>5, <1>6
<1>10. \A i \in 1..n : k[i] = s[at[i]] /\ s[at[i]] \in keep
  BY <1>4, <1>5, <1>6
<1>11. \A j \in DOMAIN s : s[j] \in keep => \E i \in 1..n : at[i] = j
  BY <1>5, <1>7
<1>12. Picks(k, s, keep, n, at)
  BY <1>5, <1>9, <1>10, <1>11 DEF Picks
<1> QED BY <1>5, <1>8, <1>9, <1>12

\* Filtering a list in an order is ordering what the filter leaves.
LEMMA KeepingOrdered ==
  ASSUME NEW R, NEW S, IsFiniteSet(S), StrictlyOrders(R, S), NEW keep
  PROVE  Keeping(InOrder(S, R), keep) = InOrder(S \cap keep, R)
<1> DEFINE s == InOrder(S, R)
           k == Keeping(s, keep)
           T == S \cap keep
<1>2. Lists(s, S, R)
  BY InOrderLists
<1> HIDE DEF s
<1>3. PICK n \in Nat : \E at \in [1..n -> DOMAIN s] : k \in [1..n -> S] /\ Picks(k, s, keep, n, at)
  <2>1. s \in Seq(S)
    BY <1>2 DEF Lists
  <2> QED BY <2>1, KeepingFacts
<1>4. PICK at \in [1..n -> DOMAIN s] : k \in [1..n -> S] /\ Picks(k, s, keep, n, at)
  BY <1>3
<1> HIDE DEF k
<1>5. k \in [1..n -> T]
  BY <1>4 DEF Picks, Lists
<1>6. \A x \in T : \E i \in 1..n : k[i] = x
  BY <1>2, <1>4 DEF Picks, Lists
<1>7. \A i, j \in 1..n : i < j => <<k[i], k[j]>> \in R
  BY <1>2, <1>4 DEF Picks, Lists
<1>8. \A i, j \in 1..n : k[i] = k[j] => i = j
  <2> TAKE i, j \in 1..n
  <2>1. i < j \/ j < i \/ i = j
    OBVIOUS
  <2> QED BY <1>2, <1>4, <2>1 DEF Picks, Lists
<1>9. Cardinality(T) = n
  <2>1. k \in Bijection(1..n, T)
    <3> HIDE DEF T
    <3> QED BY <1>5, <1>6, <1>8 DEF Bijection, Injection, Surjection, IsInjective
  <2>2. IsFiniteSet(1..n) /\ Cardinality(1..n) = n
    BY FS_Interval
  <2> HIDE DEF T
  <2> QED BY <2>1, <2>2, FS_Bijection DEF ExistsBijection
<1>10. IsFiniteSet(T) /\ StrictlyOrders(R, T)
  BY FS_Subset, OrderOfPart
<1>11. Enumerates(k, T, R)
  <2> HIDE DEF T
  <2> QED BY <1>5, <1>7, <1>9 DEF Enumerates
<1>12. InOrder(T, R) = k
  <2> HIDE DEF T
  <2> QED BY <1>10, <1>11, InOrderIs
<1> QED BY <1>12 DEF k, s

LEMMA FirstExists ==
  ASSUME NEW T \in SUBSET Nat, T # {}
  PROVE  \E m \in T : \A n \in T : m <= n
<1>1. PICK x \in T : \A y \in T : ~(<<y, x>> \in OpToRel(<, Nat))
  BY NatLessThanWellFounded, WFMin, Zenon
<1>2. \A y \in T : ~(y < x)
  BY <1>1, Zenon DEF OpToRel
<1> QED BY <1>2

\* Only the pairs within the set matter.
LEMMA InOrderSame ==
  ASSUME NEW R, NEW Q, NEW S, IsFiniteSet(S), StrictlyOrders(R, S),
         \A x, y \in S : <<x, y>> \in R <=> <<x, y>> \in Q
  PROVE  StrictlyOrders(Q, S) /\ InOrder(S, R) = InOrder(S, Q)
<1>1. StrictlyOrders(Q, S)
  BY DEF StrictlyOrders
<1>2. Enumerates(InOrder(S, R), S, R)
  BY InOrderEnumerates
<1>3. Enumerates(InOrder(S, R), S, Q)
  BY <1>2 DEF Enumerates
<1> QED BY <1>1, <1>3, InOrderIs

\* Rows with keys of one length, no two the same, are strictly ordered by them.
ByKey(ids, keys) == {p \in ids \X ids : Precedes(keys[p[1]], keys[p[2]])}

LEMMA KeysOrder ==
  ASSUME NEW L \in Nat, NEW ids, NEW keys \in [ids -> [1..L -> Int]],
         \A x, y \in ids : keys[x] = keys[y] => x = y
  PROVE  StrictlyOrders(ByKey(ids, keys), ids)
<1>1. \A x, y \in ids : <<x, y>> \in ByKey(ids, keys) <=> Precedes(keys[x], keys[y])
  BY DEF ByKey
<1>2. ASSUME NEW a \in [1..L -> Int], NEW b \in [1..L -> Int], a # b
      PROVE  Precedes(a, b) \/ Precedes(b, a)
  <2> DEFINE T == {i \in 1..L : a[i] # b[i]}
  <2>1. T # {}
    BY <1>2, SMTT(30)
  <2>2. PICK m \in T : \A n \in T : m <= n
    <3>1. T \in SUBSET Nat
      OBVIOUS
    <3> HIDE DEF T
    <3> QED BY <2>1, <3>1, FirstExists
  <2>3. \A j \in 1..(m - 1) : a[j] = b[j]
    BY <2>2
  <2>4. a[m] > b[m] \/ b[m] > a[m]
    BY <2>2
  <2> QED BY <2>2, <2>3, <2>4 DEF Precedes
<1>3. ASSUME NEW a \in [1..L -> Int], NEW b \in [1..L -> Int], NEW c \in [1..L -> Int],
             Precedes(a, b), Precedes(b, c)
      PROVE  Precedes(a, c)
  <2>1. PICK i \in 1..L : a[i] > b[i] /\ \A j \in 1..(i - 1) : a[j] = b[j]
    BY <1>3 DEF Precedes
  <2>2. PICK k \in 1..L : b[k] > c[k] /\ \A j \in 1..(k - 1) : b[j] = c[j]
    BY <1>3 DEF Precedes
  <2>3. CASE i <= k
    <3>1. a[i] > c[i] /\ \A j \in 1..(i - 1) : a[j] = c[j]
      BY <2>1, <2>2, <2>3
    <3> QED BY <3>1 DEF Precedes
  <2>4. CASE k < i
    <3>1. a[k] > c[k] /\ \A j \in 1..(k - 1) : a[j] = c[j]
      BY <2>1, <2>2, <2>4
    <3> QED BY <3>1 DEF Precedes
  <2> QED BY <2>3, <2>4
<1>4. \A a \in [1..L -> Int] : ~Precedes(a, a)
  BY DEF Precedes
<1> HIDE DEF Precedes
<1>5. \A x \in ids : keys[x] \in [1..L -> Int]
  OBVIOUS
<1>6. \A x, y \in ids : x # y => <<x, y>> \in ByKey(ids, keys) \/ <<y, x>> \in ByKey(ids, keys)
  BY <1>1, <1>2, <1>5
<1>7. \A x, y, z \in ids : <<x, y>> \in ByKey(ids, keys) /\ <<y, z>> \in ByKey(ids, keys) => <<x, z>> \in ByKey(ids, keys)
  BY <1>1, <1>3, <1>5
<1>8. \A x \in ids : <<x, x>> \notin ByKey(ids, keys)
  BY <1>1, <1>4, <1>5
<1> QED BY <1>6, <1>7, <1>8 DEF StrictlyOrders

-----------------------------------------------------------------------------
(* Pages of an order.                                                      *)

Taken(t, s, n, V) ==
  /\ Clamp(n, 0, Len(s)) \in 0..Len(s)
  /\ t \in Seq(V) /\ Len(t) = Clamp(n, 0, Len(s)) /\ DOMAIN t = 1..Clamp(n, 0, Len(s))
  /\ \A i \in 1..Clamp(n, 0, Len(s)) : t[i] = s[i]

LEMMA TakeFacts ==
  ASSUME NEW V, NEW s \in Seq(V), NEW n \in Int
  PROVE  Taken(Take(s, n), s, n, V)
<1>1. Len(s) \in Nat
  OBVIOUS
<1>2. Clamp(n, 0, Len(s)) \in 0..Len(s)
  BY <1>1 DEF Clamp
<1> DEFINE m == Clamp(n, 0, Len(s))
<1> HIDE DEF m
<1>3. m \in 0..Len(s)
  BY <1>2 DEF m
<1>4. SubSeq(s, 1, m) \in Seq(V) /\ Len(SubSeq(s, 1, m)) = m /\ \A i \in 1..m : SubSeq(s, 1, m)[i] = s[i]
  BY <1>1, <1>3
<1>5. DOMAIN SubSeq(s, 1, m) = 1..m
  BY <1>4
<1> QED BY <1>3, <1>4, <1>5 DEF Take, Taken, m

LEMMA TakeAll ==
  ASSUME NEW V, NEW s \in Seq(V), NEW n \in Int, Len(s) <= n
  PROVE  Take(s, n) = s
<1>1. Len(s) \in Nat
  OBVIOUS
<1>2. Clamp(n, 0, Len(s)) = Len(s)
  BY <1>1 DEF Clamp
<1> QED BY <1>1, <1>2 DEF Take

LEMMA TakeOfTake ==
  ASSUME NEW V, NEW s \in Seq(V), NEW n \in Nat, NEW m \in Nat, m <= n
  PROVE  Take(Take(s, n), m) = Take(s, m)
<1> DEFINE a == Clamp(n, 0, Len(s))
           b == Clamp(m, 0, Len(s))
           t == Take(s, n)
           u == Take(t, m)
           v == Take(s, m)
<1>1. Len(s) \in Nat
  OBVIOUS
<1>2. Taken(t, s, n, V) /\ Taken(v, s, m, V)
  BY TakeFacts
<1>3. a \in Nat /\ b \in Nat /\ b <= a /\ Clamp(m, 0, a) = b
  BY <1>1 DEF Clamp
<1>4. Taken(u, t, m, V)
  <2>1. t \in Seq(V)
    BY <1>2 DEF Taken
  <2> HIDE DEF t
  <2> QED BY <2>1, TakeFacts
<1> HIDE DEF t, u, v
<1>5. t \in Seq(V) /\ Len(t) = a /\ \A i \in 1..a : t[i] = s[i]
  BY <1>2 DEF Taken
<1>6. v \in Seq(V) /\ Len(v) = b /\ \A i \in 1..b : v[i] = s[i]
  BY <1>2 DEF Taken
<1>7. u \in Seq(V) /\ Len(u) = b /\ \A i \in 1..b : u[i] = t[i]
  BY <1>3, <1>4, <1>5 DEF Taken
<1> HIDE DEF a, b
<1>8. \A i \in 1..b : u[i] = v[i]
  BY <1>3, <1>5, <1>6, <1>7
<1>9. u = v
  BY <1>3, <1>6, <1>7, <1>8
<1> QED BY <1>9 DEF t, u, v

\* What a page of an order has, and what it leaves out.
Page(p, S, R, n) ==
  /\ p \in Seq(S) /\ Len(p) \in Nat /\ DOMAIN p = 1..Len(p)
  /\ Len(p) <= n /\ Len(p) <= Cardinality(S)
  /\ \A i, j \in DOMAIN p : p[i] = p[j] => i = j
  /\ \A i, j \in DOMAIN p : <<p[i], p[j]>> \in R <=> i < j
  /\ \A x \in S : (\E i \in DOMAIN p : p[i] = x) \/ (Len(p) = n /\ \A i \in DOMAIN p : <<p[i], x>> \in R)

LEMMA PageFacts ==
  ASSUME NEW R, NEW S, IsFiniteSet(S), StrictlyOrders(R, S), NEW n \in Nat
  PROVE  Page(Take(InOrder(S, R), n), S, R, n)
<1> DEFINE s == InOrder(S, R)
           m == Clamp(n, 0, Len(s))
           p == Take(s, n)
<1>1. Lists(s, S, R)
  BY InOrderLists
<1> HIDE DEF s
<1>2. Len(s) \in Nat /\ s \in Seq(S) /\ DOMAIN s = 1..Len(s)
  BY <1>1 DEF Lists
<1>3. Taken(p, s, n, S)
  BY <1>2, TakeFacts
<1>4. m \in Nat /\ m <= n /\ m <= Len(s) /\ (m = n \/ m = Len(s))
  BY <1>2 DEF Clamp
<1> HIDE DEF p
<1>5. p \in Seq(S) /\ Len(p) = m /\ DOMAIN p = 1..m /\ \A i \in 1..m : p[i] = s[i]
  BY <1>3 DEF Taken
<1> HIDE DEF m
<1>6. ASSUME NEW x \in S, ~\E i \in DOMAIN p : p[i] = x
      PROVE  Len(p) = n /\ \A i \in DOMAIN p : <<p[i], x>> \in R
  <2>1. PICK k \in 1..Len(s) : s[k] = x
    BY <1>1, <1>2 DEF Lists
  <2>2. k > m
    <3>1. ~\E i \in 1..m : s[i] = x
      BY <1>5, <1>6
    <3>2. Len(s) \in Nat /\ m \in Nat
      BY <1>2, <1>4
    <3>3. k \in Nat /\ 1 <= k
      BY <3>2
    <3>4. k \notin 1..m
      BY <2>1, <3>1
    <3> QED BY <3>2, <3>3, <3>4
  <2>3. Len(p) = n
    BY <1>4, <1>5, <2>2
  <2>4. ASSUME NEW i \in 1..m
        PROVE  <<s[i], x>> \in R
    <3>0. Len(s) \in Nat /\ m \in Nat /\ m <= Len(s)
      BY <1>2, <1>4
    <3>1. i \in 1..Len(s) /\ i < k
      BY <3>0, <2>2
    <3> QED BY <1>1, <1>2, <2>1, <3>1 DEF Lists
  <2> QED BY <1>5, <2>3, <2>4
<1>7. \A i, j \in DOMAIN p : p[i] = p[j] => i = j
  BY <1>1, <1>2, <1>4, <1>5 DEF Lists
<1>8. \A i, j \in DOMAIN p : <<p[i], p[j]>> \in R <=> i < j
  BY <1>1, <1>2, <1>4, <1>5 DEF Lists
<1>9. Len(p) \in Nat /\ Len(p) <= n /\ Len(p) <= Cardinality(S)
  BY <1>1, <1>4, <1>5 DEF Lists
<1>10. Page(p, S, R, n)
  BY <1>5, <1>6, <1>7, <1>8, <1>9 DEF Page
<1> QED BY <1>10 DEF p, s

LEMMA ProductsGrow ==
  ASSUME NEW a \in Int, NEW b \in Int, NEW c \in Nat \ {0}
  PROVE  (a > b <=> a * c > b * c) /\ (a = b <=> a * c = b * c)
<1>1. (a - b) * c = a * c - b * c
  OBVIOUS
<1>2. a > b => (a - b) * c > 0
  OBVIOUS
<1>3. a < b => (a - b) * c < 0
  OBVIOUS
<1>4. a * c \in Int /\ b * c \in Int
  OBVIOUS
<1> QED BY <1>1, <1>2, <1>3, <1>4

\* The sum of two reciprocals falls with each of them.
LEMMA ReciprocalsFall ==
  ASSUME NEW a \in Nat \ {0}, NEW b \in Nat \ {0}, NEW c \in Nat \ {0}, NEW d \in Nat \ {0}
  PROVE  /\ a < c /\ b < d => (a + b) * (c * d) > (c + d) * (a * b)
         /\ a < c => (a + b) * c > 1 * (a * b)
         /\ b < d => (a + b) * d > 1 * (a * b)
<1>1. (a + b) * (c * d) - (c + d) * (a * b) = (a * c) * (d - b) + (b * d) * (c - a)
  OBVIOUS
<1>2. a * c > 0 /\ b * d > 0 /\ b * c > 0 /\ a * d > 0 /\ a * c \in Nat /\ b * d \in Nat
  OBVIOUS
<1>3. ASSUME a < c, b < d
      PROVE  (a + b) * (c * d) > (c + d) * (a * b)
  <2>1. (a * c) * (d - b) > 0
    <3>1. d - b \in Nat \ {0}
      BY <1>3
    <3> HIDE <1>3
    <3> QED BY <1>2, <3>1
  <2>2. (b * d) * (c - a) > 0
    <3>1. c - a \in Nat \ {0}
      BY <1>3
    <3> HIDE <1>3
    <3> QED BY <1>2, <3>1
  <2>3. (a + b) * (c * d) \in Int /\ (c + d) * (a * b) \in Int
    OBVIOUS
  <2> QED BY <1>1, <2>1, <2>2, <2>3
<1>4. (a + b) * c - 1 * (a * b) = a * c + b * (c - a)
  OBVIOUS
<1>5. (a + b) * d - 1 * (a * b) = b * d + a * (d - b)
  OBVIOUS
<1>6. a < c => b * (c - a) > 0
  OBVIOUS
<1>7. b < d => a * (d - b) > 0
  OBVIOUS
<1>8. (a + b) * c \in Int /\ 1 * (a * b) \in Int /\ (a + b) * d \in Int
  OBVIOUS
<1> QED BY <1>2, <1>3, <1>4, <1>5, <1>6, <1>7, <1>8

\* A leg ranks each row once.
IsLeg(leg, S) ==
  /\ leg \in Seq(S) /\ Len(leg) \in Nat /\ DOMAIN leg = 1..Len(leg)
  /\ \A i, j \in DOMAIN leg : leg[i] = leg[j] => i = j

LEMMA RankFacts ==
  ASSUME NEW S, NEW leg, IsLeg(leg, S)
  PROVE  /\ \A id : RankIn(leg, id) \in Nat /\ RankIn(leg, id) <= Len(leg)
         /\ \A id : RankIn(leg, id) = 0 <=> id \notin ToSet(leg)
         /\ \A i \in DOMAIN leg : RankIn(leg, leg[i]) = i /\ leg[i] \in ToSet(leg)
         /\ \A id \in ToSet(leg) : RankIn(leg, id) \in DOMAIN leg /\ leg[RankIn(leg, id)] = id
         /\ ToSet(leg) \subseteq S
<1>1. /\ Len(leg) \in Nat /\ DOMAIN leg = 1..Len(leg)
      /\ \A i, j \in DOMAIN leg : leg[i] = leg[j] => i = j
  BY DEF IsLeg
<1>2. \A id : id \in ToSet(leg) <=> \E i \in DOMAIN leg : leg[i] = id
  BY DEF ToSet
<1>3. ASSUME NEW id \in ToSet(leg)
      PROVE  RankIn(leg, id) \in DOMAIN leg /\ leg[RankIn(leg, id)] = id
  BY <1>2, <1>3 DEF RankIn
<1>4. \A id : id \notin ToSet(leg) => RankIn(leg, id) = 0
  BY <1>2 DEF RankIn
<1>5. \A id \in ToSet(leg) : RankIn(leg, id) \in 1..Len(leg)
  BY <1>1, <1>3
<1>6. \A i \in DOMAIN leg : leg[i] \in ToSet(leg) /\ RankIn(leg, leg[i]) = i
  BY <1>1, <1>2, <1>3
<1>7. ToSet(leg) \subseteq S
  BY DEF ToSet, IsLeg
<1>8. \A id : RankIn(leg, id) \in Nat /\ RankIn(leg, id) <= Len(leg) /\ (RankIn(leg, id) = 0 <=> id \notin ToSet(leg))
  BY <1>1, <1>4, <1>5
<1> QED BY <1>3, <1>6, <1>7, <1>8

Found(v, l) == ToSet(v) \cup ToSet(l)
ScoreOf(v, l, id) == Rrf(RankIn(v, id), RankIn(l, id))
FullText(l, rows, id) == RankIn(l, id) > 0 /\ rows[id].match = "text"
Better(s, t) == s.num * t.den > t.num * s.den
Equal(s, t) == s.num * t.den = t.num * s.den
Before(v, l, rows, x, y) ==
  \/ Better(ScoreOf(v, l, x), ScoreOf(v, l, y))
  \/ /\ Equal(ScoreOf(v, l, x), ScoreOf(v, l, y))
     /\ \/ FullText(l, rows, x) /\ ~FullText(l, rows, y)
        \/ FullText(l, rows, x) = FullText(l, rows, y) /\ x < y
FusedOrder(v, l, rows) == {p \in Found(v, l) \X Found(v, l) : Before(v, l, rows, p[1], p[2])}

LEMMA FuseIsPage ==
  ASSUME NEW v, NEW l, NEW rows, NEW limit
  PROVE  Fuse(v, l, rows, limit) = Take(InOrder(Found(v, l), FusedOrder(v, l, rows)), limit)
BY DEF Fuse, Found, FusedOrder, Before, ScoreOf, FullText, Better, Equal

Positive == [num : Nat \ {0}, den : Nat \ {0}]

\* What a row scores: the sum of the reciprocals of its ranks.
LEMMA RrfFacts ==
  ASSUME NEW a \in Nat, NEW b \in Nat, a # 0 \/ b # 0
  PROVE  /\ Rrf(a, b) \in Positive
         /\ a = 0 => Rrf(a, b) = [num |-> 1, den |-> RrfK + b]
         /\ b = 0 => Rrf(a, b) = [num |-> 1, den |-> RrfK + a]
         /\ a # 0 /\ b # 0 => Rrf(a, b) = [num |-> (RrfK + a) + (RrfK + b), den |-> (RrfK + a) * (RrfK + b)]
<1>1. RrfK \in Nat \ {0}
  BY DepthAssumption
<1>2. CASE a = 0
  BY <1>1, <1>2 DEF Rrf, Positive
<1>3. CASE a # 0 /\ b = 0
  BY <1>1, <1>3 DEF Rrf, Positive
<1>4. CASE a # 0 /\ b # 0
  <2>1. Rrf(a, b) = [num |-> 2 * RrfK + a + b, den |-> (RrfK + a) * (RrfK + b)]
    BY <1>4 DEF Rrf
  <2>2. 2 * RrfK + a + b = (RrfK + a) + (RrfK + b) /\ (RrfK + a) + (RrfK + b) \in Nat \ {0}
    BY <1>1
  <2>3. \A m, n \in Nat \ {0} : m * n \in Nat \ {0}
    OBVIOUS
  <2>4. RrfK + a \in Nat \ {0} /\ RrfK + b \in Nat \ {0}
    BY <1>1
  <2>5. (RrfK + a) * (RrfK + b) \in Nat \ {0}
    BY <2>3, <2>4
  <2> QED BY <1>4, <2>1, <2>2, <2>5 DEF Positive
<1> QED BY <1>2, <1>3, <1>4

LEMMA FusedScores ==
  ASSUME NEW S, NEW v, NEW l, IsLeg(v, S), IsLeg(l, S), NEW id \in Found(v, l)
  PROVE  ScoreOf(v, l, id) \in Positive
<1>1. RankIn(v, id) \in Nat /\ RankIn(l, id) \in Nat /\ (RankIn(v, id) # 0 \/ RankIn(l, id) # 0)
  BY RankFacts DEF Found
<1> QED BY <1>1, RrfFacts DEF ScoreOf

LEMMA ScoresCompare ==
  ASSUME NEW s \in Positive, NEW t \in Positive
  PROVE  /\ Better(s, t) \/ Better(t, s) \/ Equal(s, t)
         /\ ~(Better(s, t) /\ Better(t, s)) /\ ~(Better(s, t) /\ Equal(s, t))
         /\ Equal(s, t) <=> Equal(t, s)
         /\ Equal(s, s)
<1>1. s.num * t.den \in Int /\ t.num * s.den \in Int
  BY DEF Positive
<1> QED BY <1>1 DEF Better, Equal

LEMMA ScoresChain ==
  ASSUME NEW s \in Positive, NEW t \in Positive, NEW u \in Positive,
         Better(s, t) \/ Equal(s, t), Better(t, u) \/ Equal(t, u)
  PROVE  Better(s, u) \/ (Equal(s, u) /\ Equal(s, t) /\ Equal(t, u))
<1> DEFINE nx == s.num
           dx == s.den
           ny == t.num
           dy == t.den
           nz == u.num
           dz == u.den
<1>1. nx \in Nat \ {0} /\ dx \in Nat \ {0} /\ ny \in Nat \ {0} /\ dy \in Nat \ {0}
      /\ nz \in Nat \ {0} /\ dz \in Nat \ {0}
  BY DEF Positive
<1>2. nx * dy >= ny * dx
  BY <1>1 DEF Better, Equal
<1>3. ny * dz >= nz * dy
  BY <1>1 DEF Better, Equal
<1> HIDE DEF nx, dx, ny, dy, nz, dz
<1>4. \/ nx * dz > nz * dx
      \/ nx * dz = nz * dx /\ nx * dy = ny * dx /\ ny * dz = nz * dy
  <2> DEFINE p == nx * dy
             q == ny * dx
             r == ny * dz
             w == nz * dy
             m == nx * dz
             n == nz * dx
  <2>1. p \in Int /\ q \in Int /\ r \in Int /\ w \in Int /\ m \in Int /\ n \in Int
    BY <1>1
  <2>2. p * dz = m * dy /\ q * dz = r * dx /\ w * dx = n * dy
    BY <1>1
  <2> HIDE DEF p, q, r, w, m, n
  <2>3. (p > q <=> p * dz > q * dz) /\ (p = q <=> p * dz = q * dz)
    BY <1>1, <2>1, ProductsGrow
  <2>4. (r > w <=> r * dx > w * dx) /\ (r = w <=> r * dx = w * dx)
    BY <1>1, <2>1, ProductsGrow
  <2>5. (m > n <=> m * dy > n * dy) /\ (m = n <=> m * dy = n * dy)
    BY <1>1, <2>1, ProductsGrow
  <2>6. p * dz \in Int /\ q * dz \in Int /\ r * dx \in Int /\ w * dx \in Int /\ m * dy \in Int /\ n * dy \in Int
    BY <1>1, <2>1
  <2>7. (p > q \/ p = q) /\ (r > w \/ r = w)
    <3>1. p >= q /\ r >= w
      BY <1>2, <1>3 DEF p, q, r, w
    <3> QED BY <2>1, <3>1
  <2> DEFINE pz == p * dz
             qz == q * dz
             rx == r * dx
             wx == w * dx
             my == m * dy
             ny2 == n * dy
  <2> HIDE DEF pz, qz, rx, wx, my, ny2
  <2>8. /\ pz \in Int /\ qz \in Int /\ rx \in Int /\ wx \in Int /\ my \in Int /\ ny2 \in Int
        /\ pz = my /\ qz = rx /\ wx = ny2
        /\ (p > q <=> pz > qz) /\ (p = q <=> pz = qz)
        /\ (r > w <=> rx > wx) /\ (r = w <=> rx = wx)
        /\ (m > n <=> my > ny2) /\ (m = n <=> my = ny2)
    BY <2>2, <2>3, <2>4, <2>5, <2>6 DEF pz, qz, rx, wx, my, ny2
  <2>9. m > n \/ (m = n /\ p = q /\ r = w)
    BY <2>1, <2>7, <2>8
  <2> QED BY <2>9 DEF p, q, r, w, m, n
<1> QED BY <1>4 DEF Better, Equal, nx, dx, ny, dy, nz, dz

LEMMA FusedOrderIsStrict ==
  ASSUME NEW S \in SUBSET Int, NEW v, NEW l, IsLeg(v, S), IsLeg(l, S), NEW rows
  PROVE  StrictlyOrders(FusedOrder(v, l, rows), Found(v, l))
<1>1. Found(v, l) \subseteq S
  BY RankFacts DEF Found
<1>2. \A x, y \in Found(v, l) : <<x, y>> \in FusedOrder(v, l, rows) <=> Before(v, l, rows, x, y)
  BY DEF FusedOrder
<1>3. \A x \in Found(v, l) : ScoreOf(v, l, x) \in Positive /\ x \in Int
  BY <1>1, FusedScores
<1>4. \A x : FullText(l, rows, x) \in BOOLEAN
  BY DEF FullText
<1>5. \A x, y \in Found(v, l) : x # y => Before(v, l, rows, x, y) \/ Before(v, l, rows, y, x)
  <2> SUFFICES ASSUME NEW x \in Found(v, l), NEW y \in Found(v, l), x # y,
                      ~Before(v, l, rows, x, y), ~Before(v, l, rows, y, x)
               PROVE  FALSE
    OBVIOUS
  <2>1. Equal(ScoreOf(v, l, x), ScoreOf(v, l, y)) /\ Equal(ScoreOf(v, l, y), ScoreOf(v, l, x))
    BY <1>3, ScoresCompare DEF Before
  <2>2. FullText(l, rows, x) = FullText(l, rows, y)
    BY <1>4, <2>1, Zenon DEF Before
  <2>3. x < y \/ y < x
    BY <1>3
  <2>4. FullText(l, rows, y) = FullText(l, rows, x)
    BY <2>2, Zenon
  <2> QED BY <2>1, <2>2, <2>3, <2>4, Zenon DEF Before
<1>6. \A x \in Found(v, l) : ~Before(v, l, rows, x, x)
  BY <1>3, <1>4, ScoresCompare DEF Before
<1>7. ASSUME NEW x \in Found(v, l), NEW y \in Found(v, l), NEW z \in Found(v, l),
             Before(v, l, rows, x, y), Before(v, l, rows, y, z)
      PROVE  Before(v, l, rows, x, z)
  <2> DEFINE s == ScoreOf(v, l, x)
             t == ScoreOf(v, l, y)
             u == ScoreOf(v, l, z)
  <2>1. (Better(s, t) \/ Equal(s, t)) /\ (Better(t, u) \/ Equal(t, u))
    BY <1>7, Zenon DEF Before
  <2>2. s \in Positive /\ t \in Positive /\ u \in Positive
    BY <1>3
  <2> HIDE DEF s, t, u
  <2>3. Better(s, u) \/ (Equal(s, u) /\ Equal(s, t) /\ Equal(t, u))
    BY <2>1, <2>2, ScoresChain
  <2>4. (Equal(s, t) => ~Better(s, t)) /\ (Equal(t, u) => ~Better(t, u))
    BY <2>2, ScoresCompare
  <2>5. CASE Better(s, u)
    BY <2>5 DEF Before, s, u
  <2>6. CASE Equal(s, u) /\ Equal(s, t) /\ Equal(t, u)
    <3>1. \/ FullText(l, rows, x) /\ ~FullText(l, rows, y)
          \/ FullText(l, rows, x) = FullText(l, rows, y) /\ x < y
      BY <1>7, <2>4, <2>6, Zenon DEF Before, s, t
    <3>2. \/ FullText(l, rows, y) /\ ~FullText(l, rows, z)
          \/ FullText(l, rows, y) = FullText(l, rows, z) /\ y < z
      BY <1>7, <2>4, <2>6, Zenon DEF Before, t, u
    <3>3. x < y /\ y < z => x < z
      BY <1>3
    <3>4. \/ FullText(l, rows, x) /\ ~FullText(l, rows, z)
          \/ FullText(l, rows, x) = FullText(l, rows, z) /\ x < z
      BY <1>4, <3>1, <3>2, <3>3, Zenon
    <3> QED BY <2>6, <3>4, Zenon DEF Before, s, u
  <2> QED BY <2>3, <2>5, <2>6
<1> QED BY <1>2, <1>5, <1>6, <1>7, Zenon DEF StrictlyOrders

-----------------------------------------------------------------------------
(* Who comes first. *)

\* Of two rows the one that is ranked no worse by both legs has the better score.
LEMMA RanksDecide ==
  ASSUME NEW S, NEW v, NEW l, IsLeg(v, S), IsLeg(l, S), NEW x \in Found(v, l), NEW y \in Found(v, l), x # y,
         Position(v, x) <= Position(v, y), Position(l, x) <= Position(l, y)
  PROVE  Better(ScoreOf(v, l, x), ScoreOf(v, l, y))
<1> DEFINE vx == RankIn(v, x)
           lx == RankIn(l, x)
           vy == RankIn(v, y)
           ly == RankIn(l, y)
<1>1. /\ vx \in Nat /\ vy \in Nat /\ lx \in Nat /\ ly \in Nat
      /\ vx <= Len(v) /\ vy <= Len(v) /\ lx <= Len(l) /\ ly <= Len(l)
      /\ Len(v) \in Nat /\ Len(l) \in Nat
      /\ vy # 0 \/ ly # 0
  BY RankFacts DEF Found, IsLeg
<1>2. (vx # 0 => vx # vy) /\ (lx # 0 => lx # ly)
  <2>1. vx # 0 => v[vx] = x
    BY RankFacts
  <2>2. vy # 0 => v[vy] = y
    BY RankFacts
  <2>3. lx # 0 => l[lx] = x
    BY RankFacts
  <2>4. ly # 0 => l[ly] = y
    BY RankFacts
  <2> HIDE DEF vx, vy, lx, ly
  <2> QED BY <2>1, <2>2, <2>3, <2>4
<1>3. /\ Position(v, x) = (IF vx = 0 THEN Len(v) + 1 ELSE vx) /\ Position(v, y) = (IF vy = 0 THEN Len(v) + 1 ELSE vy)
      /\ Position(l, x) = (IF lx = 0 THEN Len(l) + 1 ELSE lx) /\ Position(l, y) = (IF ly = 0 THEN Len(l) + 1 ELSE ly)
  BY DEF Position
<1>4. ScoreOf(v, l, x) = Rrf(vx, lx) /\ ScoreOf(v, l, y) = Rrf(vy, ly)
  BY DEF ScoreOf
<1> HIDE DEF vx, vy, lx, ly
<1>5. (vy # 0 => vx # 0 /\ vx < vy) /\ (ly # 0 => lx # 0 /\ lx < ly)
  BY <1>1, <1>2, <1>3
<1>6. RrfK \in Nat \ {0}
  BY DepthAssumption
<1> DEFINE a == RrfK + vx
           b == RrfK + lx
           c == RrfK + vy
           d == RrfK + ly
<1>7. /\ a \in Nat \ {0} /\ b \in Nat \ {0} /\ c \in Nat \ {0} /\ d \in Nat \ {0}
      /\ (vy # 0 => a < c) /\ (ly # 0 => b < d)
  BY <1>1, <1>5, <1>6
<1>8. /\ vx = 0 => Rrf(vx, lx) = [num |-> 1, den |-> b]
      /\ lx = 0 => Rrf(vx, lx) = [num |-> 1, den |-> a]
      /\ vx # 0 /\ lx # 0 => Rrf(vx, lx) = [num |-> a + b, den |-> a * b]
  BY <1>1, <1>5, RrfFacts
<1>9. /\ vy = 0 => Rrf(vy, ly) = [num |-> 1, den |-> d]
      /\ ly = 0 => Rrf(vy, ly) = [num |-> 1, den |-> c]
      /\ vy # 0 /\ ly # 0 => Rrf(vy, ly) = [num |-> c + d, den |-> c * d]
  BY <1>1, RrfFacts
<1> HIDE DEF a, b, c, d
<1>10. /\ a < c /\ b < d => (a + b) * (c * d) > (c + d) * (a * b)
       /\ a < c => (a + b) * c > 1 * (a * b)
       /\ b < d => (a + b) * d > 1 * (a * b)
  BY <1>7, ReciprocalsFall
<1>11. CASE vy # 0 /\ ly # 0
  BY <1>4, <1>5, <1>7, <1>8, <1>9, <1>10, <1>11 DEF Better
<1>12. CASE vy # 0 /\ ly = 0
  <2>1. CASE lx = 0
    <3>1. 1 * c > 1 * a
      BY <1>7, <1>12
    <3> QED BY <1>4, <1>5, <1>8, <1>9, <1>12, <2>1, <3>1 DEF Better
  <2>2. CASE lx # 0
    BY <1>4, <1>5, <1>7, <1>8, <1>9, <1>10, <1>12, <2>2 DEF Better
  <2> QED BY <2>1, <2>2
<1>13. CASE vy = 0 /\ ly # 0
  <2>1. CASE vx = 0
    <3>1. 1 * d > 1 * b
      BY <1>7, <1>13
    <3> QED BY <1>4, <1>5, <1>8, <1>9, <1>13, <2>1, <3>1 DEF Better
  <2>2. CASE vx # 0
    BY <1>4, <1>5, <1>7, <1>8, <1>9, <1>10, <1>13, <2>2 DEF Better
  <2> QED BY <2>1, <2>2
<1> QED BY <1>1, <1>11, <1>12, <1>13

\* The rows of a search: what a leg orders by are numbers, and no two rows have one id.
ThoughtRows(rows) ==
  /\ DOMAIN rows \in SUBSET Int /\ IsFiniteSet(DOMAIN rows)
  /\ \A id \in DOMAIN rows : rows[id].similarity \in Int /\ rows[id].score \in Int /\ rows[id].created \in Int

Near(rows, filter, threshold) == {id \in Eligible(rows, filter) : rows[id].similarity >= threshold}
Hits(rows, filter) == {id \in Eligible(rows, filter) : rows[id].match # "none"}

LEMMA DepthFacts ==
  ASSUME NEW limit \in Nat
  PROVE  Depth(limit) \in Nat /\ Depth(limit) >= LeastDepth
<1>1. LeastDepth \in Nat \ {0} /\ MostDepth \in Nat \ {0} /\ LeastDepth <= MostDepth
  BY DepthAssumption
<1> QED BY <1>1 DEF Depth, Clamp

LEMMA PartsAreFinite ==
  ASSUME NEW S, IsFiniteSet(S), NEW T \in SUBSET S
  PROVE  IsFiniteSet(T) /\ Cardinality(T) \in Nat /\ Cardinality(T) <= Cardinality(S)
BY FS_Subset, FS_CardinalityType

\* A page of rows ordered by keys of one length.
LEMMA PageByKey ==
  ASSUME NEW L \in Nat, NEW ids, IsFiniteSet(ids), NEW keys \in [ids -> [1..L -> Int]],
         \A x, y \in ids : keys[x] = keys[y] => x = y, NEW n \in Nat
  PROVE  /\ StrictlyOrders(ByKey(ids, keys), ids)
         /\ Page(Take(Ordered(ids, keys), n), ids, ByKey(ids, keys), n)
<1>1. StrictlyOrders(ByKey(ids, keys), ids)
  BY KeysOrder
<1>2. Ordered(ids, keys) = InOrder(ids, ByKey(ids, keys))
  BY DEF Ordered, ByKey
<1> QED BY <1>1, <1>2, PageFacts

LEMMA PageElements ==
  ASSUME NEW p, NEW S, NEW R, NEW n, Page(p, S, R, n)
  PROVE  ToSet(p) \subseteq S /\ IsLeg(p, S)
BY DEF Page, IsLeg, ToSet

LEMMA WholePage ==
  ASSUME NEW p, NEW S, NEW R, NEW n \in Nat, Page(p, S, R, n), IsFiniteSet(S), Cardinality(S) <= n
  PROVE  ToSet(p) = S
<1>0. Len(p) \in Nat /\ DOMAIN p = 1..Len(p) /\ Len(p) <= Cardinality(S)
  BY DEF Page
<1>1. \A i \in 1..Len(p) : p[i] \in S
  <2>1. ToSet(p) \subseteq S
    BY PageElements
  <2> QED BY <1>0, <2>1 DEF ToSet
<1>2. SUFFICES ASSUME NEW x \in S, ~\E i \in DOMAIN p : p[i] = x
               PROVE  FALSE
  <2>1. S \subseteq ToSet(p)
    BY <1>2 DEF ToSet
  <2>2. ToSet(p) \subseteq S
    BY PageElements
  <2> QED BY <2>1, <2>2
<1>3. Len(p) = n
  BY <1>2 DEF Page
<1>4. Cardinality(S) \in Nat
  BY FS_CardinalityType
<1>5. Len(p) = Cardinality(S)
  BY <1>0, <1>3, <1>4
<1> DEFINE q == [i \in 1..Len(p) |-> p[i]]
<1>6. q \in Injection(1..Len(p), S)
  <2>1. \A i, j \in 1..Len(p) : p[i] = p[j] => i = j
    BY <1>0 DEF Page
  <2> QED BY <1>1, <2>1 DEF Injection, IsInjective
<1>7. IsFiniteSet(1..Len(p)) /\ Cardinality(1..Len(p)) = Len(p)
  <2> DEFINE m == Len(p)
  <2>1. m \in Nat
    BY <1>0
  <2> HIDE DEF m
  <2>2. IsFiniteSet(1..m) /\ Cardinality(1..m) = m
    BY <2>1, FS_Interval
  <2> QED BY <2>2 DEF m
<1> HIDE DEF q
<1>8. q \in Surjection(1..Len(p), S)
  BY <1>5, <1>6, <1>7, FS_Injection
<1>9. \E i \in 1..Len(p) : q[i] = x
  BY <1>8 DEF Surjection
<1> QED BY <1>0, <1>2, <1>9 DEF q

LEMMA VectorPage ==
  ASSUME NEW rows, ThoughtRows(rows), NEW filter, NEW threshold \in Int, NEW limit \in Nat
  PROVE  \E R : Page(VectorLeg(rows, filter, threshold, limit), Near(rows, filter, threshold), R, Depth(limit))
<1> DEFINE near == Near(rows, filter, threshold)
           keys == [id \in near |-> <<rows[id].similarity, -id>>]
<1>1. near \in SUBSET DOMAIN rows
  BY DEF Near, Eligible
<1>2. VectorLeg(rows, filter, threshold, limit) = Take(Ordered(near, keys), Depth(limit))
  BY DEF VectorLeg, Near
<1> HIDE DEF near
<1>3. IsFiniteSet(near)
  BY <1>1, PartsAreFinite DEF ThoughtRows
<1>4. \A id \in near : id \in Int /\ rows[id].similarity \in Int
  BY <1>1 DEF ThoughtRows
<1>5. keys \in [near -> [1..2 -> Int]]
  BY <1>4
<1>6. \A x, y \in near : keys[x] = keys[y] => x = y
  BY <1>4
<1> HIDE DEF keys
<1>7. Page(Take(Ordered(near, keys), Depth(limit)), near, ByKey(near, keys), Depth(limit))
  BY <1>3, <1>5, <1>6, DepthFacts, PageByKey
<1> QED BY <1>2, <1>7 DEF near

LEMMA LexicalPage ==
  ASSUME NEW rows, ThoughtRows(rows), NEW filter, NEW limit \in Nat
  PROVE  \E R : Page(LexicalLeg(rows, filter, limit), Hits(rows, filter), R, Depth(limit))
<1> DEFINE hits == Hits(rows, filter)
           priority(id) == IF rows[id].match = "text" THEN 0 ELSE 1
           keys == [id \in hits |-> <<-priority(id), rows[id].score, rows[id].created, -id>>]
<1>1. hits \in SUBSET DOMAIN rows
  BY DEF Hits, Eligible
<1>2. LexicalLeg(rows, filter, limit) = Take(Ordered(hits, keys), Depth(limit))
  BY DEF LexicalLeg, Hits
<1> HIDE DEF hits
<1>3. IsFiniteSet(hits)
  BY <1>1, PartsAreFinite DEF ThoughtRows
<1>4. \A id \in hits : id \in Int /\ -id \in Int /\ rows[id].score \in Int /\ rows[id].created \in Int /\ -priority(id) \in Int
  BY <1>1 DEF ThoughtRows
<1> HIDE DEF priority
<1>5. keys \in [hits -> [1..4 -> Int]]
  BY <1>4
<1>6. \A x, y \in hits : keys[x] = keys[y] => x = y
  BY <1>4
<1> HIDE DEF keys
<1>7. Page(Take(Ordered(hits, keys), Depth(limit)), hits, ByKey(hits, keys), Depth(limit))
  BY <1>3, <1>5, <1>6, DepthFacts, PageByKey
<1> QED BY <1>2, <1>7 DEF hits

\* Both legs at once.
Legs(rows, filter, threshold, limit, v, l) ==
  /\ IsLeg(v, DOMAIN rows) /\ ToSet(v) \subseteq Near(rows, filter, threshold)
  /\ IsLeg(l, DOMAIN rows) /\ ToSet(l) \subseteq Hits(rows, filter)
  /\ Cardinality(DOMAIN rows) <= LeastDepth =>
       ToSet(v) = Near(rows, filter, threshold) /\ ToSet(l) = Hits(rows, filter)

LEMMA LegsAreSound ==
  ASSUME NEW rows, ThoughtRows(rows), NEW filter, NEW threshold \in Int, NEW limit \in Nat
  PROVE  Legs(rows, filter, threshold, limit, VectorLeg(rows, filter, threshold, limit), LexicalLeg(rows, filter, limit))
<1> DEFINE v == VectorLeg(rows, filter, threshold, limit)
           l == LexicalLeg(rows, filter, limit)
           near == Near(rows, filter, threshold)
           hits == Hits(rows, filter)
<1>1. near \in SUBSET DOMAIN rows /\ hits \in SUBSET DOMAIN rows
  BY DEF Near, Hits, Eligible
<1>2. \E R : Page(v, near, R, Depth(limit))
  BY VectorPage
<1>3. \E R : Page(l, hits, R, Depth(limit))
  BY LexicalPage
<1> HIDE DEF v, l, near, hits
<1>4. IsLeg(v, near) /\ ToSet(v) \subseteq near
  BY <1>2, PageElements
<1>5. IsLeg(l, hits) /\ ToSet(l) \subseteq hits
  BY <1>3, PageElements
<1>6. IsLeg(v, DOMAIN rows) /\ IsLeg(l, DOMAIN rows)
  BY <1>1, <1>4, <1>5 DEF IsLeg
<1>7. ASSUME Cardinality(DOMAIN rows) <= LeastDepth
      PROVE  ToSet(v) = near /\ ToSet(l) = hits
  <2>1. /\ IsFiniteSet(near) /\ Cardinality(near) \in Nat /\ Cardinality(near) <= Cardinality(DOMAIN rows)
        /\ IsFiniteSet(hits) /\ Cardinality(hits) \in Nat /\ Cardinality(hits) <= Cardinality(DOMAIN rows)
    BY <1>1, PartsAreFinite DEF ThoughtRows
  <2>2. Cardinality(DOMAIN rows) \in Nat
    BY FS_CardinalityType DEF ThoughtRows
  <2>3. LeastDepth \in Nat /\ Depth(limit) \in Nat /\ LeastDepth <= Depth(limit)
    BY DepthFacts, DepthAssumption
  <2>4. Cardinality(near) <= Depth(limit) /\ Cardinality(hits) <= Depth(limit)
    BY <1>7, <2>1, <2>2, <2>3
  <2>5. ToSet(v) = near
    BY <1>2, <2>1, <2>3, <2>4, WholePage
  <2>6. ToSet(l) = hits
    BY <1>3, <2>1, <2>3, <2>4, WholePage
  <2> QED BY <2>5, <2>6
<1> QED BY <1>4, <1>5, <1>6, <1>7 DEF Legs, v, l, near, hits

\* The joins with the table leave nothing out, and the answer is a page of the fused order.
LEMMA SearchIsPage ==
  ASSUME NEW rows, ThoughtRows(rows), NEW F, NEW q \in [filter : F, threshold : Int, limit : Nat],
         NEW v, v = VectorLeg(rows, q.filter, q.threshold, q.limit), NEW l, l = LexicalLeg(rows, q.filter, q.limit)
  PROVE  /\ Legs(rows, q.filter, q.threshold, q.limit, v, l)
         /\ Found(v, l) \subseteq Eligible(rows, q.filter)
         /\ IsFiniteSet(Found(v, l)) /\ StrictlyOrders(FusedOrder(v, l, rows), Found(v, l))
         /\ SearchThoughts(rows, q) = Take(InOrder(Found(v, l), FusedOrder(v, l, rows)), q.limit)
         /\ Page(SearchThoughts(rows, q), Found(v, l), FusedOrder(v, l, rows), q.limit)
<1> DEFINE found == Found(v, l)
           R == FusedOrder(v, l, rows)
           shown == {id \in DOMAIN rows : rows[id].visible /\ ~rows[id].forgotten}
           page == Take(InOrder(found, R), q.limit)
<1>1. q.threshold \in Int /\ q.limit \in Nat
  OBVIOUS
<1>2. Legs(rows, q.filter, q.threshold, q.limit, v, l)
  BY <1>1, LegsAreSound
<1>3. found \subseteq Eligible(rows, q.filter) /\ found \subseteq shown /\ found \in SUBSET DOMAIN rows
  BY <1>2 DEF Legs, Found, Near, Hits, Eligible
<1>4. IsFiniteSet(found)
  BY <1>3, PartsAreFinite DEF ThoughtRows
<1>5. StrictlyOrders(R, found)
  BY <1>2, FusedOrderIsStrict DEF Legs, ThoughtRows
<1> HIDE DEF found, R, shown
<1>6. Page(page, found, R, q.limit)
  BY <1>1, <1>4, <1>5, PageFacts
<1>7. SearchThoughts(rows, q) = Keeping(page, shown)
  BY FuseIsPage DEF SearchThoughts, shown, found, R
<1> HIDE DEF page
<1>8. page \in Seq(found) /\ ToSet(page) \subseteq found
  <2>1. ToSet(page) \subseteq found
    BY <1>6, PageElements
  <2>2. page \in Seq(found)
    BY <1>6, Zenon DEF Page
  <2> QED BY <2>1, <2>2
<1>9. \A i \in DOMAIN page : page[i] \in shown
  BY <1>3, <1>8 DEF ToSet
<1>10. SearchThoughts(rows, q) = page
  BY <1>7, <1>8, <1>9, KeepingAll
<1> QED BY <1>2, <1>3, <1>4, <1>5, <1>6, <1>10 DEF found, R, page

\* A list of thoughts shows all that its audience and filter admit.
LEMMA ListShowsAll ==
  ASSUME NEW rows, ThoughtRows(rows), NEW filter
  PROVE  ToSet(ListThoughts(rows, filter, Cardinality(DOMAIN rows))) = Eligible(rows, filter)
<1> DEFINE ids == Eligible(rows, filter)
           keys == [id \in ids |-> <<rows[id].created, -id>>]
           n == Cardinality(DOMAIN rows)
<1>1. ids \in SUBSET DOMAIN rows
  BY DEF Eligible
<1>2. ListThoughts(rows, filter, n) = Take(Ordered(ids, keys), n)
  BY DEF ListThoughts
<1> HIDE DEF ids
<1>3. IsFiniteSet(ids) /\ Cardinality(ids) <= n
  BY <1>1, PartsAreFinite DEF ThoughtRows
<1>4. n \in Nat
  BY FS_CardinalityType DEF ThoughtRows
<1>5. \A id \in ids : id \in Int /\ rows[id].created \in Int
  BY <1>1 DEF ThoughtRows
<1>6. keys \in [ids -> [1..2 -> Int]]
  BY <1>5
<1>7. \A x, y \in ids : keys[x] = keys[y] => x = y
  BY <1>5
<1> HIDE DEF keys, n
<1>8. Page(Take(Ordered(ids, keys), n), ids, ByKey(ids, keys), n)
  BY <1>3, <1>4, <1>6, <1>7, PageByKey
<1>9. ToSet(Take(Ordered(ids, keys), n)) = ids
  BY <1>3, <1>4, <1>8, WholePage
<1> QED BY <1>2, <1>9 DEF ids, n

\* A page has as many rows as it is long.
LEMMA PageCounts ==
  ASSUME NEW p, NEW S, NEW R, NEW n, Page(p, S, R, n), IsFiniteSet(S)
  PROVE  Cardinality(ToSet(p)) = Len(p)
<1> DEFINE m == Len(p)
           q == [i \in 1..m |-> p[i]]
<1>1. m \in Nat /\ DOMAIN p = 1..m
  BY DEF Page
<1>2. \A i, j \in 1..m : p[i] = p[j] => i = j
  BY <1>1 DEF Page
<1> HIDE DEF m
<1>3. ToSet(p) = {p[i] : i \in 1..m}
  BY <1>1 DEF ToSet
<1>4. q \in Bijection(1..m, ToSet(p))
  BY <1>2, <1>3 DEF Bijection, Injection, Surjection, IsInjective
<1>5. IsFiniteSet(1..m) /\ Cardinality(1..m) = m
  BY <1>1, FS_Interval
<1> HIDE DEF q
<1>6. Cardinality(ToSet(p)) = m
  BY <1>4, <1>5, FS_Bijection DEF ExistsBijection
<1> QED BY <1>6 DEF m

\* A search of any finite table of thoughts finds nothing that the list of the same audience and filter does
\* not show, and an answer that is not full leaves out nothing that is near enough (searchThoughts, queries.ts,
\* and the two legs of match_thoughts_hybrid).
THEOREM SearchAgreesAlways ==
  ASSUME NEW rows, ThoughtRows(rows), NEW F, NEW q \in [filter : F, threshold : Int, limit : Nat]
  PROVE  SearchAgreesWithList(rows, q)
<1> DEFINE v == VectorLeg(rows, q.filter, q.threshold, q.limit)
           l == LexicalLeg(rows, q.filter, q.limit)
           page == SearchThoughts(rows, q)
           answer == ToSet(page)
           found == Found(v, l)
           R == FusedOrder(v, l, rows)
<1>1. /\ Legs(rows, q.filter, q.threshold, q.limit, v, l)
      /\ found \subseteq Eligible(rows, q.filter)
      /\ IsFiniteSet(found)
      /\ Page(page, found, R, q.limit)
  BY SearchIsPage
<1>2. ToSet(ListThoughts(rows, q.filter, Cardinality(DOMAIN rows))) = Eligible(rows, q.filter)
  BY ListShowsAll
<1> HIDE DEF page, found, R, v, l
<1>3. answer \subseteq found
  BY <1>1, PageElements
<1>4. ASSUME Cardinality(answer) < q.limit, Cardinality(DOMAIN rows) <= LeastDepth
      PROVE  answer = {id \in Eligible(rows, q.filter) : rows[id].similarity >= q.threshold \/ rows[id].match # "none"}
  <2>1. Len(page) # q.limit
    <3>1. Cardinality(answer) = Len(page)
      BY <1>1, PageCounts
    <3>2. Len(page) \in Nat
      BY <1>1 DEF Page
    <3> QED BY <1>4, <3>1, <3>2
  <2>2. found \subseteq answer
    <3>1. \A x \in found : \E i \in DOMAIN page : page[i] = x
      BY <1>1, <2>1 DEF Page
    <3> QED BY <3>1 DEF ToSet
  <2>3. found = Near(rows, q.filter, q.threshold) \cup Hits(rows, q.filter)
    BY <1>1, <1>4 DEF Legs, Found, found
  <2> QED BY <1>3, <2>2, <2>3 DEF Near, Hits
<1>5. /\ answer \subseteq Eligible(rows, q.filter)
      /\ (Cardinality(answer) < q.limit /\ Cardinality(DOMAIN rows) <= LeastDepth) =>
           answer = {id \in Eligible(rows, q.filter) : rows[id].similarity >= q.threshold \/ rows[id].match # "none"}
  BY <1>1, <1>3, <1>4
<1> HIDE DEF answer
<1> QED BY <1>2, <1>5 DEF SearchAgreesWithList, answer, page

\* In a page the one that comes before another is higher up, or the other is not there.
LEMMA PageRespects ==
  ASSUME NEW p, NEW S, NEW R, NEW n, Page(p, S, R, n), NEW x \in S, NEW y \in S, <<x, y>> \in R,
         <<y, x>> \notin R
  PROVE  Position(p, x) < Position(p, y) \/ Position(p, y) > Len(p)
<1>1. IsLeg(p, S)
  BY PageElements
<1>2. Len(p) \in Nat /\ RankIn(p, x) \in Nat /\ RankIn(p, y) \in Nat
  BY <1>1, RankFacts DEF IsLeg
<1>3. CASE RankIn(p, y) = 0
  BY <1>2, <1>3 DEF Position
<1>4. CASE RankIn(p, y) # 0
  <2>1. RankIn(p, y) \in DOMAIN p /\ p[RankIn(p, y)] = y
    BY <1>1, <1>4, RankFacts
  <2>2. \E i \in DOMAIN p : p[i] = x
    <3>1. (\E i \in DOMAIN p : p[i] = x) \/ <<p[RankIn(p, y)], x>> \in R
      BY <2>1 DEF Page
    <3> QED BY <2>1, <3>1
  <2>3. x \in ToSet(p)
    BY <2>2 DEF ToSet
  <2>4. RankIn(p, x) \in DOMAIN p /\ p[RankIn(p, x)] = x /\ RankIn(p, x) # 0
    BY <1>1, <2>3, RankFacts
  <2>5. RankIn(p, x) < RankIn(p, y)
    BY <2>1, <2>4 DEF Page
  <2> QED BY <1>4, <2>4, <2>5 DEF Position
<1> QED BY <1>3, <1>4

\* Whatever the rows and the depths of the legs: who is no worse on both legs and better on one comes first in
\* the fused answer, and a smaller page is the beginning of a larger one (the reciprocal ranks and their ties).
THEOREM RanksAreAlwaysRespected ==
  ASSUME NEW rows, ThoughtRows(rows), NEW F, NEW q \in [filter : F, threshold : Int, limit : Nat]
  PROVE  RanksAreRespected(rows, q)
<1> DEFINE v == VectorLeg(rows, q.filter, q.threshold, q.limit)
           l == LexicalLeg(rows, q.filter, q.limit)
           answer == SearchThoughts(rows, q)
           found == Found(v, l)
           R == FusedOrder(v, l, rows)
<1>1. /\ Legs(rows, q.filter, q.threshold, q.limit, v, l)
      /\ IsFiniteSet(found) /\ StrictlyOrders(R, found)
      /\ answer = Take(InOrder(found, R), q.limit)
      /\ Page(answer, found, R, q.limit)
  BY SearchIsPage
<1>2. IsLeg(v, DOMAIN rows) /\ IsLeg(l, DOMAIN rows)
  BY <1>1 DEF Legs
<1>3. ASSUME NEW x \in found, NEW y \in found,
             Position(v, x) <= Position(v, y), Position(l, x) <= Position(l, y), x # y
      PROVE  Position(answer, x) < Position(answer, y) \/ Position(answer, y) > Len(answer)
  <2> HIDE DEF v, l, answer
  <2>1. Better(ScoreOf(v, l, x), ScoreOf(v, l, y))
    BY <1>2, <1>3, RanksDecide
  <2>2. <<x, y>> \in R
    BY <2>1 DEF FusedOrder, Before
  <2> HIDE DEF found, R
  <2>3. <<y, x>> \notin R
    BY <1>1, <2>2 DEF StrictlyOrders
  <2> QED BY <1>1, <2>2, <2>3, PageRespects
<1>4. ASSUME NEW less \in 1..q.limit, Depth(less) = Depth(q.limit)
      PROVE  SearchThoughts(rows, [q EXCEPT !.limit = less]) = Take(answer, less)
  <2> DEFINE r == [q EXCEPT !.limit = less]
  <2>1. /\ r \in [filter : F, threshold : Int, limit : Nat] /\ r.filter = q.filter /\ r.threshold = q.threshold
        /\ r.limit = less /\ less \in Nat /\ q.limit \in Nat /\ less <= q.limit
    OBVIOUS
  <2> HIDE DEF r
  <2>2. v = VectorLeg(rows, r.filter, r.threshold, r.limit) /\ l = LexicalLeg(rows, r.filter, r.limit)
    BY <1>4, <2>1 DEF VectorLeg, LexicalLeg
  <2> HIDE DEF v, l, answer
  <2>3. SearchThoughts(rows, r) = Take(InOrder(found, R), r.limit)
    BY <2>1, <2>2, SearchIsPage
  <2> HIDE DEF found, R
  <2>4. InOrder(found, R) \in Seq(found)
    BY <1>1, InOrderLists DEF Lists
  <2>5. Take(answer, less) = Take(InOrder(found, R), less)
    BY <1>1, <2>1, <2>4, TakeOfTake
  <2> QED BY <2>1, <2>3, <2>5 DEF r
<1>5. found = ToSet(v) \cup ToSet(l)
  BY DEF Found
<1> HIDE DEF found, R
<1>6. \A x, y \in ToSet(v) \cup ToSet(l) :
           (/\ Position(v, x) <= Position(v, y)
            /\ Position(l, x) <= Position(l, y)
            /\ x # y) => Position(answer, x) < Position(answer, y) \/ Position(answer, y) > Len(answer)
  <2> HIDE DEF v, l, answer
  <2> QED BY <1>3, <1>5
<1>7. \A less \in 1..q.limit :
           Depth(less) = Depth(q.limit) => SearchThoughts(rows, [q EXCEPT !.limit = less]) = Take(answer, less)
  BY <1>4
<1> QED BY <1>6, <1>7, Zenon DEF RanksAreRespected

\* Of two thoughts at the same rank, each found by one leg alone, the word-for-word hit comes first, whatever
\* the rows and the depths (the second key of the fused order).
THEOREM TextAlwaysWinsTies ==
  ASSUME NEW rows, ThoughtRows(rows), NEW F, NEW q \in [filter : F, threshold : Int, limit : Nat]
  PROVE  TextWinsTies(rows, q)
<1> DEFINE v == VectorLeg(rows, q.filter, q.threshold, q.limit)
           l == LexicalLeg(rows, q.filter, q.limit)
           answer == SearchThoughts(rows, q)
           found == Found(v, l)
           R == FusedOrder(v, l, rows)
<1>1. /\ Legs(rows, q.filter, q.threshold, q.limit, v, l)
      /\ StrictlyOrders(R, found)
      /\ Page(answer, found, R, q.limit)
  BY SearchIsPage
<1>2. IsLeg(v, DOMAIN rows) /\ IsLeg(l, DOMAIN rows)
  BY <1>1 DEF Legs
<1>3. ASSUME NEW i \in DOMAIN v \cap DOMAIN l, rows[l[i]].match = "text",
             RankIn(v, l[i]) = 0, RankIn(l, v[i]) = 0
      PROVE  Position(answer, l[i]) <= Position(answer, v[i])
  <2> HIDE DEF v, l, answer
  <2> DEFINE x == l[i]
             y == v[i]
  <2>1. /\ RankIn(l, x) = i /\ RankIn(v, y) = i /\ x \in found /\ y \in found /\ i \in Nat \ {0}
    <3>1. DOMAIN v = 1..Len(v) /\ Len(v) \in Nat
      BY <1>2 DEF IsLeg
    <3>2. RankIn(l, x) = i /\ RankIn(v, y) = i /\ x \in ToSet(l) /\ y \in ToSet(v)
      BY <1>2, RankFacts
    <3>3. i \in Nat \ {0}
      BY <3>1
    <3> QED BY <3>2, <3>3 DEF Found
  <2>2. ScoreOf(v, l, x) = [num |-> 1, den |-> RrfK + i] /\ ScoreOf(v, l, y) = [num |-> 1, den |-> RrfK + i]
    <3>1. Rrf(0, i) = [num |-> 1, den |-> RrfK + i] /\ Rrf(i, 0) = [num |-> 1, den |-> RrfK + i]
      BY <2>1, RrfFacts
    <3> QED BY <1>3, <2>1, <3>1 DEF ScoreOf
  <2>3. Equal(ScoreOf(v, l, x), ScoreOf(v, l, y))
    BY <2>2 DEF Equal
  <2>4. FullText(l, rows, x) /\ ~FullText(l, rows, y)
    BY <1>3, <2>1 DEF FullText
  <2>5. <<x, y>> \in R
    BY <2>1, <2>3, <2>4 DEF FusedOrder, Before
  <2> HIDE DEF found, R, x, y
  <2>6. <<y, x>> \notin R
    BY <1>1, <2>1, <2>5 DEF StrictlyOrders
  <2>7. Position(answer, x) < Position(answer, y) \/ Position(answer, y) > Len(answer)
    BY <1>1, <2>1, <2>5, <2>6, PageRespects
  <2>8. /\ Position(answer, x) \in Nat /\ Position(answer, x) <= Len(answer) + 1
        /\ Position(answer, y) \in Nat /\ Len(answer) \in Nat
    <3>1. IsLeg(answer, found)
      BY <1>1, PageElements
    <3>2. /\ RankIn(answer, x) \in Nat /\ RankIn(answer, x) <= Len(answer)
          /\ RankIn(answer, y) \in Nat /\ Len(answer) \in Nat
      BY <3>1, RankFacts DEF IsLeg
    <3> QED BY <3>2 DEF Position
  <2>9. Position(answer, x) <= Position(answer, y)
    BY <2>7, <2>8
  <2> QED BY <2>9 DEF x, y
<1> QED BY <1>3, Zenon DEF TextWinsTies

ClaimRecords(row, f, value) == f \in DOMAIN row.claims /\ row.claims[f] = value

LEMMA EligibleRows ==
  ASSUME NEW rows, NEW filter
  PROVE  \A id : id \in Eligible(rows, filter) <=>
           /\ id \in DOMAIN rows /\ rows[id].visible /\ ~rows[id].forgotten
           /\ \A f \in DOMAIN filter.include : ClaimRecords(rows[id], f, filter.include[f])
           /\ \A f \in DOMAIN filter.exclude : ~ClaimRecords(rows[id], f, filter.exclude[f])
BY DEF Eligible, FilterAdmits, ClaimsMatch, ClaimRecords

LEMMA EligibleByParts ==
  ASSUME NEW rows, NEW a, NEW b
  PROVE  \A id : id \in Eligible(rows, [include |-> a, exclude |-> b]) <=>
           /\ id \in DOMAIN rows /\ rows[id].visible /\ ~rows[id].forgotten
           /\ \A f \in DOMAIN a : ClaimRecords(rows[id], f, a[f])
           /\ \A f \in DOMAIN b : ~ClaimRecords(rows[id], f, b[f])
<1> DEFINE filter == [include |-> a, exclude |-> b]
<1>1. filter.include = a /\ filter.exclude = b
  OBVIOUS
<1> HIDE DEF filter
<1>2. \A id : id \in Eligible(rows, filter) <=>
           /\ id \in DOMAIN rows /\ rows[id].visible /\ ~rows[id].forgotten
           /\ \A f \in DOMAIN a : ClaimRecords(rows[id], f, a[f])
           /\ \A f \in DOMAIN b : ~ClaimRecords(rows[id], f, b[f])
  BY <1>1, EligibleRows
<1> QED BY <1>2 DEF filter

\* What a filter of one field keeps in, and out.
ByOne(rows, f, o, none) ==
  /\ Eligible(rows, [include |-> o, exclude |-> none]) =
       {id \in DOMAIN rows : rows[id].visible /\ ~rows[id].forgotten /\ ClaimRecords(rows[id], f, o[f])}
  /\ Eligible(rows, [include |-> none, exclude |-> o]) =
       {id \in DOMAIN rows : rows[id].visible /\ ~rows[id].forgotten /\ ~ClaimRecords(rows[id], f, o[f])}

LEMMA EligibleByOne ==
  ASSUME NEW rows, NEW f, NEW o, DOMAIN o = {f}, NEW none, DOMAIN none = {}
  PROVE  ByOne(rows, f, o, none)
<1>1. \A id : id \in Eligible(rows, [include |-> o, exclude |-> none]) <=>
               id \in DOMAIN rows /\ rows[id].visible /\ ~rows[id].forgotten /\ ClaimRecords(rows[id], f, o[f])
  <2>1. \A id : id \in Eligible(rows, [include |-> o, exclude |-> none]) <=>
           /\ id \in DOMAIN rows /\ rows[id].visible /\ ~rows[id].forgotten
           /\ \A g \in DOMAIN o : ClaimRecords(rows[id], g, o[g])
           /\ \A g \in DOMAIN none : ~ClaimRecords(rows[id], g, none[g])
    BY EligibleByParts, Zenon
  <2> QED BY <2>1
<1>2. \A id : id \in Eligible(rows, [include |-> none, exclude |-> o]) <=>
               id \in DOMAIN rows /\ rows[id].visible /\ ~rows[id].forgotten /\ ~ClaimRecords(rows[id], f, o[f])
  <2>1. \A id : id \in Eligible(rows, [include |-> none, exclude |-> o]) <=>
           /\ id \in DOMAIN rows /\ rows[id].visible /\ ~rows[id].forgotten
           /\ \A g \in DOMAIN none : ClaimRecords(rows[id], g, none[g])
           /\ \A g \in DOMAIN o : ~ClaimRecords(rows[id], g, o[g])
    BY EligibleByParts, Zenon
  <2> QED BY <2>1
<1> QED BY <1>1, <1>2 DEF ByOne

\* A filter of any fields admits what all of them admit one by one, and an excluded field keeps out exactly
\* what including it keeps in (the provenance filters of queries.ts), for any rows.
THEOREM FiltersAlwaysCompose ==
  ASSUME NEW rows, NEW filter
  PROVE  FiltersCompose(rows, filter)
<1> DEFINE none == [f \in {} |-> 0]
           only(f, v) == [g \in {f} |-> v]
           base == {id \in DOMAIN rows : rows[id].visible /\ ~rows[id].forgotten}
           all == Eligible(rows, [include |-> none, exclude |-> none])
           with(f) == Eligible(rows, [include |-> only(f, filter.include[f]), exclude |-> none])
           without(f) == Eligible(rows, [include |-> none, exclude |-> only(f, filter.exclude[f])])
           exactly(f) == Eligible(rows, [include |-> only(f, filter.exclude[f]), exclude |-> none])
<1>1. DOMAIN none = {} /\ \A f, v : DOMAIN only(f, v) = {f} /\ only(f, v)[f] = v
  OBVIOUS
<1> HIDE DEF none, only
<1>2. all = base
  <2>1. \A id : id \in all <=> id \in base
    BY <1>1, EligibleByParts
  <2> QED BY <2>1
<1>3. \A f : with(f) = {id \in base : ClaimRecords(rows[id], f, filter.include[f])}
  <2> TAKE f
  <2> DEFINE o == only(f, filter.include[f])
  <2>1. DOMAIN o = {f} /\ o[f] = filter.include[f] /\ DOMAIN none = {}
    BY <1>1
  <2> HIDE DEF o
  <2>2. ByOne(rows, f, o, none)
    BY <2>1, EligibleByOne
  <2>3. with(f) = Eligible(rows, [include |-> o, exclude |-> none])
    BY DEF o
  <2> HIDE DEF with
  <2> QED BY <2>1, <2>2, <2>3 DEF ByOne
<1>4. \A f : without(f) = {id \in base : ~ClaimRecords(rows[id], f, filter.exclude[f])}
  <2> TAKE f
  <2> DEFINE o == only(f, filter.exclude[f])
  <2>1. DOMAIN o = {f} /\ o[f] = filter.exclude[f] /\ DOMAIN none = {}
    BY <1>1
  <2> HIDE DEF o
  <2>2. ByOne(rows, f, o, none)
    BY <2>1, EligibleByOne
  <2>3. without(f) = Eligible(rows, [include |-> none, exclude |-> o])
    BY DEF o
  <2> HIDE DEF without
  <2> QED BY <2>1, <2>2, <2>3 DEF ByOne
<1>5. \A f : exactly(f) = {id \in base : ClaimRecords(rows[id], f, filter.exclude[f])}
  <2> TAKE f
  <2> DEFINE o == only(f, filter.exclude[f])
  <2>1. DOMAIN o = {f} /\ o[f] = filter.exclude[f] /\ DOMAIN none = {}
    BY <1>1
  <2> HIDE DEF o
  <2>2. ByOne(rows, f, o, none)
    BY <2>1, EligibleByOne
  <2>3. exactly(f) = Eligible(rows, [include |-> o, exclude |-> none])
    BY DEF o
  <2> HIDE DEF exactly
  <2> QED BY <2>1, <2>2, <2>3 DEF ByOne
<1>6. Eligible(rows, filter) =
        {id \in base : /\ \A f \in DOMAIN filter.include : ClaimRecords(rows[id], f, filter.include[f])
                       /\ \A f \in DOMAIN filter.exclude : ~ClaimRecords(rows[id], f, filter.exclude[f])}
  BY EligibleRows
<1> HIDE DEF all, with, without, exactly, base
<1>7. Eligible(rows, filter) =
        {id \in all : (\A f \in DOMAIN filter.include : id \in with(f)) /\ (\A f \in DOMAIN filter.exclude : id \in without(f))}
  BY <1>2, <1>3, <1>4, <1>6
<1>8. \A f \in DOMAIN filter.exclude : without(f) = all \ exactly(f)
  BY <1>2, <1>4, <1>5
<1> QED BY <1>7, <1>8 DEF FiltersCompose, all, with, without, exactly, none, only

-----------------------------------------------------------------------------
(* Searches of sessions. *)

SessionRows(rows) ==
  /\ DOMAIN rows \in SUBSET Int /\ IsFiniteSet(DOMAIN rows)
  /\ \A id \in DOMAIN rows : rows[id].similarity \in Int

\* The nearest rows are a page, and none that is left out is nearer.
LEMMA NearestIsPage ==
  ASSUME NEW rows, SessionRows(rows), NEW ids \in SUBSET DOMAIN rows, NEW n \in Nat
  PROVE  \E R : /\ Page(Nearest(rows, ids, n), ids, R, n)
                /\ \A x, y \in ids : <<x, y>> \in R => rows[x].similarity >= rows[y].similarity
<1> DEFINE keys == [id \in ids |-> <<rows[id].similarity, -id>>]
<1>1. Nearest(rows, ids, n) = Take(Ordered(ids, keys), n)
  BY DEF Nearest
<1>2. IsFiniteSet(ids)
  BY PartsAreFinite DEF SessionRows
<1>3. \A id \in ids : id \in Int /\ rows[id].similarity \in Int
  BY DEF SessionRows
<1>4. keys \in [ids -> [1..2 -> Int]]
  BY <1>3
<1>5. \A x, y \in ids : keys[x] = keys[y] => x = y
  BY <1>3
<1>6. ASSUME NEW x \in ids, NEW y \in ids, <<x, y>> \in ByKey(ids, keys)
      PROVE  rows[x].similarity >= rows[y].similarity
  <2> DEFINE a == <<rows[x].similarity, -x>>
             b == <<rows[y].similarity, -y>>
  <2>1. Precedes(a, b)
    BY <1>6 DEF ByKey
  <2>2. PICK i \in 1..2 : a[i] > b[i] /\ \A j \in 1..(i - 1) : a[j] = b[j]
    BY <2>1 DEF Precedes
  <2>3. CASE i = 1
    BY <1>3, <2>2, <2>3
  <2>4. CASE i = 2
    <3>1. a[1] = b[1]
      BY <2>2, <2>4
    <3> QED BY <1>3, <3>1
  <2> QED BY <2>3, <2>4
<1> HIDE DEF keys
<1>7. Page(Take(Ordered(ids, keys), n), ids, ByKey(ids, keys), n)
  BY <1>2, <1>4, <1>5, PageByKey
<1> QED BY <1>1, <1>6, <1>7

LEMMA KeepingSet ==
  ASSUME NEW V, NEW s \in Seq(V), NEW keep
  PROVE  ToSet(Keeping(s, keep)) = ToSet(s) \cap keep
<1> DEFINE k == Keeping(s, keep)
<1> HIDE DEF k
<1>1. PICK n \in Nat : \E at \in [1..n -> DOMAIN s] : k \in [1..n -> V] /\ Picks(k, s, keep, n, at)
  BY KeepingFacts DEF k
<1>2. PICK at \in [1..n -> DOMAIN s] : k \in [1..n -> V] /\ Picks(k, s, keep, n, at)
  BY <1>1
<1>3. ASSUME NEW x \in ToSet(k)
      PROVE  x \in ToSet(s) \cap keep
  <2>1. PICK i \in 1..n : x = k[i]
    BY <1>2 DEF ToSet, Picks
  <2> QED BY <1>2, <2>1 DEF ToSet, Picks
<1>4. ASSUME NEW x \in ToSet(s) \cap keep
      PROVE  x \in ToSet(k)
  <2>1. PICK j \in DOMAIN s : x = s[j]
    BY DEF ToSet
  <2>2. PICK i \in 1..n : at[i] = j
    BY <1>2, <2>1 DEF Picks
  <2> QED BY <1>2, <2>1, <2>2 DEF ToSet, Picks
<1>5. ToSet(k) = ToSet(s) \cap keep
  BY <1>3, <1>4
<1> QED BY <1>5 DEF k

\* However little of the graph the approximate scan reaches, an answer misses an eligible session only if the
\* scan filled its page (session_queries.ts retries a short page without the graph), for any finite table.
THEOREM SearchIsNeverSilentlyShort ==
  ASSUME NEW rows, SessionRows(rows), NEW scanned, NEW q \in [limit : Nat, threshold : Int, contract : BOOLEAN]
  PROVE  NeverSilentlyShort(rows, scanned, q)
<1> DEFINE eligible == EligibleSessions(rows)
           reached == eligible \cap scanned
           near == NearEnough(rows, q.threshold)
           approximate == Nearest(rows, reached, q.limit)
           exact == Nearest(rows, eligible, q.limit)
           answer == SearchSessions(rows, scanned, q)
           wanted == eligible \cap near
<1>1. q.limit \in Nat /\ q.threshold \in Int
  OBVIOUS
<1>2. eligible \in SUBSET DOMAIN rows /\ reached \in SUBSET DOMAIN rows /\ reached \subseteq eligible
  BY DEF EligibleSessions
<1>3. \A id \in eligible : rows[id].similarity \in Int /\ (id \in near <=> rows[id].similarity >= q.threshold)
  BY <1>2 DEF NearEnough, SessionRows
<1>4. answer = Keeping(IF q.contract \/ Len(approximate) < q.limit THEN exact ELSE approximate, near)
  BY DEF SearchSessions
<1>5. PICK R : /\ Page(exact, eligible, R, q.limit)
               /\ \A x, y \in eligible : <<x, y>> \in R => rows[x].similarity >= rows[y].similarity
  <2> HIDE DEF eligible
  <2> QED BY <1>1, <1>2, NearestIsPage
<1>6. PICK Q : Page(approximate, reached, Q, q.limit)
  <2> HIDE DEF reached
  <2> QED BY <1>1, <1>2, NearestIsPage
<1> HIDE DEF eligible, reached, near, approximate, exact, answer
<1>7. exact \in Seq(eligible) /\ ToSet(exact) \subseteq eligible /\ Len(exact) \in Nat
  <2>1. ToSet(exact) \subseteq eligible
    BY <1>5, PageElements
  <2>2. exact \in Seq(eligible) /\ Len(exact) \in Nat
    BY <1>5, Zenon DEF Page
  <2> QED BY <2>1, <2>2
<1>8. approximate \in Seq(reached) /\ ToSet(approximate) \subseteq reached /\ Len(approximate) \in Nat
  <2>1. ToSet(approximate) \subseteq reached
    BY <1>6, PageElements
  <2>2. approximate \in Seq(reached) /\ Len(approximate) \in Nat
    BY <1>6, Zenon DEF Page
  <2> QED BY <2>1, <2>2
<1>9. CASE q.contract \/ Len(approximate) < q.limit
  <2>1. answer = Keeping(exact, near)
    BY <1>4, <1>9
  <2>2. ToSet(answer) = ToSet(exact) \cap near
    BY <1>7, <2>1, KeepingSet
  <2>3. ASSUME NEW w \in wanted \ ToSet(answer)
        PROVE  /\ Len(answer) = q.limit
               /\ \A id \in ToSet(answer) : rows[w].similarity <= rows[id].similarity
    <3>1. w \notin ToSet(exact) /\ w \in eligible /\ w \in near
      BY <2>2
    <3>2. ~\E i \in DOMAIN exact : exact[i] = w
      BY <3>1 DEF ToSet
    <3>3. Len(exact) = q.limit /\ \A i \in DOMAIN exact : <<exact[i], w>> \in R
      BY <1>5, <3>1, <3>2 DEF Page
    <3>4. \A i \in DOMAIN exact : exact[i] \in eligible
      BY <1>7 DEF ToSet
    <3>5. \A i \in DOMAIN exact : rows[exact[i]].similarity >= rows[w].similarity
      BY <1>5, <3>1, <3>3, <3>4
    <3>6. \A i \in DOMAIN exact : exact[i] \in near
      BY <1>1, <1>3, <3>1, <3>4, <3>5
    <3>7. answer = exact
      BY <1>7, <2>1, <3>6, KeepingAll
    <3>8. \A id \in ToSet(exact) : rows[w].similarity <= rows[id].similarity
      <4> SUFFICES ASSUME NEW i \in DOMAIN exact
                   PROVE  rows[w].similarity <= rows[exact[i]].similarity
        BY DEF ToSet
      <4>1. rows[w].similarity \in Int /\ rows[exact[i]].similarity \in Int
        BY <1>3, <3>1, <3>4
      <4> QED BY <3>5, <4>1
    <3> QED BY <3>3, <3>7, <3>8
  <2>4. ToSet(answer) \subseteq wanted
    BY <1>7, <2>2
  <2>5. \/ ToSet(answer) = wanted
        \/ Len(answer) = q.limit /\ \A id \in ToSet(answer), other \in wanted \ ToSet(answer) :
                                       rows[other].similarity <= rows[id].similarity
    BY <2>3, <2>4
  <2> HIDE DEF wanted
  <2> QED BY <2>4, <2>5 DEF NeverSilentlyShort, wanted, eligible, near, answer
<1>10. CASE ~(q.contract \/ Len(approximate) < q.limit)
  <2>1. answer = Keeping(approximate, near)
    BY <1>4, <1>10
  <2>2. ToSet(answer) = ToSet(approximate) \cap near
    BY <1>8, <2>1, KeepingSet
  <2>3. ToSet(answer) \subseteq wanted
    BY <1>2, <1>8, <2>2
  <2>4. Len(approximate) <= Cardinality(reached)
    BY <1>6, Zenon DEF Page
  <2>5. Cardinality(reached) \in Nat
    BY <1>2, PartsAreFinite DEF SessionRows
  <2>6. Cardinality(reached) >= q.limit
    BY <1>1, <1>8, <1>10, <2>4, <2>5
  <2> QED BY <1>10, <2>3, <2>6 DEF NeverSilentlyShort, wanted, eligible, near, answer, reached
<1> QED BY <1>9, <1>10

ListRows(rows) ==
  /\ DOMAIN rows \in SUBSET Int /\ IsFiniteSet(DOMAIN rows)
  /\ \A id \in DOMAIN rows : /\ rows[id].authored \in Int /\ rows[id].updated \in Int /\ rows[id].started \in Int
                             /\ rows[id].created \in Int /\ rows[id].title \in Int

\* The order of a list, on all rows, and the rows that a request asks for.
Listing(rows, orderBy) ==
  {p \in (DOMAIN rows) \X (DOMAIN rows) : Precedes(OrderKeys(rows, orderBy, p[1]), OrderKeys(rows, orderBy, p[2]))}
Asked(rows, q) ==
  {id \in DOMAIN rows : rows[id].visible /\ (q.branch # 0 => rows[id].branch = q.branch) /\ WithinBounds(rows[id], q)}

LEMMA OrderKeysAreNumbers ==
  ASSUME NEW rows, ListRows(rows), NEW orderBy, NEW id \in DOMAIN rows
  PROVE  OrderKeys(rows, orderBy, id) \in [1..3 -> Int] /\ OrderKeys(rows, orderBy, id)[3] = id
<1>1. /\ rows[id].authored \in Int /\ rows[id].updated \in Int /\ rows[id].started \in Int
      /\ rows[id].created \in Int /\ rows[id].title \in Int /\ id \in Int
  BY DEF ListRows
<1>2. Freshness(rows[id]) \in Int
  BY <1>1 DEF Freshness
<1> DEFINE first == CASE orderBy = "started_at" -> rows[id].started
                      [] orderBy = "created_at" -> rows[id].created
                      [] orderBy = "title"      -> rows[id].title
                      [] OTHER                  -> Freshness(rows[id])
<1>3. first \in Int
  BY <1>1, <1>2
<1>4. OrderKeys(rows, orderBy, id) = <<first, rows[id].updated, id>>
  BY DEF OrderKeys
<1> HIDE DEF first
<1> QED BY <1>1, <1>3, <1>4

\* Any part of the rows is put in the one order of all.
LEMMA ListingOfPart ==
  ASSUME NEW rows, ListRows(rows), NEW orderBy, NEW ids \in SUBSET DOMAIN rows
  PROVE  /\ IsFiniteSet(ids) /\ StrictlyOrders(Listing(rows, orderBy), ids)
         /\ Ordered(ids, [id \in ids |-> OrderKeys(rows, orderBy, id)]) = InOrder(ids, Listing(rows, orderBy))
<1> DEFINE keys == [id \in ids |-> OrderKeys(rows, orderBy, id)]
<1>1. IsFiniteSet(ids)
  BY PartsAreFinite DEF ListRows
<1>2. keys \in [ids -> [1..3 -> Int]]
  BY OrderKeysAreNumbers
<1>3. \A x, y \in ids : keys[x] = keys[y] => x = y
  BY OrderKeysAreNumbers
<1>4. StrictlyOrders(ByKey(ids, keys), ids)
  <2> HIDE DEF keys
  <2> QED BY <1>2, <1>3, KeysOrder
<1>5. ASSUME NEW x \in ids, NEW y \in ids
      PROVE  <<x, y>> \in ByKey(ids, keys) <=> <<x, y>> \in Listing(rows, orderBy)
  <2>1. keys[x] = OrderKeys(rows, orderBy, x) /\ keys[y] = OrderKeys(rows, orderBy, y)
    OBVIOUS
  <2>2. <<x, y>> \in ByKey(ids, keys) <=> Precedes(keys[x], keys[y])
    <3> HIDE DEF keys
    <3> QED BY DEF ByKey
  <2>3. x \in DOMAIN rows /\ y \in DOMAIN rows
    OBVIOUS
  <2>4. <<x, y>> \in Listing(rows, orderBy) <=> Precedes(OrderKeys(rows, orderBy, x), OrderKeys(rows, orderBy, y))
    BY <2>3 DEF Listing
  <2> QED BY <2>1, <2>2, <2>4
<1>6. Ordered(ids, keys) = InOrder(ids, ByKey(ids, keys))
  BY DEF Ordered, ByKey
<1> HIDE DEF keys
<1>7. StrictlyOrders(Listing(rows, orderBy), ids) /\ InOrder(ids, ByKey(ids, keys)) = InOrder(ids, Listing(rows, orderBy))
  BY <1>1, <1>4, <1>5, InOrderSame
<1> QED BY <1>1, <1>6, <1>7 DEF keys

LEMMA ListIsPage ==
  ASSUME NEW rows, ListRows(rows), NEW q
  PROVE  ListSessions(rows, q) =
           Take(InOrder(Asked(rows, q), Listing(rows, q.orderBy)),
                Clamp(IF q.limit = 0 THEN ListDefault ELSE q.limit, 1, ListMost))
<1> DEFINE ids == Asked(rows, q)
<1>1. ids \in SUBSET DOMAIN rows
  BY DEF Asked
<1>2. ListSessions(rows, q) = Take(Ordered(ids, [id \in ids |-> OrderKeys(rows, q.orderBy, id)]),
                                   Clamp(IF q.limit = 0 THEN ListDefault ELSE q.limit, 1, ListMost))
  BY DEF ListSessions, Asked
<1> HIDE DEF ids
<1>3. Ordered(ids, [id \in ids |-> OrderKeys(rows, q.orderBy, id)]) = InOrder(ids, Listing(rows, q.orderBy))
  BY <1>1, ListingOfPart
<1> QED BY <1>2, <1>3 DEF ids

ListRequest(B, O) == [branch : B, orderBy : O, since : Int, until : Int, limit : Nat]

\* A branch resumes the session that its default list shows first, and a branch, bounds or a limit leave rows
\* out of a list without moving the others (listSessions, resumeSession), for any finite table.
THEOREM ListsAlwaysAgree ==
  ASSUME NEW rows, ListRows(rows), NEW B, NEW O, NEW q \in ListRequest(B, O)
  PROVE  ListsAgree(rows, q)
<1> DEFINE all == [branch |-> 0, orderBy |-> q.orderBy, since |-> 0, until |-> 0, limit |-> ListMost]
           whole == ListSessions(rows, all)
           kept == {id \in DOMAIN rows : (q.branch # 0 => rows[id].branch = q.branch) /\ WithinBounds(rows[id], q)}
           page == IF q.limit = 0 THEN ListDefault ELSE IF q.limit > ListMost THEN ListMost ELSE q.limit
           latest == [q EXCEPT !.orderBy = "last_update", !.since = 0, !.until = 0]
           newest == ListSessions(rows, latest)
           shown == {id \in DOMAIN rows : rows[id].visible}
           R == Listing(rows, q.orderBy)
           asked == Asked(rows, q)
<1>1. q.limit \in Nat /\ q.since \in Int /\ q.until \in Int /\ ListDefault \in Nat \ {0} /\ ListMost \in Nat \ {0}
  BY DepthAssumption DEF ListRequest
<1>2. ASSUME Cardinality(DOMAIN rows) <= ListMost
      PROVE  ListSessions(rows, q) = Take(Keeping(whole, kept), page)
  <2>1. Asked(rows, all) = shown
    BY DEF Asked, WithinBounds
  <2>2. Clamp(IF all.limit = 0 THEN ListDefault ELSE all.limit, 1, ListMost) = ListMost
    BY <1>1 DEF Clamp
  <2>3. whole = Take(InOrder(shown, R), ListMost)
    <3>1. whole = Take(InOrder(Asked(rows, all), Listing(rows, all.orderBy)),
                       Clamp(IF all.limit = 0 THEN ListDefault ELSE all.limit, 1, ListMost))
      <4> HIDE DEF all
      <4> QED BY ListIsPage
    <3>2. all.orderBy = q.orderBy
      OBVIOUS
    <3> HIDE DEF all, shown
    <3> QED BY <2>1, <2>2, <3>1, <3>2
  <2>4. shown \in SUBSET DOMAIN rows /\ shown \cap kept = asked /\ asked \in SUBSET DOMAIN rows
    BY DEF Asked
  <2> HIDE DEF shown, kept, asked, R, whole
  <2>5. IsFiniteSet(shown) /\ StrictlyOrders(R, shown)
    BY <2>4, ListingOfPart DEF R
  <2>6. InOrder(shown, R) \in Seq(shown) /\ Len(InOrder(shown, R)) = Cardinality(shown)
    BY <2>5, InOrderLists DEF Lists
  <2>7. Cardinality(shown) \in Nat /\ Cardinality(shown) <= ListMost
    <3>1. Cardinality(shown) \in Nat /\ Cardinality(shown) <= Cardinality(DOMAIN rows)
      BY <2>4, PartsAreFinite DEF ListRows
    <3>2. Cardinality(DOMAIN rows) \in Nat
      BY FS_CardinalityType DEF ListRows
    <3> QED BY <1>1, <1>2, <3>1, <3>2
  <2>8. whole = InOrder(shown, R)
    BY <1>1, <2>3, <2>6, <2>7, TakeAll
  <2>9. Keeping(whole, kept) = InOrder(asked, R)
    BY <2>4, <2>5, <2>8, KeepingOrdered
  <2> DEFINE n == Clamp(IF q.limit = 0 THEN ListDefault ELSE q.limit, 1, ListMost)
             s == InOrder(asked, R)
  <2>10. ListSessions(rows, q) = Take(s, n)
    BY ListIsPage DEF asked, R
  <2>11. n = page \/ (n = ListMost /\ ListMost <= page)
    BY <1>1 DEF Clamp
  <2>12. n \in Nat /\ page \in Nat
    BY <1>1 DEF Clamp
  <2> HIDE DEF n, page
  <2>13. IsFiniteSet(asked) /\ StrictlyOrders(R, asked) /\ Cardinality(asked) \in Nat /\ Cardinality(asked) <= ListMost
    <3>1. IsFiniteSet(asked) /\ StrictlyOrders(R, asked)
      BY <2>4, ListingOfPart DEF R
    <3>2. Cardinality(asked) \in Nat /\ Cardinality(asked) <= Cardinality(DOMAIN rows)
      BY <2>4, PartsAreFinite DEF ListRows
    <3>3. Cardinality(DOMAIN rows) \in Nat
      BY FS_CardinalityType DEF ListRows
    <3> QED BY <1>1, <1>2, <3>1, <3>2, <3>3
  <2>14. s \in Seq(asked) /\ Len(s) = Cardinality(asked)
    BY <2>13, InOrderLists DEF Lists
  <2>15. CASE n = page
    BY <2>9, <2>10, <2>15
  <2>16. CASE n = ListMost /\ ListMost <= page
    <3> HIDE DEF s
    <3>1. Len(s) <= n /\ Len(s) <= page
      BY <1>1, <2>12, <2>13, <2>14, <2>16
    <3>2. Take(s, n) = s /\ Take(s, page) = s
      BY <2>12, <2>14, <3>1, TakeAll
    <3> QED BY <2>9, <2>10, <3>2 DEF s
  <2> QED BY <2>11, <2>15, <2>16
<1>3. Resume(rows, 0, q.branch) = IF q.branch = 0 \/ newest = <<>> THEN 0 ELSE newest[1]
  <2> DEFINE ids == {i \in DOMAIN rows : rows[i].visible /\ rows[i].branch = q.branch}
             s == InOrder(ids, Listing(rows, "last_update"))
             chosen == Take(Ordered(ids, [i \in ids |-> OrderKeys(rows, "last_update", i)]), 1)
  <2>1. Resume(rows, 0, q.branch) = IF q.branch = 0 \/ chosen = <<>> THEN 0 ELSE chosen[1]
    BY DEF Resume
  <2>2. SUFFICES ASSUME q.branch # 0
                 PROVE  (chosen = <<>> <=> newest = <<>>) /\ (chosen # <<>> => chosen[1] = newest[1])
    <3> HIDE DEF chosen, newest
    <3> QED BY <2>1, <2>2
  <2>3. ids \in SUBSET DOMAIN rows
    OBVIOUS
  <2>4. latest.orderBy = "last_update" /\ latest.branch = q.branch /\ latest.since = 0 /\ latest.until = 0
        /\ latest.limit = q.limit
    BY DEF ListRequest
  <2> HIDE DEF latest
  <2>5. Asked(rows, latest) = ids
    BY <2>2, <2>4 DEF Asked, WithinBounds
  <2> HIDE DEF ids
  <2>6. /\ IsFiniteSet(ids) /\ StrictlyOrders(Listing(rows, "last_update"), ids)
        /\ chosen = Take(s, 1)
    BY <2>3, ListingOfPart
  <2> DEFINE n == Clamp(IF q.limit = 0 THEN ListDefault ELSE q.limit, 1, ListMost)
  <2>7. newest = Take(s, n)
    BY <2>4, <2>5, ListIsPage
  <2>8. n \in Nat /\ n >= 1
    BY <1>1 DEF Clamp
  <2>9. s \in Seq(ids)
    BY <2>6, InOrderLists DEF Lists
  <2> HIDE DEF s, n, chosen, newest
  <2>10. Taken(chosen, s, 1, ids) /\ Taken(newest, s, n, ids)
    BY <2>6, <2>7, <2>8, <2>9, TakeFacts
  <2>11. Len(s) \in Nat
    BY <2>9
  <2>12. /\ Clamp(1, 0, Len(s)) = (IF Len(s) = 0 THEN 0 ELSE 1)
         /\ Clamp(n, 0, Len(s)) \in Nat
         /\ Clamp(n, 0, Len(s)) = 0 <=> Len(s) = 0
    BY <2>8, <2>11 DEF Clamp
  <2>13. chosen \in Seq(ids) /\ newest \in Seq(ids) /\ Len(chosen) = Clamp(1, 0, Len(s)) /\ Len(newest) = Clamp(n, 0, Len(s))
    BY <2>10 DEF Taken
  <2>14. (chosen = <<>> <=> Len(s) = 0) /\ (newest = <<>> <=> Len(s) = 0)
    BY <2>12, <2>13
  <2>15. ASSUME Len(s) # 0
         PROVE  chosen[1] = s[1] /\ newest[1] = s[1]
    <3>1. 1 \in 1..Clamp(1, 0, Len(s)) /\ 1 \in 1..Clamp(n, 0, Len(s))
      BY <2>11, <2>12, <2>15
    <3> QED BY <2>10, <3>1 DEF Taken
  <2> QED BY <2>14, <2>15
<1> QED BY <1>2, <1>3 DEF ListsAgree

Chosen(s) == CHOOSE x \in s : TRUE

\* g gives the sum of f over each part of S.
SumsUp(g, f, S) ==
  /\ g \in [SUBSET S -> Int]
  /\ \A s \in SUBSET S : g[s] = IF s = {} THEN 0 ELSE f[Chosen(s)] + g[s \ {Chosen(s)}]

LEMMA ChosenIn ==
  ASSUME NEW s, s # {}
  PROVE  Chosen(s) \in s
BY DEF Chosen

LEMMA SumsExist ==
  ASSUME NEW S, IsFiniteSet(S), NEW f, \A x \in S : f[x] \in Int
  PROVE  \E g : SumsUp(g, f, S)
<1> DEFINE V == [SUBSET S -> Int]
           N == Cardinality(S)
           next(n, h) == [s \in SUBSET S |-> IF Cardinality(s) = n THEN f[Chosen(s)] + h[s \ {Chosen(s)}] ELSE h[s]]
           zero == [s \in SUBSET S |-> 0]
           step == [n \in 1..N |-> [h \in V |-> next(n, h)]]
<1>1. N \in Nat
  BY FS_CardinalityType
<1>2. \A s \in SUBSET S : IsFiniteSet(s) /\ Cardinality(s) \in Nat /\ Cardinality(s) <= N /\ (Cardinality(s) = 0 <=> s = {})
  BY FS_Subset, FS_CardinalityType, FS_EmptySet
<1> HIDE DEF N
<1>3. ASSUME NEW n \in 1..N, NEW h \in V
      PROVE  next(n, h) \in V
  <2>1. ASSUME NEW s \in SUBSET S, Cardinality(s) = n
        PROVE  f[Chosen(s)] \in Int /\ s \ {Chosen(s)} \in SUBSET S
    <3>1. s # {}
      BY <1>2, <2>1
    <3> QED BY <3>1, ChosenIn
  <2> QED BY <2>1
<1>4. zero \in V
  OBVIOUS
<1> HIDE DEF next
<1>5. step \in [1..N -> [V -> V]]
  BY <1>3
<1>6. \A n \in 1..N, h \in V : step[n][h] = next(n, h)
  OBVIOUS
<1> HIDE DEF step, V, zero
<1>7. PICK c \in [0..N -> V] : c[0] = zero /\ \A n \in 1..N : c[n] = step[n][c[n - 1]]
  BY <1>1, <1>4, <1>5, StepsDefine
<1>8. \A n \in 1..N : c[n] = next(n, c[n - 1]) /\ c[n] \in V /\ c[n - 1] \in V
  <2> TAKE n \in 1..N
  <2>1. n - 1 \in 0..N /\ n \in 0..N
    BY <1>1
  <2>2. c[n - 1] \in V /\ c[n] \in V
    BY <1>7, <2>1
  <2> QED BY <1>6, <1>7, <2>2
\* Once a set has its sum it keeps it.
<1>9. \A s \in SUBSET S : \A n \in Nat : n <= N /\ Cardinality(s) <= n => c[n][s] = c[Cardinality(s)][s]
  <2> TAKE s \in SUBSET S
  <2> DEFINE T == {n \in Nat : n <= N /\ Cardinality(s) <= n => c[n][s] = c[Cardinality(s)][s]}
  <2>1. 0 \in T
    <3>1. Cardinality(s) <= 0 => Cardinality(s) = 0
      BY <1>2
    <3> QED BY <3>1
  <2>2. ASSUME NEW n \in T
        PROVE  n + 1 \in T
    <3>1. CASE Cardinality(s) = n + 1
      BY <3>1
    <3>2. CASE ~(Cardinality(s) <= n + 1 /\ n + 1 <= N)
      BY <3>2
    <3>3. CASE Cardinality(s) # n + 1 /\ Cardinality(s) <= n + 1 /\ n + 1 <= N
      <4>1. Cardinality(s) <= n /\ n <= N /\ n + 1 \in 1..N /\ (n + 1) - 1 = n
        BY <1>1, <1>2, <3>3
      <4>2. c[n + 1] = next(n + 1, c[n])
        BY <1>8, <4>1
      <4>3. c[n + 1][s] = c[n][s]
        BY <3>3, <4>2 DEF next
      <4> QED BY <4>1, <4>3
    <3> QED BY <3>1, <3>2, <3>3
  <2>3. T \in SUBSET Nat
    OBVIOUS
  <2>4. \A n \in Nat : n \in T
    <3> HIDE DEF T
    <3> QED BY <2>1, <2>2, <2>3, NumbersFollow
  <2> QED BY <2>4
<1> DEFINE g == c[N]
<1>10. N \in 0..N /\ 0 \in 0..N
  BY <1>1
<1>11. g \in [SUBSET S -> Int]
  BY <1>7, <1>10 DEF V
<1>12. g[{}] = 0
  <2>1. {} \in SUBSET S /\ Cardinality({}) = 0
    BY <1>2
  <2>2. g[{}] = c[0][{}]
    BY <1>1, <1>9, <2>1
  <2>3. zero[{}] = 0
    BY DEF zero
  <2> QED BY <1>7, <2>2, <2>3
<1>13. ASSUME NEW s \in SUBSET S, s # {}
       PROVE  g[s] = f[Chosen(s)] + g[s \ {Chosen(s)}]
  <2> DEFINE t == s \ {Chosen(s)}
             n == Cardinality(s)
  <2>1. n \in 1..N
    BY <1>1, <1>2, <1>13
  <2>2. t \in SUBSET S /\ Cardinality(t) = n - 1
    <3>1. Chosen(s) \in s
      BY <1>13, ChosenIn
    <3>2. Cardinality(t) = Cardinality(s) - 1
      BY <1>2, <3>1, FS_RemoveElement
    <3> QED BY <3>2
  <2>3. g[s] = c[n][s]
    BY <1>1, <1>9, <2>1
  <2>4. g[t] = c[n - 1][t]
    BY <1>1, <1>9, <2>1, <2>2
  <2>5. c[n] = next(n, c[n - 1])
    BY <1>8, <2>1
  <2>6. c[n][s] = f[Chosen(s)] + c[n - 1][t]
    BY <2>5 DEF next
  <2> QED BY <2>3, <2>4, <2>6
<1> HIDE DEF g
<1>14. SumsUp(g, f, S)
  BY <1>11, <1>12, <1>13 DEF SumsUp
<1> QED BY <1>14

\* The order in which a sum is taken does not matter.
LEMMA SumsAdd ==
  ASSUME NEW S, IsFiniteSet(S), NEW f, \A x \in S : f[x] \in Int, NEW g, SumsUp(g, f, S)
  PROVE  \A T \in SUBSET S : \A x \in S \ T : g[T \cup {x}] = f[x] + g[T]
<1> DEFINE N == {n \in Nat : \A T \in SUBSET S : Cardinality(T) = n => \A x \in S \ T : g[T \cup {x}] = f[x] + g[T]}
<1>1. \A T \in SUBSET S : IsFiniteSet(T) /\ Cardinality(T) \in Nat /\ (Cardinality(T) = 0 <=> T = {})
  BY FS_Subset, FS_CardinalityType, FS_EmptySet
<1>2. \A T \in SUBSET S : T # {} => g[T] = f[Chosen(T)] + g[T \ {Chosen(T)}] /\ Chosen(T) \in T
  BY ChosenIn DEF SumsUp
<1>3. g[{}] = 0 /\ \A T \in SUBSET S : g[T] \in Int
  BY DEF SumsUp
<1>4. 0 \in N
  <2> SUFFICES ASSUME NEW x \in S
               PROVE  g[{x}] = f[x] + g[{}]
    BY <1>1
  <2>1. g[{x}] = f[Chosen({x})] + g[{x} \ {Chosen({x})}] /\ Chosen({x}) \in {x}
    BY <1>2
  <2>2. Chosen({x}) = x /\ {x} \ {Chosen({x})} = {}
    BY <2>1
  <2> QED BY <2>1, <2>2
<1>5. ASSUME NEW n \in N
      PROVE  n + 1 \in N
  <2> SUFFICES ASSUME NEW T \in SUBSET S, Cardinality(T) = n + 1, NEW x \in S \ T
               PROVE  g[T \cup {x}] = f[x] + g[T]
    <3>1. n + 1 \in Nat
      OBVIOUS
    <3> QED BY <3>1
  <2> DEFINE U == T \cup {x}
             y == Chosen(U)
  <2>1. g[U] = f[y] + g[U \ {y}] /\ y \in U
    BY <1>2
  <2> HIDE DEF y
  <2>2. CASE y = x
    <3>1. U \ {y} = T
      BY <2>2
    <3> QED BY <2>1, <2>2, <3>1
  <2>3. CASE y # x
    <3> DEFINE R == T \ {y}
    <3>1. y \in T /\ R \in SUBSET S /\ R \cup {y} = T /\ R \cup {x} = U \ {y} /\ y \in S \ R /\ x \in S \ R
      BY <2>1, <2>3
    <3>2. Cardinality(R) = n
      <4>1. Cardinality(R) = Cardinality(T) - 1
        BY <1>1, <3>1, FS_RemoveElement
      <4> QED BY <4>1
    <3> HIDE DEF R, U
    <3>3. g[R \cup {y}] = f[y] + g[R] /\ g[R \cup {x}] = f[x] + g[R]
      BY <3>1, <3>2
    <3>4. g[U] = f[y] + (f[x] + g[R]) /\ g[T] = f[y] + g[R]
      BY <2>1, <3>1, <3>3
    <3>5. f[y] \in Int /\ f[x] \in Int /\ g[R] \in Int
      BY <1>3, <3>1
    <3>6. g[U] = f[x] + g[T]
      BY <3>4, <3>5
    <3> QED BY <3>6 DEF U
  <2> QED BY <2>2, <2>3
<1>6. \A n \in Nat : n \in N
  <2> HIDE DEF N
  <2>1. N \in SUBSET Nat
    BY DEF N
  <2> QED BY <1>4, <1>5, <2>1, NumbersFollow
<1> QED BY <1>1, <1>6

\* The sum over a set depends on nothing but the values there.
LEMMA SumsAgree ==
  ASSUME NEW S, IsFiniteSet(S), NEW f, \A x \in S : f[x] \in Int, NEW g, SumsUp(g, f, S),
         NEW U, IsFiniteSet(U), NEW e, \A x \in U : e[x] \in Int, NEW h, SumsUp(h, e, U),
         NEW T, T \subseteq S, T \subseteq U, \A x \in T : f[x] = e[x]
  PROVE  g[T] = h[T]
<1> DEFINE F == {s \in SUBSET T : g[s] = h[s]}
<1>1. {} \in F
  BY DEF SumsUp
<1>2. ASSUME NEW s \in F, NEW x \in T \ s
      PROVE  s \cup {x} \in F
  <2>1. g[s \cup {x}] = f[x] + g[s]
    <3>1. s \in SUBSET S /\ x \in S \ s
      OBVIOUS
    <3> QED BY <3>1, SumsAdd
  <2>2. h[s \cup {x}] = e[x] + h[s]
    <3>1. s \in SUBSET U /\ x \in U \ s
      OBVIOUS
    <3> QED BY <3>1, SumsAdd
  <2> QED BY <2>1, <2>2
<1>3. IsFiniteSet(T)
  BY FS_Subset
<1>4. T \in F
  <2> HIDE DEF F
  <2>1. F \in SUBSET SUBSET T
    BY DEF F
  <2> QED BY <1>1, <1>2, <1>3, <2>1, SetsGrow
<1> QED BY <1>4

LEMMA SumOnSums ==
  ASSUME NEW S, IsFiniteSet(S), NEW f, \A x \in S : f[x] \in Int
  PROVE  \E g : SumsUp(g, f, S) /\ SumFunctionOnSet(f, S) = g[S]
<1> DEFINE body(g) == [s \in SUBSET S |-> IF s = {} THEN 0 ELSE f[Chosen(s)] + g[s \ {Chosen(s)}]]
           iter == CHOOSE g : g = body(g)
<1>1. SumFunctionOnSet(f, S) = iter[S]
  BY DEF SumFunctionOnSet, FoldFunctionOnSet, MapThenFoldSet, Chosen
<1>2. PICK g : SumsUp(g, f, S)
  BY SumsExist
<1>3. g = body(g)
  <2>1. g \in [SUBSET S -> Int] /\ DOMAIN body(g) = SUBSET S
    BY <1>2 DEF SumsUp
  <2>2. \A s \in SUBSET S : g[s] = body(g)[s]
    BY <1>2 DEF SumsUp
  <2>3. body(g) \in [SUBSET S -> Int]
    <3>1. \A s \in SUBSET S : body(g)[s] \in Int
      BY <2>1, <2>2
    <3> QED BY <3>1
  <2> HIDE DEF body
  <2> QED BY <2>1, <2>2, <2>3
<1>4. iter = body(iter)
  <2> HIDE DEF body
  <2> QED BY <1>3
<1> HIDE DEF iter
\* What satisfies the recursion sums up.
<1>5. \A s \in SUBSET S : iter[s] = IF s = {} THEN 0 ELSE f[Chosen(s)] + iter[s \ {Chosen(s)}]
  <2> DEFINE e == body(iter)
  <2>1. \A s \in SUBSET S : e[s] = IF s = {} THEN 0 ELSE f[Chosen(s)] + iter[s \ {Chosen(s)}]
    OBVIOUS
  <2> HIDE DEF body
  <2> QED BY <1>4, <2>1
<1>6. DOMAIN iter = SUBSET S /\ iter = [s \in SUBSET S |-> iter[s]]
  <2> DEFINE e == body(iter)
  <2>1. DOMAIN e = SUBSET S /\ e = [s \in SUBSET S |-> e[s]]
    OBVIOUS
  <2> HIDE DEF body
  <2> QED BY <1>4, <2>1
<1>7. \A s \in SUBSET S : iter[s] \in Int
  <2> DEFINE N == {n \in Nat : \A s \in SUBSET S : Cardinality(s) = n => iter[s] \in Int}
  <2>1. \A s \in SUBSET S : IsFiniteSet(s) /\ Cardinality(s) \in Nat /\ (Cardinality(s) = 0 <=> s = {})
    BY FS_Subset, FS_CardinalityType, FS_EmptySet
  <2>2. 0 \in N
    <3>1. iter[{}] = 0 /\ {} \in SUBSET S
      BY <1>5
    <3>2. \A s \in SUBSET S : Cardinality(s) = 0 => s = {}
      BY <2>1
    <3> QED BY <3>1, <3>2
  <2>3. ASSUME NEW n \in N
        PROVE  n + 1 \in N
    <3> SUFFICES ASSUME NEW s \in SUBSET S, Cardinality(s) = n + 1
                 PROVE  iter[s] \in Int
      OBVIOUS
    <3>1. s # {} /\ Chosen(s) \in s
      BY <2>1, ChosenIn
    <3>2. Cardinality(s \ {Chosen(s)}) = n /\ s \ {Chosen(s)} \in SUBSET S
      <4>1. Cardinality(s \ {Chosen(s)}) = Cardinality(s) - 1
        BY <2>1, <3>1, FS_RemoveElement
      <4> QED BY <4>1
    <3>3. iter[s \ {Chosen(s)}] \in Int /\ f[Chosen(s)] \in Int
      BY <3>1, <3>2
    <3>4. iter[s] = f[Chosen(s)] + iter[s \ {Chosen(s)}]
      BY <1>5, <3>1
    <3> QED BY <3>3, <3>4
  <2>4. \A n \in Nat : n \in N
    <3> HIDE DEF N
    <3>1. N \in SUBSET Nat
      BY DEF N
    <3> QED BY <2>2, <2>3, <3>1, NumbersFollow
  <2> QED BY <2>1, <2>4
<1>8. SumsUp(iter, f, S)
  BY <1>5, <1>6, <1>7 DEF SumsUp
<1> QED BY <1>1, <1>8

-----------------------------------------------------------------------------
(* Sums, by what they do. *)

SumOn(f, S) == SumFunctionOnSet(f, S)

LEMMA SumOfNone ==
  ASSUME NEW f
  PROVE  SumOn(f, {}) = 0
<1>1. \E g : SumsUp(g, f, {}) /\ SumFunctionOnSet(f, {}) = g[{}]
  BY FS_EmptySet, SumOnSums
<1> QED BY <1>1 DEF SumOn, SumsUp

LEMMA SumWithOneMore ==
  ASSUME NEW S, IsFiniteSet(S), NEW f, \A x \in S : f[x] \in Int, NEW x \in S
  PROVE  SumOn(f, S) = f[x] + SumOn(f, S \ {x}) /\ SumOn(f, S) \in Int /\ SumOn(f, S \ {x}) \in Int
<1> DEFINE T == S \ {x}
<1>1. PICK g : SumsUp(g, f, S) /\ SumFunctionOnSet(f, S) = g[S]
  BY SumOnSums
<1>2. IsFiniteSet(T) /\ T \in SUBSET S /\ T \cup {x} = S /\ x \in S \ T /\ \A y \in T : f[y] \in Int
  BY FS_Subset
<1> HIDE DEF T
<1>3. PICK h : SumsUp(h, f, T) /\ SumFunctionOnSet(f, T) = h[T]
  BY <1>2, SumOnSums
<1>4. g[T] = h[T]
  BY <1>1, <1>2, <1>3, SumsAgree
<1>5. g[T \cup {x}] = f[x] + g[T]
  BY <1>1, <1>2, SumsAdd
<1>6. g[S] \in Int /\ g[T] \in Int
  BY <1>1, <1>2 DEF SumsUp
<1>7. SumOn(f, S) = f[x] + SumOn(f, T) /\ SumOn(f, S) \in Int /\ SumOn(f, T) \in Int
  BY <1>1, <1>2, <1>3, <1>4, <1>5, <1>6 DEF SumOn
<1> QED BY <1>7 DEF T

LEMMA SumType ==
  ASSUME NEW S, IsFiniteSet(S), NEW f, \A x \in S : f[x] \in Int
  PROVE  SumOn(f, S) \in Int
<1>1. PICK g : SumsUp(g, f, S) /\ SumFunctionOnSet(f, S) = g[S]
  BY SumOnSums
<1> QED BY <1>1 DEF SumOn, SumsUp

LEMMA SumOfSame ==
  ASSUME NEW S, IsFiniteSet(S), NEW f, NEW e, \A x \in S : f[x] \in Int /\ e[x] = f[x]
  PROVE  SumOn(f, S) = SumOn(e, S)
<1>1. PICK g : SumsUp(g, f, S) /\ SumFunctionOnSet(f, S) = g[S]
  BY SumOnSums
<1>2. PICK h : SumsUp(h, e, S) /\ SumFunctionOnSet(e, S) = h[S]
  BY SumOnSums
<1>3. g[S] = h[S]
  BY <1>1, <1>2, SumsAgree
<1> QED BY <1>1, <1>2, <1>3 DEF SumOn

-----------------------------------------------------------------------------
(* Greatest elements, and sums over the first numbers. *)

LEMMA GreatestIs ==
  ASSUME NEW S \in SUBSET Int, NEW m \in S, \A y \in S : y <= m
  PROVE  Max(S) = m
<1> DEFINE Top(x) == \A y \in S : x >= y
<1>1. Top(m)
  OBVIOUS
<1>2. \A x \in S : Top(x) => x = m
  <2> SUFFICES ASSUME NEW x \in S, Top(x)
               PROVE  x = m
    OBVIOUS
  <2>1. x >= m /\ x <= m /\ x \in Int /\ m \in Int
    OBVIOUS
  <2> QED BY <2>1
<1>3. Max(S) = CHOOSE x \in S : Top(x)
  BY DEF Max
<1> HIDE DEF Top
<1> QED BY <1>1, <1>2, <1>3

LEMMA GreatestFacts ==
  ASSUME NEW S \in SUBSET Int, IsFiniteSet(S), S # {}
  PROVE  Max(S) \in S /\ \A y \in S : y <= Max(S)
<1> DEFINE F == {T \in SUBSET S : T = {} \/ \E m \in T : \A y \in T : y <= m}
<1>1. {} \in F
  OBVIOUS
<1>2. ASSUME NEW T \in F, NEW x \in S \ T
      PROVE  T \cup {x} \in F
  <2>1. CASE T = {}
    BY <2>1
  <2>2. CASE T # {}
    <3>1. PICK m \in T : \A y \in T : y <= m
      BY <2>2
    <3>2. CASE x <= m
      <4>1. \A y \in T \cup {x} : y <= m
        BY <3>1, <3>2
      <4> QED BY <4>1
    <3>3. CASE m < x
      <4>1. \A y \in T \cup {x} : y <= x
        BY <3>1, <3>3
      <4> QED BY <4>1
    <3> QED BY <3>2, <3>3
  <2> QED BY <2>1, <2>2
<1>3. S \in F
  <2> HIDE DEF F
  <2>1. F \in SUBSET SUBSET S
    BY DEF F
  <2> QED BY <1>1, <1>2, <2>1, SetsGrow
<1>4. PICK m \in S : \A y \in S : y <= m
  BY <1>3
<1>5. Max(S) = m
  BY <1>4, GreatestIs
<1> QED BY <1>4, <1>5

LEMMA SumUpTo ==
  ASSUME NEW n \in Nat, NEW f, \A i \in 1..n : f[i] \in Int
  PROVE  /\ SumOn(f, 1..n) \in Int
         /\ n = 0 => SumOn(f, 1..n) = 0
         /\ n > 0 => SumOn(f, 1..n) = f[n] + SumOn(f, 1..(n - 1))
<1>1. IsFiniteSet(1..n)
  BY FS_Interval
<1>2. SumOn(f, 1..n) \in Int
  BY <1>1, SumType
<1>3. n = 0 => SumOn(f, 1..n) = 0
  <2>1. n = 0 => 1..n = {}
    OBVIOUS
  <2> QED BY <2>1, SumOfNone
<1>4. ASSUME n > 0
      PROVE  SumOn(f, 1..n) = f[n] + SumOn(f, 1..(n - 1))
  <2>1. n \in 1..n /\ (1..n) \ {n} = 1..(n - 1)
    BY <1>4
  <2> DEFINE S == 1..n
  <2>2. SumOn(f, S) = f[n] + SumOn(f, S \ {n})
    <3>1. IsFiniteSet(S) /\ n \in S /\ \A x \in S : f[x] \in Int
      BY <1>1, <2>1
    <3> HIDE DEF S
    <3> QED BY <3>1, SumWithOneMore
  <2> QED BY <2>1, <2>2
<1> QED BY <1>2, <1>3, <1>4

-----------------------------------------------------------------------------
(* Texts. *)

Weights(text) == [i \in 1..Len(text) |-> UnitBytes(text, i)]
Upto(text, end) == SumOn(Weights(text), 1..end)
CutFits(text, end) == CutBytes(text, SafePrefixEnd(text, end)) <= Budget

TextLength(text) == Len(text) \in Nat /\ DOMAIN text = 1..Len(text)

LEMMA LengthOfText ==
  ASSUME NEW text \in Seq(Unit)
  PROVE  TextLength(text) /\ \A i \in 1..Len(text) : text[i] \in Unit
BY DEF TextLength

LEMMA WeightFacts ==
  ASSUME NEW text \in Seq(Unit), NEW i \in 1..Len(text)
  PROVE  /\ Weights(text)[i] \in Nat
         /\ Paired(text, i) => Weights(text)[i] = 4 /\ ~Paired(text, i - 1)
         /\ ~Paired(text, i) /\ ~Paired(text, i - 1) => Weights(text)[i] >= 1
<1>1. Len(text) \in Nat
  OBVIOUS
<1>2. Weights(text)[i] = UnitBytes(text, i)
  BY DEF Weights
<1>3. Paired(text, i) => ~Paired(text, i - 1)
  BY <1>1 DEF Paired
<1> QED BY <1>1, <1>2, <1>3 DEF UnitBytes

LEMMA UptoFacts ==
  ASSUME NEW text \in Seq(Unit), NEW end \in 0..Len(text)
  PROVE  /\ Upto(text, end) \in Int
         /\ end = 0 => Upto(text, end) = 0
         /\ end > 0 => Upto(text, end) = Weights(text)[end] + Upto(text, end - 1)
<1>1. Len(text) \in Nat
  OBVIOUS
<1>2. \A i \in 1..end : Weights(text)[i] \in Int
  BY <1>1, WeightFacts
<1>3. end \in Nat
  BY <1>1
<1> QED BY <1>2, <1>3, SumUpTo DEF Upto

\* A prefix takes at least a byte for every unit, and a pair that it splits at least one more.
LEMMA UptoGrows ==
  ASSUME NEW text \in Seq(Unit)
  PROVE  \A end \in 0..Len(text) :
           Upto(text, end) \in Nat /\ Upto(text, end) >= end + (IF Paired(text, end) THEN 1 ELSE 0)
<1> DEFINE W == Weights(text)
           U(n) == Upto(text, n)
           Pa(n) == Paired(text, n)
           T == {n \in Nat : n <= Len(text) => U(n) \in Nat /\ U(n) >= n + (IF Pa(n) THEN 1 ELSE 0)}
<1>1. Len(text) \in Nat
  OBVIOUS
<1>2. 0 \in T
  <2>1. U(0) = 0 /\ 0 \in 0..Len(text)
    BY <1>1, UptoFacts
  <2>2. ~Pa(0)
    BY <1>1 DEF Paired
  <2> QED BY <2>1, <2>2
<1>3. ASSUME NEW n \in T
      PROVE  n + 1 \in T
  <2> SUFFICES ASSUME n + 1 <= Len(text)
               PROVE  U(n + 1) \in Nat /\ U(n + 1) >= n + 1 + (IF Pa(n + 1) THEN 1 ELSE 0)
    OBVIOUS
  <2>0. n \in Nat /\ U(n) \in Nat /\ U(n) >= n + (IF Pa(n) THEN 1 ELSE 0)
    BY <1>1
  <2>1. n + 1 \in 1..Len(text) /\ n + 1 \in 0..Len(text) /\ (n + 1) - 1 = n
    BY <1>1, <2>0
  <2>2. /\ W[n + 1] \in Nat
        /\ Pa(n + 1) => W[n + 1] = 4 /\ ~Pa(n)
        /\ ~Pa(n + 1) /\ ~Pa(n) => W[n + 1] >= 1
    BY <2>1, WeightFacts
  <2>3. U(n + 1) = W[n + 1] + U(n)
    BY <2>0, <2>1, UptoFacts
  <2> HIDE DEF U, W, Pa
  <2> QED BY <2>0, <2>2, <2>3
<1>4. \A n \in Nat : n \in T
  <2> HIDE DEF T
  <2>1. T \in SUBSET Nat
    BY DEF T
  <2> QED BY <1>2, <1>3, <2>1, NumbersFollow
<1> QED BY <1>1, <1>4

\* Up to where no pair is split, a prefix has the bytes that its units have in the text.
LEMMA BytesOfPrefix ==
  ASSUME NEW text \in Seq(Unit), NEW end \in 0..Len(text), ~Paired(text, end)
  PROVE  TextBytes(SubSeq(text, 1, end)) = Upto(text, end)
<1> DEFINE s == SubSeq(text, 1, end)
           w == [i \in DOMAIN s |-> UnitBytes(s, i)]
<1>0. Len(text) \in Nat /\ end \in Nat
  OBVIOUS
<1>1. Len(s) = end /\ DOMAIN s = 1..end /\ \A i \in 1..end : s[i] = text[i]
  OBVIOUS
<1> HIDE DEF s
<1>2. \A i \in 0..end : Paired(s, i) <=> Paired(text, i)
  <2> TAKE i \in 0..end
  <2>1. CASE i = end
    BY <1>0, <1>1, <2>1 DEF Paired
  <2>2. CASE i = 0
    BY <1>0, <1>1, <2>2 DEF Paired
  <2>3. CASE i # end /\ i # 0
    <3>1. i \in 1..(end - 1) /\ i \in 1..(Len(text) - 1) /\ i \in 1..end /\ i + 1 \in 1..end
      BY <1>0, <2>3
    <3> QED BY <1>1, <3>1 DEF Paired
  <2> QED BY <2>1, <2>2, <2>3
<1>3. \A i \in 1..end : w[i] = Weights(text)[i] /\ w[i] \in Int
  <2> TAKE i \in 1..end
  <2>1. i \in 0..end /\ i - 1 \in 0..end /\ i \in 1..Len(text)
    BY <1>0
  <2>2. UnitBytes(s, i) = UnitBytes(text, i)
    BY <1>1, <1>2, <2>1 DEF UnitBytes
  <2>3. Weights(text)[i] = UnitBytes(text, i) /\ Weights(text)[i] \in Nat
    BY <2>1, WeightFacts DEF Weights
  <2>4. w[i] = UnitBytes(s, i)
    BY <1>1
  <2> QED BY <2>2, <2>3, <2>4
<1>4. TextBytes(s) = SumOn(w, 1..end)
  BY <1>1 DEF TextBytes, SumFunction, SumOn
<1>5. IsFiniteSet(1..end)
  BY FS_Interval
<1> HIDE DEF w
<1>6. SumOn(w, 1..end) = SumOn(Weights(text), 1..end)
  BY <1>3, <1>5, SumOfSame
<1> QED BY <1>4, <1>6 DEF Upto, s

LEMMA CutIs ==
  ASSUME BudgetAssumption, NEW text \in Seq(Unit), NEW end \in 0..Len(text), ~Paired(text, end)
  PROVE  CutBytes(text, end) = Envelope + Footer + (IF end = 0 THEN 0 ELSE Upto(text, end) + Separator)
BY BytesOfPrefix DEF CutBytes

LEMMA SafeEnds ==
  ASSUME NEW text \in Seq(Unit), NEW end \in 0..Len(text)
  PROVE  /\ SafePrefixEnd(text, end) \in 0..Len(text)
         /\ ~Paired(text, SafePrefixEnd(text, end))
         /\ SafePrefixEnd(text, end) \in {end - 1, end}
         /\ ~Paired(text, end) => SafePrefixEnd(text, end) = end
<1>1. Len(text) \in Nat
  OBVIOUS
<1> QED BY <1>1 DEF SafePrefixEnd, Paired

LEMMA UptoRises ==
  ASSUME NEW text \in Seq(Unit), NEW a \in 0..Len(text)
  PROVE  \A b \in 0..Len(text) : a <= b => Upto(text, a) <= Upto(text, b)
<1> DEFINE U(n) == Upto(text, n)
           T == {n \in Nat : n <= Len(text) /\ a <= n => U(a) <= U(n)}
<1>1. Len(text) \in Nat /\ a \in Nat
  OBVIOUS
<1>2. U(a) \in Nat
  BY UptoGrows
<1>3. 0 \in T
  BY <1>1, <1>2
<1>4. ASSUME NEW n \in T
      PROVE  n + 1 \in T
  <2> SUFFICES ASSUME n + 1 <= Len(text), a <= n + 1
               PROVE  U(a) <= U(n + 1)
    OBVIOUS
  <2>1. CASE a = n + 1
    BY <1>2, <2>1
  <2>2. CASE a # n + 1
    <3>1. n \in Nat /\ U(a) <= U(n) /\ n + 1 \in 1..Len(text) /\ n + 1 \in 0..Len(text) /\ n \in 0..Len(text) /\ (n + 1) - 1 = n
      BY <1>1, <2>2
    <3>2. U(n + 1) = Weights(text)[n + 1] + U(n)
      BY <3>1, UptoFacts
    <3>3. Weights(text)[n + 1] \in Nat /\ U(n) \in Nat
      BY <3>1, WeightFacts, UptoGrows
    <3> HIDE DEF U
    <3> QED BY <1>2, <3>1, <3>2, <3>3
  <2> QED BY <2>1, <2>2
<1>5. \A n \in Nat : n \in T
  <2> HIDE DEF T
  <2>1. T \in SUBSET Nat
    BY DEF T
  <2> QED BY <1>3, <1>4, <2>1, NumbersFollow
<1> QED BY <1>1, <1>5

\* What fits, a shorter prefix fits too, and a prefix that fits has no more units than the budget bytes.
LEMMA FitsFalls ==
  ASSUME BudgetAssumption, NEW text \in Seq(Unit), NEW a \in 0..Len(text), NEW b \in 0..Len(text), a <= b, CutFits(text, b)
  PROVE  CutFits(text, a)
<1> DEFINE x == SafePrefixEnd(text, a)
           y == SafePrefixEnd(text, b)
<1>1. Len(text) \in Nat
  OBVIOUS
<1>2. x \in 0..Len(text) /\ ~Paired(text, x) /\ x \in {a - 1, a} /\ y \in 0..Len(text) /\ ~Paired(text, y) /\ y \in {b - 1, b}
  BY SafeEnds
<1>3. x <= y
  BY <1>1, <1>2
<1> HIDE DEF x, y
<1>4. Upto(text, x) <= Upto(text, y) /\ Upto(text, x) \in Nat /\ Upto(text, y) \in Nat
  BY <1>2, <1>3, UptoRises, UptoGrows
<1>5. /\ CutBytes(text, x) = Envelope + Footer + (IF x = 0 THEN 0 ELSE Upto(text, x) + Separator)
      /\ CutBytes(text, y) = Envelope + Footer + (IF y = 0 THEN 0 ELSE Upto(text, y) + Separator)
  BY <1>2, CutIs
<1>6. {Envelope, Footer, Separator, Budget} \subseteq Nat
  BY BudgetAssumption DEF BudgetAssumption
<1>7. CutBytes(text, y) <= Budget
  BY DEF CutFits, y
<1>8. x \in Nat /\ y \in Nat
  BY <1>1, <1>2
<1>9. CutBytes(text, x) <= Budget
  BY <1>3, <1>4, <1>5, <1>6, <1>7, <1>8, SMTT(30)
<1> QED BY <1>9 DEF CutFits, x

LEMMA FitsAreShort ==
  ASSUME BudgetAssumption, NEW text \in Seq(Unit), NEW end \in 0..Len(text), ~Paired(text, end),
         CutBytes(text, end) <= Budget
  PROVE  end <= Budget
<1>1. Upto(text, end) \in Nat /\ Upto(text, end) >= end
  <2>1. Len(text) \in Nat
    OBVIOUS
  <2> QED BY <2>1, UptoGrows
<1>2. {Envelope, Footer, Separator, Budget} \subseteq Nat
  BY BudgetAssumption DEF BudgetAssumption
<1>3. Len(text) \in Nat /\ end \in Nat
  OBVIOUS
<1> QED BY <1>1, <1>2, <1>3, CutIs

Stepped(f, V, first, N, step) == f \in [0..N -> V] /\ f[0] = first /\ \A n \in 1..N : f[n] = step[n][f[n - 1]]

LEMMA StepsExist ==
  ASSUME NEW V, NEW first \in V, NEW N \in Nat, NEW step \in [1..N -> [V -> V]]
  PROVE  \E f : Stepped(f, V, first, N, step)
<1>1. PICK f \in [0..N -> V] : f[0] = first /\ \A n \in 1..N : f[n] = step[n][f[n - 1]]
  BY StepsDefine
<1> QED BY <1>1 DEF Stepped

\* Where the search stands after n rounds: what is above high does not fit, and best is the safe end of the last
\* length that was found to fit.
Searching(text, most, n, s) ==
  /\ s.low \in Nat /\ s.high \in -1..most /\ s.low <= s.high + 1
  /\ s.low > s.high \/ s.high - s.low + n <= most
  /\ s.low = 0 => s.best = -1
  /\ s.low > 0 => s.best = SafePrefixEnd(text, s.low - 1) /\ CutFits(text, s.low - 1)
  /\ \A e \in (s.high + 1)..most : ~CutFits(text, e)

Search == [low : Int, high : Int, best : Int]

LEMMA RoundSearches ==
  ASSUME BudgetAssumption, NEW text \in Seq(Unit), NEW most \in 0..Len(text), NEW n \in Nat, NEW s \in Search,
         Searching(text, most, n, s)
  PROVE  Probed(text, s) \in Search /\ Searching(text, most, n + 1, Probed(text, s))
<1> DEFINE mid == (s.low + s.high) \div 2
           end == SafePrefixEnd(text, mid)
<1>1. Len(text) \in Nat /\ most \in Nat
  OBVIOUS
<1>2. s.low \in Int /\ s.high \in Int /\ s.best \in Int
  BY DEF Search
<1>3. CASE s.low > s.high
  <2>1. Probed(text, s) = s
    BY <1>3 DEF Probed
  <2> QED BY <1>3, <2>1 DEF Searching
<1>4. CASE ~(s.low > s.high)
  <2> DEFINE lo == s.low
             hi == s.high
             long == Len(text)
  <2>0. lo \in Nat /\ hi \in Int /\ lo <= hi /\ hi <= most /\ (hi - lo + n <= most)
    BY <1>1, <1>2, <1>4 DEF Searching
  <2>00. long \in Nat /\ most \in Nat /\ most <= long
    OBVIOUS
  <2>1. lo \in Nat /\ lo <= mid /\ mid <= hi /\ hi <= most /\ mid \in Nat
    <3>1. mid = (lo + hi) \div 2
      OBVIOUS
    <3> HIDE DEF lo, hi, long, mid
    <3> QED BY <2>0, <3>1
  <2>2. mid \in 0..long
    <3> HIDE DEF lo, hi, long, mid
    <3> QED BY <2>0, <2>00, <2>1
  <2>3. end \in Int
    BY <2>2, SafeEnds, <1>1
  <2>4. Probed(text, s) = IF CutBytes(text, end) <= Budget THEN [s EXCEPT !.low = mid + 1, !.best = end]
                          ELSE [s EXCEPT !.high = mid - 1]
    BY <1>4 DEF Probed
  <2>5. CutFits(text, mid) <=> CutBytes(text, end) <= Budget
    BY DEF CutFits
  <2> HIDE DEF mid
  <2>6. CASE CutFits(text, mid)
    <3> DEFINE r == [low |-> mid + 1, high |-> s.high, best |-> end]
    <3>1. Probed(text, s) = r
      BY <2>4, <2>5, <2>6 DEF Search
    <3>2. r \in Search
      BY <1>2, <2>1, <2>3 DEF Search
    <3>3. r.low = mid + 1 /\ r.high = hi /\ r.best = end /\ (mid + 1) - 1 = mid
      BY <2>1
    <3> HIDE DEF r, end
    <3>4. Searching(text, most, n + 1, r)
      <4> HIDE DEF lo, hi, long
      <4>1. r.low \in Nat /\ r.high \in -1..most /\ r.low <= r.high + 1
        BY <2>0, <2>00, <2>1, <3>3
      <4>2. r.low > r.high \/ r.high - r.low + (n + 1) <= most
        BY <2>0, <2>00, <2>1, <3>3
      <4>3. r.low > 0 /\ r.best = SafePrefixEnd(text, r.low - 1) /\ CutFits(text, r.low - 1)
        BY <2>1, <2>6, <3>3 DEF end
      <4>4. \A e \in (r.high + 1)..most : ~CutFits(text, e)
        BY <3>3 DEF Searching, lo, hi
      <4> QED BY <4>1, <4>2, <4>3, <4>4 DEF Searching
    <3> QED BY <3>1, <3>2, <3>4
  <2>7. CASE ~CutFits(text, mid)
    <3> DEFINE r == [low |-> s.low, high |-> mid - 1, best |-> s.best]
    <3>1. Probed(text, s) = r
      BY <2>4, <2>5, <2>7 DEF Search
    <3>2. r \in Search
      BY <1>2, <2>1 DEF Search
    <3>3. r.low = lo /\ r.high = mid - 1 /\ r.best = s.best
      OBVIOUS
    <3> HIDE DEF r, end
    <3>4. Searching(text, most, n + 1, r)
      <4> HIDE DEF lo, hi, long
      <4>1. r.low \in Nat /\ r.high \in -1..most /\ r.low <= r.high + 1
        BY <2>0, <2>00, <2>1, <3>3, SMTT(30)
      <4>2. r.low > r.high \/ r.high - r.low + (n + 1) <= most
        BY <2>0, <2>00, <2>1, <3>3
      <4>3. /\ r.low = 0 => r.best = -1
            /\ r.low > 0 => r.best = SafePrefixEnd(text, r.low - 1) /\ CutFits(text, r.low - 1)
        BY <3>3 DEF Searching, lo
      <4>4. \A e \in (r.high + 1)..most : ~CutFits(text, e)
        <5> TAKE e \in (r.high + 1)..most
        <5>1. mid <= e /\ e \in 0..long
          BY <2>00, <2>1, <3>3
        <5>2. mid \in 0..Len(text) /\ e \in 0..Len(text)
          BY <2>2, <5>1 DEF long
        <5> QED BY <2>7, <5>1, <5>2, FitsFalls
      <4> QED BY <4>1, <4>2, <4>3, <4>4 DEF Searching
    <3> QED BY <3>1, <3>2, <3>4
  <2> QED BY <2>6, <2>7
<1> QED BY <1>3, <1>4

LEMMA ProbedType ==
  ASSUME NEW text \in Seq(Unit), NEW s \in Search
  PROVE  Probed(text, s) \in Search
<1> DEFINE mid == (s.low + s.high) \div 2
           end == SafePrefixEnd(text, mid)
<1>1. s.low \in Int /\ s.high \in Int /\ s.best \in Int /\ mid \in Int
  BY DEF Search
<1>2. end \in Int
  BY <1>1 DEF SafePrefixEnd
<1>3. Probed(text, s) \in {s, [s EXCEPT !.low = mid + 1, !.best = end], [s EXCEPT !.high = mid - 1]}
  BY DEF Probed
<1> HIDE DEF mid, end
<1>4. [s EXCEPT !.low = mid + 1, !.best = end] \in Search
  <2> DEFINE r == [s EXCEPT !.low = mid + 1]
  <2>1. r \in Search
    BY <1>1 DEF Search
  <2>2. [r EXCEPT !.best = end] = [s EXCEPT !.low = mid + 1, !.best = end]
    OBVIOUS
  <2> HIDE DEF r
  <2>3. [r EXCEPT !.best = end] \in Search
    BY <1>2, <2>1 DEF Search
  <2> QED BY <2>2, <2>3
<1>5. [s EXCEPT !.high = mid - 1] \in Search
  BY <1>1, <1>2 DEF Search
<1> QED BY <1>3, <1>4, <1>5

\* The result of the search: the longest prefix that fits, and -1 if none does.
FittingEnds(text) == {end \in 0..Len(text) : ~Paired(text, end) /\ CutBytes(text, end) <= Budget}

LEMMA TextCutIs ==
  ASSUME BudgetAssumption, NEW text \in Seq(Unit)
  PROVE  IF FittingEnds(text) = {} THEN TextCut(text) = -1
         ELSE TextCut(text) >= 0 /\ TextCut(text) = Max(FittingEnds(text))
<1> DEFINE most == IF Len(text) < Budget THEN Len(text) ELSE Budget
           N == Len(text) + 1
           begin == [low |-> 0, high |-> most, best |-> -1]
           body(f) == [n \in 0..N |-> IF n = 0 THEN begin ELSE Probed(text, f[n - 1])]
           search == CHOOSE f : f = body(f)
           step == [n \in 1..N |-> [s \in Search |-> Probed(text, s)]]
<1>1. Len(text) \in Nat /\ N \in Nat /\ Budget \in Nat /\ most \in 0..Len(text) /\ most \in Nat
  BY DEF BudgetAssumption
<1>2. TextCut(text) = search[N].best
  BY DEF TextCut
<1>3. begin \in Search
  BY <1>1 DEF Search
<1>4. step \in [1..N -> [Search -> Search]] /\ \A n \in 1..N, s \in Search : step[n][s] = Probed(text, s)
  <2>1. \A s \in Search : Probed(text, s) \in Search
    BY ProbedType
  <2> QED BY <2>1
<1> HIDE DEF step, N, begin, most
<1>5. \E f : Stepped(f, Search, begin, N, step)
  BY <1>1, <1>3, <1>4, StepsExist
<1>50. PICK f : f \in [0..N -> Search] /\ f[0] = begin /\ \A n \in 1..N : f[n] = step[n][f[n - 1]]
  BY <1>5 DEF Stepped
<1>6. \A n \in 1..N : f[n] = Probed(text, f[n - 1]) /\ n - 1 \in 0..N
  <2> TAKE n \in 1..N
  <2>1. n - 1 \in 0..N
    BY <1>1
  <2> QED BY <1>4, <1>50, <2>1
<1>7. f = body(f)
  <2>1. \A n \in 0..N : f[n] = IF n = 0 THEN begin ELSE Probed(text, f[n - 1])
    <3> TAKE n \in 0..N
    <3>1. n # 0 => n \in 1..N
      BY <1>1
    <3> QED BY <1>50, <1>6, <3>1
  <2> DEFINE e == [n \in 0..N |-> IF n = 0 THEN begin ELSE Probed(text, f[n - 1])]
  <2>2. \A n \in 0..N : f[n] = e[n]
    BY <2>1
  <2>3. DOMAIN f = 0..N /\ f = [n \in 0..N |-> f[n]] /\ DOMAIN e = 0..N /\ e = [n \in 0..N |-> e[n]]
    BY <1>50
  <2>4. e = body(f)
    OBVIOUS
  <2> HIDE DEF e, body
  <2> QED BY <2>2, <2>3, <2>4
<1>8. search = body(search)
  <2> HIDE DEF body
  <2> QED BY <1>7
<1> HIDE DEF search
<1>9. \A n \in 0..N : search[n] = IF n = 0 THEN begin ELSE Probed(text, search[n - 1])
  <2> DEFINE e == body(search)
  <2>1. \A n \in 0..N : e[n] = IF n = 0 THEN begin ELSE Probed(text, search[n - 1])
    OBVIOUS
  <2> HIDE DEF body
  <2> QED BY <1>8, <2>1
<1>10. search[N] \in Search /\ Searching(text, most, N, search[N])
  <2> DEFINE I(n) == search[n] \in Search /\ Searching(text, most, n, search[n])
             T == {n \in Nat : n <= N => I(n)}
  <2>1. I(0)
    <3>1. 0 \in 0..N
      BY <1>1
    <3>2. search[0] = begin
      BY <1>9, <3>1
    <3>3. begin.low = 0 /\ begin.high = most /\ begin.best = -1
      BY DEF begin
    <3>4. Searching(text, most, 0, begin)
      BY <1>1, <3>3 DEF Searching
    <3> QED BY <1>3, <3>2, <3>4
  <2>2. 0 \in T
    BY <2>1
  <2>3. ASSUME NEW n \in T
        PROVE  n + 1 \in T
    <3> SUFFICES ASSUME n + 1 <= N
                 PROVE  I(n + 1)
      OBVIOUS
    <3>1. n \in Nat /\ n + 1 \in 0..N /\ n + 1 # 0 /\ (n + 1) - 1 = n /\ n <= N
      BY <1>1
    <3>2. I(n)
      BY <3>1
    <3>3. search[n + 1] = Probed(text, search[n])
      BY <1>9, <3>1
    <3>4. Probed(text, search[n]) \in Search /\ Searching(text, most, n + 1, Probed(text, search[n]))
      BY <1>1, <3>1, <3>2, RoundSearches
    <3> QED BY <3>3, <3>4
  <2>4. \A n \in Nat : n \in T
    <3> HIDE DEF T
    <3>1. T \in SUBSET Nat
      BY DEF T
    <3> QED BY <2>2, <2>3, <3>1, NumbersFollow
  <2>5. N \in T
    BY <1>1, <2>4
  <2> QED BY <1>1, <2>5
<1> DEFINE s == search[N]
<1>11. s.low \in Nat /\ s.low = s.high + 1 /\ s.high \in -1..most /\ s.high \in Int
  <2>1. s.low \in Nat /\ s.high \in -1..most /\ s.low <= s.high + 1 /\ (s.low > s.high \/ s.high - s.low + N <= most)
    BY <1>10 DEF Searching
  <2>2. most < N
    BY <1>1 DEF N
  <2> HIDE DEF s
  <2> QED BY <1>1, <2>1, <2>2, SMTT(30)
<1>12. \A e \in FittingEnds(text) : e \in 0..Len(text) /\ e <= s.high /\ CutFits(text, e) /\ ~Paired(text, e)
  <2> TAKE e \in FittingEnds(text)
  <2>1. e \in 0..Len(text) /\ ~Paired(text, e) /\ CutBytes(text, e) <= Budget
    BY DEF FittingEnds
  <2>2. CutFits(text, e)
    BY <2>1, SafeEnds DEF CutFits
  <2>3. e <= most
    BY <1>1, <2>1, FitsAreShort DEF most
  <2>4. ~(e \in (s.high + 1)..most)
    BY <1>10, <2>2 DEF Searching
  <2> HIDE DEF s
  <2> QED BY <1>1, <1>11, <2>1, <2>2, <2>3, <2>4
<1>13. CASE s.low = 0
  <2>1. s.best = -1 /\ s.high = -1
    BY <1>10, <1>11, <1>13 DEF Searching
  <2>2. FittingEnds(text) = {}
    <3> SUFFICES ASSUME NEW e \in FittingEnds(text)
                 PROVE  FALSE
      OBVIOUS
    <3>1. e \in 0..Len(text) /\ e <= s.high
      BY <1>12
    <3> HIDE DEF s
    <3> QED BY <1>1, <2>1, <3>1
  <2> QED BY <1>2, <2>1, <2>2
<1>14. CASE s.low # 0
  <2> DEFINE best == SafePrefixEnd(text, s.high)
  <2>1. s.best = best /\ CutFits(text, s.high)
    <3>1. s.low > 0 /\ s.low - 1 = s.high
      BY <1>11, <1>14, SMTT(30)
    <3> QED BY <1>10, <3>1 DEF Searching
  <2>2. s.high \in 0..Len(text)
    <3> HIDE DEF s
    <3> QED BY <1>1, <1>11, <1>14
  <2>3. best \in 0..Len(text) /\ ~Paired(text, best) /\ best \in {s.high - 1, s.high}
    BY <2>2, SafeEnds
  <2>4. best \in FittingEnds(text)
    BY <2>1, <2>3 DEF FittingEnds, CutFits
  <2>5. \A e \in FittingEnds(text) : e <= best
    <3> TAKE e \in FittingEnds(text)
    <3>1. e \in 0..Len(text) /\ e <= s.high /\ ~Paired(text, e)
      BY <1>12
    <3>2. Paired(text, s.high) => e # s.high
      BY <3>1
    <3>3. Paired(text, s.high) => best = s.high - 1
      BY DEF SafePrefixEnd
    <3>4. ~Paired(text, s.high) => best = s.high
      BY DEF SafePrefixEnd
    <3> HIDE DEF best, s
    <3> QED BY <1>1, <1>11, <3>1, <3>2, <3>3, <3>4
  <2>6. FittingEnds(text) \in SUBSET Int
    BY <1>1 DEF FittingEnds
  <2> HIDE DEF best
  <2>7. Max(FittingEnds(text)) = best
    BY <2>4, <2>5, <2>6, GreatestIs
  <2>8. best >= 0 /\ FittingEnds(text) # {}
    BY <1>1, <2>3, <2>4
  <2> QED BY <1>2, <2>1, <2>7, <2>8
<1> QED BY <1>13, <1>14

\* A text of any length is sent whole if it fits and otherwise cut at the last place where it fits and no
\* surrogate pair is split (mcpText): its binary search misses no longer prefix, because the bytes of a prefix
\* that splits no pair grow with its length.
THEOREM CutsAreLongest ==
  ASSUME NEW text \in Seq(Unit)
  PROVE  TextIsLongestThatFits(text)
<1> DEFINE a == McpText(text)
<1>1. IF FittingEnds(text) = {} THEN TextCut(text) = -1 ELSE TextCut(text) >= 0 /\ TextCut(text) = Max(FittingEnds(text))
  BY TextCutIs, BudgetAssumption
<1>2. CASE Envelope + TextBytes(text) <= Budget
  <2>1. a.form = "full"
    BY <1>2 DEF McpText
  <2> QED BY <1>2, <2>1 DEF TextIsLongestThatFits
<1>3. CASE ~(Envelope + TextBytes(text) <= Budget) /\ FittingEnds(text) # {}
  <2>1. a.form = "cut" /\ a.end = Max(FittingEnds(text))
    BY <1>1, <1>3 DEF McpText
  <2> QED BY <2>1 DEF TextIsLongestThatFits, FittingEnds
<1>4. CASE ~(Envelope + TextBytes(text) <= Budget) /\ FittingEnds(text) = {}
  <2>1. a.form = "notice"
    BY <1>1, <1>4 DEF McpText
  <2> QED BY <1>4, <2>1 DEF TextIsLongestThatFits, FittingEnds
<1> QED BY <1>2, <1>3, <1>4

-----------------------------------------------------------------------------
(* Collections. *)

LEMMA SumFrom ==
  ASSUME NEW n \in Nat, NEW i \in 0..n, NEW f, \A j \in 1..n : f[j] \in Int
  PROVE  /\ SumOn(f, (i + 1)..n) \in Int
         /\ i = n => SumOn(f, (i + 1)..n) = 0
         /\ i < n => SumOn(f, (i + 1)..n) = f[i + 1] + SumOn(f, ((i + 1) + 1)..n)
<1> DEFINE S == (i + 1)..n
<1>1. IsFiniteSet(S) /\ S \subseteq 1..n /\ \A j \in S : f[j] \in Int
  BY FS_Interval
<1>2. SumOn(f, S) \in Int
  <2> HIDE DEF S
  <2> QED BY <1>1, SumType
<1>3. i = n => SumOn(f, S) = 0
  <2>1. i = n => S = {}
    OBVIOUS
  <2> QED BY <2>1, SumOfNone
<1>4. ASSUME i < n
      PROVE  SumOn(f, S) = f[i + 1] + SumOn(f, ((i + 1) + 1)..n)
  <2>1. i + 1 \in S /\ S \ {i + 1} = ((i + 1) + 1)..n
    BY <1>4
  <2> DEFINE k == i + 1
  <2>2. SumOn(f, S) = f[k] + SumOn(f, S \ {k})
    <3>1. k \in S
      BY <2>1
    <3> HIDE DEF S, k
    <3> QED BY <1>1, <3>1, SumWithOneMore
  <2> QED BY <2>1, <2>2
<1> QED BY <1>2, <1>3, <1>4

Row == [body : Nat, id : Nat]
Bodies(records) == [i \in 1..Len(records) |-> Separator + records[i].body]
Ids(records) == [i \in 1..Len(records) |-> records[i].id]

LEMMA RowFacts ==
  ASSUME BudgetAssumption, NEW records \in Seq(Row)
  PROVE  /\ Len(records) \in Nat /\ DOMAIN records = 1..Len(records)
         /\ \A i \in 1..Len(records) : /\ records[i].body \in Nat /\ records[i].id \in Nat
                                       /\ Bodies(records)[i] = Separator + records[i].body
                                       /\ Ids(records)[i] = records[i].id
         /\ \A i \in 1..Len(records) : Bodies(records)[i] \in Int /\ Ids(records)[i] \in Int
<1>1. Len(records) \in Nat /\ DOMAIN records = 1..Len(records) /\ \A i \in 1..Len(records) : records[i] \in Row
  OBVIOUS
<1>2. Separator \in Nat
  BY DEF BudgetAssumption
<1> QED BY <1>1, <1>2 DEF Row, Bodies, Ids

LEMMA PrefixBytesAre ==
  ASSUME BudgetAssumption, NEW records \in Seq(Row)
  PROVE  \A n \in 0..Len(records) :
           PrefixBytes(records)[n] = IF n = 0 THEN 0 ELSE SumOn(Bodies(records), 1..n) - Separator
<1> DEFINE N == Len(records)
           w == Bodies(records)
           body(f) == [i \in 0..N |-> IF i = 0 THEN 0
                                      ELSE f[i - 1] + (IF i > 1 THEN Separator ELSE 0) + records[i].body]
           sum == CHOOSE f : f = body(f)
           c == [i \in 0..N |-> IF i = 0 THEN 0 ELSE SumOn(w, 1..i) - Separator]
<1>1. /\ N \in Nat /\ Separator \in Nat
      /\ \A i \in 1..N : w[i] = Separator + records[i].body /\ w[i] \in Int /\ records[i].body \in Nat
  BY RowFacts DEF BudgetAssumption
<1>2. PrefixBytes(records) = sum
  BY DEF PrefixBytes
<1> HIDE DEF w, N
<1>3. \A i \in 0..N : /\ SumOn(w, 1..i) \in Int
                      /\ i = 0 => SumOn(w, 1..i) = 0
                      /\ i > 0 => SumOn(w, 1..i) = w[i] + SumOn(w, 1..(i - 1))
  <2> TAKE i \in 0..N
  <2>1. i \in Nat /\ \A j \in 1..i : w[j] \in Int
    BY <1>1
  <2> QED BY <2>1, SumUpTo
<1>4. ASSUME NEW i \in 1..N
      PROVE  c[i] = c[i - 1] + (IF i > 1 THEN Separator ELSE 0) + records[i].body
  <2>1. i \in 0..N /\ i - 1 \in 0..N /\ i > 0 /\ i # 0 /\ (i > 1 <=> i - 1 # 0) /\ (i - 1 = 0 \/ i - 1 > 0)
    BY <1>1
  <2>2. c[i] = SumOn(w, 1..i) - Separator
    BY <2>1
  <2>3. c[i - 1] = IF i > 1 THEN SumOn(w, 1..(i - 1)) - Separator ELSE 0
    BY <2>1
  <2>4. SumOn(w, 1..i) = Separator + records[i].body + SumOn(w, 1..(i - 1))
    BY <1>1, <1>3, <2>1
  <2>5. SumOn(w, 1..(i - 1)) \in Int /\ (~(i > 1) => SumOn(w, 1..(i - 1)) = 0)
    BY <1>3, <2>1
  <2>6. records[i].body \in Nat
    BY <1>1
  <2> HIDE DEF c
  <2> QED BY <1>1, <2>2, <2>3, <2>4, <2>5, <2>6, SMTT(30)
<1>5. c[0] = 0
  BY <1>1
<1>6. c = body(c)
  <2> DEFINE e == [i \in 0..N |-> IF i = 0 THEN 0 ELSE c[i - 1] + (IF i > 1 THEN Separator ELSE 0) + records[i].body]
  <2>1. \A i \in 0..N : e[i] = IF i = 0 THEN 0 ELSE c[i - 1] + (IF i > 1 THEN Separator ELSE 0) + records[i].body
    OBVIOUS
  <2>2. \A i \in 0..N : c[i] = e[i]
    <3> TAKE i \in 0..N
    <3>1. i # 0 => i \in 1..N
      BY <1>1
    <3> HIDE DEF c, e
    <3> QED BY <1>4, <1>5, <2>1, <3>1
  <2>3. c = [i \in 0..N |-> c[i]] /\ e = [i \in 0..N |-> e[i]] /\ DOMAIN c = 0..N /\ DOMAIN e = 0..N
    OBVIOUS
  <2>4. e = body(c)
    OBVIOUS
  <2> HIDE DEF e, c, body
  <2> QED BY <2>2, <2>3, <2>4
<1>7. sum = body(sum)
  <2> HIDE DEF body, c
  <2> QED BY <1>6
<1> HIDE DEF sum
<1>8. \A i \in 0..N : sum[i] = IF i = 0 THEN 0 ELSE sum[i - 1] + (IF i > 1 THEN Separator ELSE 0) + records[i].body
  <2> DEFINE e == body(sum)
  <2>1. \A i \in 0..N : e[i] = IF i = 0 THEN 0 ELSE sum[i - 1] + (IF i > 1 THEN Separator ELSE 0) + records[i].body
    OBVIOUS
  <2> HIDE DEF body
  <2> QED BY <1>7, <2>1
<1>9. \A i \in 0..N : sum[i] = c[i]
  <2> HIDE DEF c
  <2> DEFINE T == {n \in Nat : n <= N => sum[n] = c[n]}
  <2>1. 0 \in T
    <3>1. 0 \in 0..N
      BY <1>1
    <3> QED BY <1>5, <1>8, <3>1
  <2>2. ASSUME NEW n \in T
        PROVE  n + 1 \in T
    <3> SUFFICES ASSUME n + 1 <= N
                 PROVE  sum[n + 1] = c[n + 1]
      OBVIOUS
    <3>1. n \in Nat /\ sum[n] = c[n] /\ n + 1 \in 1..N /\ n + 1 \in 0..N /\ n + 1 # 0 /\ (n + 1) - 1 = n
      <4>1. n \in Nat /\ (n <= N => sum[n] = c[n])
        OBVIOUS
      <4>2. N \in Nat
        BY <1>1
      <4>3. n <= N /\ n + 1 \in 1..N /\ n + 1 \in 0..N /\ n + 1 # 0 /\ (n + 1) - 1 = n
        BY <4>1, <4>2
      <4> HIDE DEF body, T
      <4> QED BY <4>1, <4>3
    <3> QED BY <1>4, <1>8, <3>1
  <2>3. \A n \in Nat : n \in T
    <3> HIDE DEF T
    <3>1. T \in SUBSET Nat
      BY DEF T
    <3> QED BY <2>1, <2>2, <3>1, NumbersFollow
  <2> QED BY <1>1, <2>3
<1>10. \A i \in 0..N : c[i] = IF i = 0 THEN 0 ELSE SumOn(w, 1..i) - Separator
  OBVIOUS
<1> QED BY <1>2, <1>9, <1>10 DEF N, w

LEMMA SuffixBytesAre ==
  ASSUME BudgetAssumption, NEW records \in Seq(Row)
  PROVE  \A n \in 0..Len(records) :
           SuffixBytes(records)[n] =
             SumOn(Ids(records), (n + 1)..Len(records)) + (IF n < Len(records) THEN Len(records) - n - 1 ELSE 0)
<1> DEFINE N == Len(records)
           w == Ids(records)
           body(f) == [i \in 0..N |-> IF i = N THEN 0
                                      ELSE records[i + 1].id + (IF i + 1 < N THEN 1 + f[i + 1] ELSE 0)]
           sum == CHOOSE f : f = body(f)
           c == [i \in 0..N |-> SumOn(w, (i + 1)..N) + (IF i < N THEN N - i - 1 ELSE 0)]
<1>1. N \in Nat /\ \A i \in 1..N : w[i] = records[i].id /\ w[i] \in Int
  BY RowFacts
<1>2. SuffixBytes(records) = sum
  BY DEF SuffixBytes
<1> HIDE DEF w, N
<1>3. \A i \in 0..N : /\ SumOn(w, (i + 1)..N) \in Int
                      /\ i = N => SumOn(w, (i + 1)..N) = 0
                      /\ i < N => SumOn(w, (i + 1)..N) = w[i + 1] + SumOn(w, ((i + 1) + 1)..N)
  <2> TAKE i \in 0..N
  <2> QED BY <1>1, SumFrom
<1>4. ASSUME NEW i \in 0..N, i # N
      PROVE  c[i] = records[i + 1].id + (IF i + 1 < N THEN 1 + c[i + 1] ELSE 0)
  <2>1. i < N /\ i + 1 \in 0..N /\ i + 1 \in 1..N /\ i \in Nat /\ (~(i + 1 < N) => i + 1 = N)
    BY <1>1, <1>4
  <2>2. c[i] = SumOn(w, (i + 1)..N) + (N - i - 1)
    BY <2>1
  <2>3. c[i + 1] = SumOn(w, ((i + 1) + 1)..N) + (IF i + 1 < N THEN N - (i + 1) - 1 ELSE 0)
    BY <2>1
  <2>4. SumOn(w, (i + 1)..N) = records[i + 1].id + SumOn(w, ((i + 1) + 1)..N)
    BY <1>1, <1>3, <2>1
  <2>5. SumOn(w, ((i + 1) + 1)..N) \in Int /\ (i + 1 = N => SumOn(w, ((i + 1) + 1)..N) = 0)
    BY <1>3, <2>1
  <2>6. records[i + 1].id \in Int
    BY <1>1, <2>1
  <2> DEFINE A == SumOn(w, (i + 1)..N)
             B == SumOn(w, ((i + 1) + 1)..N)
             r == records[i + 1].id
             k == i + 1
  <2>7. N \in Nat /\ i \in Nat /\ k = i + 1 /\ k <= N /\ r \in Int /\ B \in Int /\ (k = N => B = 0) /\ A = r + B
    BY <1>1, <2>1, <2>4, <2>5, <2>6
  <2>8. c[i] = A + (N - i - 1) /\ c[k] = B + (IF k < N THEN N - k - 1 ELSE 0)
    BY <2>2, <2>3
  <2> HIDE DEF c, A, B, r, k
  <2>9. c[i] = r + (IF k < N THEN 1 + c[k] ELSE 0)
    <3>1. CASE k < N
      BY <2>7, <2>8, <3>1
    <3>2. CASE k = N
      BY <2>7, <2>8, <3>2
    <3> QED BY <2>7, <3>1, <3>2
  <2> QED BY <2>9 DEF r, k
<1>5. c[N] = 0
  BY <1>1, <1>3
<1>6. c = body(c)
  <2> DEFINE e == [i \in 0..N |-> IF i = N THEN 0 ELSE records[i + 1].id + (IF i + 1 < N THEN 1 + c[i + 1] ELSE 0)]
  <2>1. \A i \in 0..N : e[i] = IF i = N THEN 0 ELSE records[i + 1].id + (IF i + 1 < N THEN 1 + c[i + 1] ELSE 0)
    OBVIOUS
  <2>2. \A i \in 0..N : c[i] = e[i]
    <3> TAKE i \in 0..N
    <3> HIDE DEF c, e
    <3> QED BY <1>4, <1>5, <2>1
  <2>3. c = [i \in 0..N |-> c[i]] /\ e = [i \in 0..N |-> e[i]] /\ DOMAIN c = 0..N /\ DOMAIN e = 0..N
    OBVIOUS
  <2>4. e = body(c)
    OBVIOUS
  <2> HIDE DEF e, c, body
  <2> QED BY <2>2, <2>3, <2>4
<1>7. sum = body(sum)
  <2> HIDE DEF body, c
  <2> QED BY <1>6
<1> HIDE DEF sum
<1>8. \A i \in 0..N : sum[i] = IF i = N THEN 0 ELSE records[i + 1].id + (IF i + 1 < N THEN 1 + sum[i + 1] ELSE 0)
  <2> DEFINE e == body(sum)
  <2>1. \A i \in 0..N : e[i] = IF i = N THEN 0 ELSE records[i + 1].id + (IF i + 1 < N THEN 1 + sum[i + 1] ELSE 0)
    OBVIOUS
  <2> HIDE DEF body
  <2> QED BY <1>7, <2>1
<1>9. \A i \in 0..N : sum[i] = c[i]
  <2> HIDE DEF c
  <2> DEFINE T == {n \in Nat : n <= N => sum[N - n] = c[N - n]}
  <2>1. 0 \in T
    <3>1. N \in 0..N /\ N - 0 = N
      BY <1>1
    <3> QED BY <1>5, <1>8, <3>1
  <2>2. ASSUME NEW n \in T
        PROVE  n + 1 \in T
    <3> SUFFICES ASSUME n + 1 <= N
                 PROVE  sum[N - (n + 1)] = c[N - (n + 1)]
      OBVIOUS
    <3> DEFINE i == N - (n + 1)
    <3>1. n \in Nat /\ sum[N - n] = c[N - n] /\ i \in 0..N /\ i # N /\ i + 1 = N - n
      BY <1>1
    <3> HIDE DEF i
    <3>2. sum[i] = c[i]
      BY <1>4, <1>8, <3>1
    <3> QED BY <3>2 DEF i
  <2>3. \A n \in Nat : n \in T
    <3> HIDE DEF T
    <3>1. T \in SUBSET Nat
      BY DEF T
    <3> QED BY <2>1, <2>2, <3>1, NumbersFollow
  <2> SUFFICES ASSUME NEW i \in 0..N
               PROVE  sum[i] = c[i]
    OBVIOUS
  <2>4. N - i \in Nat /\ N - i <= N /\ N - (N - i) = i
    BY <1>1
  <2>5. N - i \in T
    BY <2>3, <2>4
  <2> QED BY <2>4, <2>5
<1>10. \A i \in 0..N : c[i] = SumOn(w, (i + 1)..N) + (IF i < N THEN N - i - 1 ELSE 0)
  OBVIOUS
<1> QED BY <1>2, <1>9, <1>10 DEF N, w

LEMMA AnswerBytesAre ==
  ASSUME BudgetAssumption, NEW records \in Seq(Row), NEW n \in 0..Len(records)
  PROVE  AnswerBytes(records, n) =
           Envelope + Heading + SumOn(Bodies(records), 1..n) + Separator + Footer
             + SumOn(Ids(records), (n + 1)..Len(records)) + (IF n < Len(records) THEN Len(records) - n - 1 ELSE 0)
<1> DEFINE N == Len(records)
           w == Bodies(records)
           v == Ids(records)
           b == [i \in 1..n |-> Separator + records[i].body]
           d == [i \in (n + 1)..N |-> records[i].id]
<1>1. /\ N \in Nat /\ n \in Nat /\ n <= N
      /\ \A i \in 1..N : w[i] = Separator + records[i].body /\ w[i] \in Int /\ v[i] = records[i].id /\ v[i] \in Int
  BY RowFacts
<1>2. AnswerBytes(records, n) = Envelope + Heading + SumOn(b, 1..n) + Separator + Footer
        + SumOn(d, (n + 1)..N) + (IF n < N THEN N - n - 1 ELSE 0)
  BY DEF AnswerBytes, SumFunction, SumOn
<1> HIDE DEF w, v, N
<1>3. SumOn(w, 1..n) = SumOn(b, 1..n)
  <2>1. IsFiniteSet(1..n)
    BY FS_Interval
  <2>2. \A i \in 1..n : w[i] \in Int /\ b[i] = w[i]
    BY <1>1
  <2> HIDE DEF b
  <2> QED BY <2>1, <2>2, SumOfSame
<1>4. SumOn(v, (n + 1)..N) = SumOn(d, (n + 1)..N)
  <2>1. IsFiniteSet((n + 1)..N)
    BY FS_Interval, <1>1
  <2>2. \A i \in (n + 1)..N : v[i] \in Int /\ d[i] = v[i]
    BY <1>1
  <2> DEFINE S == (n + 1)..N
  <2> HIDE DEF d, S
  <2>3. SumOn(v, S) = SumOn(d, S)
    BY <2>1, <2>2, SumOfSame DEF S
  <2> QED BY <2>3 DEF S
<1> HIDE DEF b, d
<1> QED BY <1>2, <1>3, <1>4 DEF w, v, N

LEMMA CandidatesAreAnswers ==
  ASSUME BudgetAssumption, NEW records \in Seq(Row), NEW n \in 0..(Len(records) - 1)
  PROVE  CandidateBytes(records, n) = AnswerBytes(records, n) /\ AnswerBytes(records, n) \in Int
<1> DEFINE N == Len(records)
           w == Bodies(records)
           v == Ids(records)
           W == SumOn(w, 1..n)
           V == SumOn(v, (n + 1)..N)
<1>1. /\ N \in Nat /\ n \in Nat /\ n \in 0..N /\ n < N
      /\ \A i \in 1..N : w[i] \in Int /\ v[i] \in Int
  BY RowFacts
<1>2. {Envelope, Heading, Separator, Footer} \subseteq Nat
  BY DEF BudgetAssumption
<1>3. PrefixBytes(records)[n] = IF n = 0 THEN 0 ELSE W - Separator
  BY <1>1, PrefixBytesAre
<1>4. SuffixBytes(records)[n] = V + (IF n < N THEN N - n - 1 ELSE 0)
  BY <1>1, SuffixBytesAre
<1>5. AnswerBytes(records, n) = Envelope + Heading + W + Separator + Footer + V + (IF n < N THEN N - n - 1 ELSE 0)
  BY <1>1, AnswerBytesAre
<1>6. W \in Int /\ (n = 0 => W = 0)
  <2>1. \A i \in 1..n : w[i] \in Int
    BY <1>1
  <2> HIDE DEF w
  <2> QED BY <1>1, <2>1, SumUpTo
<1>7. V \in Int
  <2> HIDE DEF v, N
  <2> QED BY <1>1, SumFrom
<1>8. CandidateBytes(records, n) = Envelope + Heading + (IF n > 0 THEN Separator + PrefixBytes(records)[n] ELSE 0)
                                     + Separator + Footer + SuffixBytes(records)[n]
  BY DEF CandidateBytes
<1> DEFINE P == PrefixBytes(records)[n]
           S == SuffixBytes(records)[n]
           C == CandidateBytes(records, n)
           A == AnswerBytes(records, n)
<1>9. /\ P = IF n = 0 THEN 0 ELSE W - Separator
      /\ S = V + (N - n - 1)
      /\ A = Envelope + Heading + W + Separator + Footer + V + (N - n - 1)
      /\ C = Envelope + Heading + (IF n > 0 THEN Separator + P ELSE 0) + Separator + Footer + S
  BY <1>1, <1>3, <1>4, <1>5, <1>8
<1>10. N \in Nat /\ n \in Nat
  BY <1>1
<1>11. Envelope \in Nat /\ Heading \in Nat /\ Separator \in Nat /\ Footer \in Nat
  BY <1>2
<1> HIDE DEF W, V, N, P, S, C, A
<1>12. C = A /\ A \in Int
  <2>1. CASE n = 0
    BY <1>6, <1>7, <1>9, <1>10, <1>11, <2>1
  <2>2. CASE n > 0
    BY <1>6, <1>7, <1>9, <1>10, <1>11, <2>2
  <2> QED BY <1>10, <2>1, <2>2
<1> QED BY <1>12 DEF C, A

-----------------------------------------------------------------------------
(* The last-resort text of a collection: its account, cut like any text.  It *)
(* has plain units only, so a prefix has a byte for each unit.               *)

PlainText(text, n) == text \in Seq(Unit) /\ Len(text) = n /\ \A i \in 1..n : text[i] = "plain"

LEMMA AccountIsPlain ==
  ASSUME BudgetAssumption, NEW records, Footer + SuffixBytes(records)[0] \in Nat
  PROVE  PlainText(Account(records), Footer + SuffixBytes(records)[0])
<1> DEFINE n == Footer + SuffixBytes(records)[0]
           text == [i \in 1..n |-> "plain"]
<1>1. Account(records) = text
  BY DEF Account
<1>2. n \in Nat
  OBVIOUS
<1> HIDE DEF n
<1>3. text \in Seq(Unit) /\ Len(text) = n /\ \A i \in 1..n : text[i] = "plain"
  BY <1>2 DEF Unit
<1> QED BY <1>1, <1>3 DEF PlainText, n

LEMMA PlainUpto ==
  ASSUME NEW n \in Nat, NEW text, PlainText(text, n)
  PROVE  \A end \in 0..n : ~Paired(text, end) /\ Upto(text, end) = end
<1>1. text \in Seq(Unit) /\ Len(text) = n /\ \A i \in 1..n : text[i] = "plain"
  BY DEF PlainText
<1>2. \A i \in Int : ~Paired(text, i)
  BY <1>1 DEF Paired
<1>3. \A i \in 1..n : Weights(text)[i] = 1
  BY <1>1, <1>2 DEF Weights, UnitBytes
<1> DEFINE U(m) == Upto(text, m)
           T == {m \in Nat : m <= n => U(m) = m}
<1>4. 0 \in T
  <2>1. 0 \in 0..Len(text)
    BY <1>1
  <2> QED BY <1>1, <2>1, UptoFacts
<1>5. ASSUME NEW m \in T
      PROVE  m + 1 \in T
  <2> SUFFICES ASSUME m + 1 <= n
               PROVE  U(m + 1) = m + 1
    OBVIOUS
  <2>1. m \in Nat /\ U(m) = m /\ m + 1 \in 0..Len(text) /\ m + 1 \in 1..n /\ (m + 1) - 1 = m
    BY <1>1
  <2>2. U(m + 1) = Weights(text)[m + 1] + U(m)
    BY <1>1, <2>1, UptoFacts
  <2> HIDE DEF U
  <2> QED BY <1>3, <2>1, <2>2
<1>6. \A m \in Nat : m \in T
  <2> HIDE DEF T
  <2>1. T \in SUBSET Nat
    BY DEF T
  <2> QED BY <1>4, <1>5, <2>1, NumbersFollow
<1> QED BY <1>2, <1>6

LEMMA PlainBytes ==
  ASSUME NEW n \in Nat, NEW text, PlainText(text, n)
  PROVE  TextBytes(text) = n
<1>1. text \in Seq(Unit) /\ Len(text) = n /\ n \in 0..Len(text)
  BY DEF PlainText
<1>2. ~Paired(text, n) /\ Upto(text, n) = n
  BY PlainUpto
<1>3. TextBytes(SubSeq(text, 1, n)) = n
  BY <1>1, <1>2, BytesOfPrefix
<1>4. SubSeq(text, 1, n) = text
  BY <1>1
<1> QED BY <1>3, <1>4

\* What is sent of a plain text: all of it if it fits, and otherwise a prefix that fits, while no longer one does.
PlainSent(n, end) ==
  /\ end \in 0..n
  /\ Envelope + n <= Budget => end = n
  /\ Envelope + n > Budget =>
       /\ end > 0 => Envelope + Footer + end + Separator <= Budget
       /\ \A m \in (end + 1)..n : Envelope + Footer + m + Separator > Budget

LEMMA PlainCut ==
  ASSUME BudgetAssumption, NEW n \in Nat, NEW text, PlainText(text, n)
  PROVE  PlainSent(n, McpText(text).end)
<1> DEFINE end == McpText(text).end
           F == FittingEnds(text)
<1>1. text \in Seq(Unit) /\ Len(text) = n
  BY DEF PlainText
<1>2. TextBytes(text) = n
  BY PlainBytes
<1>3. {Envelope, Footer, Separator, Budget} \subseteq Nat
  BY DEF BudgetAssumption
<1>4. \A m \in 0..n : ~Paired(text, m) /\ CutBytes(text, m) = Envelope + Footer + (IF m = 0 THEN 0 ELSE m + Separator)
  <2> TAKE m \in 0..n
  <2>1. ~Paired(text, m) /\ Upto(text, m) = m /\ m \in 0..Len(text)
    BY <1>1, PlainUpto
  <2>2. CutBytes(text, m) = Envelope + Footer + (IF m = 0 THEN 0 ELSE Upto(text, m) + Separator)
    BY <1>1, <2>1, CutIs
  <2> QED BY <2>1, <2>2
<1>5. \A m \in 1..n : m \in F <=> Envelope + Footer + m + Separator <= Budget
  <2> TAKE m \in 1..n
  <2>1. m \in 0..Len(text) /\ m # 0 /\ m \in 0..n
    BY <1>1
  <2>2. CutBytes(text, m) = Envelope + Footer + (m + Separator) /\ ~Paired(text, m)
    BY <1>4, <2>1
  <2>3. m \in F <=> CutBytes(text, m) <= Budget
    BY <2>1, <2>2 DEF FittingEnds
  <2>4. Envelope + Footer + (m + Separator) = Envelope + Footer + m + Separator
    BY <1>3
  <2> QED BY <2>2, <2>3, <2>4
<1>6. F \subseteq 0..n /\ F \in SUBSET Int /\ IsFiniteSet(F)
  <2>1. F \subseteq 0..n
    BY <1>1 DEF FittingEnds
  <2> DEFINE D == 0..n
  <2>2. IsFiniteSet(D) /\ D \subseteq Int
    BY FS_Interval
  <2>3. F \in SUBSET D
    BY <2>1
  <2> HIDE DEF F, D
  <2>4. IsFiniteSet(F)
    BY <2>2, <2>3, FS_Subset
  <2>5. F \in SUBSET Int
    BY <2>2, <2>3
  <2> QED BY <2>1, <2>4, <2>5
<1>7. IF F = {} THEN TextCut(text) = -1 ELSE TextCut(text) >= 0 /\ TextCut(text) = Max(F)
  BY <1>1, TextCutIs
<1>8. CASE Envelope + n <= Budget
  <2>1. end = n
    BY <1>1, <1>2, <1>8 DEF McpText
  <2> HIDE DEF end
  <2>2. PlainSent(n, end)
    BY <1>3, <1>8, <2>1 DEF PlainSent
  <2> QED BY <2>2 DEF end
<1>9. CASE Envelope + n > Budget /\ F = {}
  <2>1. ~(Envelope + n <= Budget)
    BY <1>3, <1>9
  <2>2. end = 0
    BY <1>2, <1>7, <1>9, <2>1 DEF McpText
  <2>3. \A m \in (0 + 1)..n : Envelope + Footer + m + Separator > Budget
    BY <1>3, <1>5, <1>9
  <2> HIDE DEF end, F
  <2>4. PlainSent(n, end)
    BY <2>1, <2>2, <2>3 DEF PlainSent
  <2> QED BY <2>4 DEF end
<1>10. CASE Envelope + n > Budget /\ F # {}
  <2>1. ~(Envelope + n <= Budget)
    BY <1>3, <1>10
  <2>2. end = Max(F)
    <3> HIDE DEF F
    <3> QED BY <1>2, <1>7, <1>10, <2>1 DEF McpText
  <2> HIDE DEF end, F
  <2>3. end \in F /\ \A y \in F : y <= end
    BY <1>6, <1>10, <2>2, GreatestFacts
  <2>4. end \in 0..n /\ (end > 0 => end \in 1..n)
    BY <1>6, <2>3
  <2>5. end > 0 => Envelope + Footer + end + Separator <= Budget
    BY <1>5, <2>3, <2>4
  <2>6. \A m \in (end + 1)..n : Envelope + Footer + m + Separator > Budget
    <3> TAKE m \in (end + 1)..n
    <3>1. m \in 1..n /\ ~(m <= end)
      BY <2>4
    <3> QED BY <1>3, <1>5, <2>3, <3>1
  <2>7. PlainSent(n, end)
    BY <2>1, <2>4, <2>5, <2>6 DEF PlainSent
  <2> QED BY <2>7 DEF end
<1>11. Envelope + n <= Budget \/ Envelope + n > Budget
  BY <1>3
<1> QED BY <1>8, <1>9, <1>10, <1>11

\* Ids take no room away: the ids of a longer prefix have at least as many bytes.
LEMMA IdsRise ==
  ASSUME BudgetAssumption, NEW records \in Seq(Row)
  PROVE  \A n \in 0..Len(records) : \A m \in 0..n :
           /\ SumOn(Ids(records), 1..n) \in Nat
           /\ SumOn(Ids(records), 1..m) <= SumOn(Ids(records), 1..n)
<1> DEFINE N == Len(records)
           w == Ids(records)
           U(n) == SumOn(w, 1..n)
           T == {n \in Nat : n <= N => U(n) \in Nat /\ \A m \in 0..n : U(m) <= U(n)}
<1>1. N \in Nat /\ \A i \in 1..N : w[i] \in Nat
  <2>1. \A i \in 1..N : w[i] = records[i].id /\ records[i].id \in Nat
    BY RowFacts
  <2> QED BY <2>1, RowFacts
<1> HIDE DEF w, N
<1>2. \A n \in 0..N : U(n) \in Int /\ (n = 0 => U(n) = 0) /\ (n > 0 => U(n) = w[n] + U(n - 1))
  <2> TAKE n \in 0..N
  <2>1. n \in Nat /\ \A i \in 1..n : w[i] \in Int
    BY <1>1
  <2> QED BY <2>1, SumUpTo
<1> HIDE DEF U
<1>3. 0 \in T
  <2>1. U(0) = 0 /\ \A m \in 0..0 : m = 0
    BY <1>1, <1>2
  <2> QED BY <2>1
<1>4. ASSUME NEW n \in T
      PROVE  n + 1 \in T
  <2> SUFFICES ASSUME n + 1 <= N
               PROVE  U(n + 1) \in Nat /\ \A m \in 0..(n + 1) : U(m) <= U(n + 1)
    OBVIOUS
  <2>1. /\ n \in Nat /\ U(n) \in Nat /\ \A m \in 0..n : U(m) <= U(n)
        /\ n + 1 \in 0..N /\ n + 1 \in 1..N /\ n + 1 > 0 /\ (n + 1) - 1 = n
    BY <1>1
  <2>2. U(n + 1) = w[n + 1] + U(n) /\ w[n + 1] \in Nat
    BY <1>1, <1>2, <2>1
  <2> DEFINE a == U(n)
             b == U(n + 1)
             c == w[n + 1]
  <2>3. a \in Nat /\ c \in Nat /\ b = c + a
    BY <2>1, <2>2
  <2> HIDE DEF a, b, c
  <2>4. b \in Nat /\ a <= b
    BY <2>3
  <2>5. U(n + 1) \in Nat /\ U(n) <= U(n + 1)
    BY <2>4 DEF a, b
  <2>6. \A m \in 0..(n + 1) : U(m) <= U(n + 1)
    <3> TAKE m \in 0..(n + 1)
    <3>1. CASE m = n + 1
      BY <2>5, <3>1
    <3>2. CASE m # n + 1
      <4>1. m \in 0..n /\ m \in 0..N
        BY <1>1, <2>1, <3>2
      <4>2. U(m) <= U(n) /\ U(m) \in Int
        BY <1>2, <2>1, <4>1
      <4> QED BY <2>1, <2>5, <4>2
    <3> QED BY <3>1, <3>2
  <2> QED BY <2>5, <2>6
<1>5. \A n \in Nat : n \in T
  <2> HIDE DEF T
  <2>1. T \in SUBSET Nat
    BY DEF T
  <2> QED BY <1>3, <1>4, <2>1, NumbersFollow
<1>6. \A n \in 0..N : \A m \in 0..n : U(n) \in Nat /\ U(m) <= U(n)
  BY <1>1, <1>5
<1> QED BY <1>6 DEF U, N, w

\* Where the ids of an account end, from its first unit on.
IdEnds(records) ==
  [n \in 0..Len(records) |-> IF n = 0 THEN 0 ELSE Opening + SumOn(Ids(records), 1..n) + n - 1]

EndsFit(records, length) ==
  /\ Len(records) \in Nat
  /\ \A n \in 0..Len(records) :
       /\ Through(records, n) = IdEnds(records)[n]
       /\ IdEnds(records)[n] \in 0..length
       /\ n > 0 => IdEnds(records)[n] > 0 /\ NamingBytes(records, n) = Envelope + Footer + IdEnds(records)[n] + Separator
       /\ \A m \in 0..n : IdEnds(records)[m] <= IdEnds(records)[n]

LEMMA IdsEnd ==
  ASSUME BudgetAssumption, NEW records \in Seq(Row)
  PROVE  /\ Footer + SuffixBytes(records)[0] \in Nat
         /\ EndsFit(records, Footer + SuffixBytes(records)[0])
         /\ AnswerBytes(records, 0) - Heading - Separator = Envelope + (Footer + SuffixBytes(records)[0])
<1> DEFINE N == Len(records)
           w == Ids(records)
           U(n) == SumOn(w, 1..n)
           L == Footer + SuffixBytes(records)[0]
           E(n) == IF n = 0 THEN 0 ELSE Opening + U(n) + n - 1
<1>1. N \in Nat /\ \A i \in 1..N : w[i] \in Int /\ w[i] = records[i].id
  BY RowFacts
<1>2. {Envelope, Heading, Separator, Footer} \subseteq Nat /\ Opening \in 1..Footer
  BY DEF BudgetAssumption
<1>3. \A n \in 0..N : \A m \in 0..n : U(n) \in Nat /\ U(m) <= U(n)
  BY IdsRise
<1>4. SuffixBytes(records)[0] = U(N) + (IF 0 < N THEN N - 1 ELSE 0)
  <2>1. SuffixBytes(records)[0] = SumOn(w, (0 + 1)..N) + (IF 0 < N THEN N - 0 - 1 ELSE 0)
    BY <1>1, SuffixBytesAre
  <2> QED BY <1>1, <2>1
<1>5. AnswerBytes(records, 0) = Envelope + Heading + Separator + Footer + U(N) + (IF 0 < N THEN N - 1 ELSE 0)
  <2>1. AnswerBytes(records, 0) = Envelope + Heading + SumOn(Bodies(records), 1..0) + Separator + Footer
          + SumOn(w, (0 + 1)..N) + (IF 0 < N THEN N - 0 - 1 ELSE 0)
    BY <1>1, AnswerBytesAre
  <2>2. SumOn(Bodies(records), 1..0) = 0
    <3>1. 1..0 = {}
      OBVIOUS
    <3> QED BY <3>1, SumOfNone
  <2>3. N - 0 - 1 = N - 1 /\ (0 + 1)..N = 1..N
    BY <1>1
  <2> HIDE DEF w, N
  <2> QED BY <1>2, <2>1, <2>2, <2>3
<1>6. \A n \in 0..N : SumFunction([i \in 1..n |-> records[i].id]) = U(n)
  <2> TAKE n \in 0..N
  <2> DEFINE d == [i \in 1..n |-> records[i].id]
  <2>1. SumFunction(d) = SumOn(d, 1..n)
    BY DEF SumFunction, SumOn
  <2>2. IsFiniteSet(1..n)
    BY FS_Interval
  <2>3. \A i \in 1..n : w[i] \in Int /\ d[i] = w[i]
    BY <1>1
  <2> HIDE DEF d, w
  <2>4. SumOn(w, 1..n) = SumOn(d, 1..n)
    BY <2>2, <2>3, SumOfSame
  <2> QED BY <2>1, <2>4 DEF d
<1>7. \A n \in 0..N : IdEnds(records)[n] = E(n) /\ Through(records, n) = E(n)
  <2> TAKE n \in 0..N
  <2>1. Through(records, n) = IF n = 0 THEN 0 ELSE Opening + U(n) + n - 1
    BY <1>6 DEF Through
  <2> QED BY <2>1 DEF IdEnds
<1>8. \A n \in 0..N : NamingBytes(records, n) = Envelope + Opening + U(n) + (n - 1) + Separator + Footer
  BY <1>6 DEF NamingBytes
<1> HIDE DEF U, N, w
<1>9. U(N) \in Nat /\ N \in 0..N
  BY <1>1, <1>3
<1>10. L = Footer + U(N) + (IF 0 < N THEN N - 1 ELSE 0) /\ L \in Nat
  <2> DEFINE u == U(N)
             s == SuffixBytes(records)[0]
  <2>1. u \in Nat /\ s = u + (IF 0 < N THEN N - 1 ELSE 0) /\ L = Footer + s
    BY <1>4, <1>9
  <2> HIDE DEF u, s, L
  <2>2. L = Footer + u + (IF 0 < N THEN N - 1 ELSE 0) /\ L \in Nat
    BY <1>1, <1>2, <2>1, SMTT(30)
  <2> QED BY <2>2 DEF u
<1> HIDE DEF L
<1>11. \A n \in 0..N : \A m \in 0..n : E(n) \in Nat /\ E(m) <= E(n) /\ E(n) <= L /\ (n > 0 => E(n) > 0)
  <2> TAKE n \in 0..N
  <2> TAKE m \in 0..n
  <2> DEFINE a == U(m)
             b == U(n)
             c == U(N)
  <2>1. m \in 0..N /\ n \in 0..N /\ n \in Nat /\ m \in Nat /\ m <= n /\ n <= N /\ m \in 0..m
    BY <1>1
  <2>2. a \in Nat /\ b \in Nat /\ c \in Nat /\ a <= b /\ b <= c
    BY <1>3, <1>9, <2>1
  <2>3. E(n) = (IF n = 0 THEN 0 ELSE Opening + b + n - 1) /\ E(m) = (IF m = 0 THEN 0 ELSE Opening + a + m - 1)
    OBVIOUS
  <2>4. L = Footer + c + (IF 0 < N THEN N - 1 ELSE 0)
    BY <1>10
  <2>5. Opening \in Nat /\ Opening > 0 /\ Opening <= Footer /\ Footer \in Nat /\ N \in Nat
    BY <1>1, <1>2
  <2> HIDE DEF a, b, c, E
  <2> QED BY <2>1, <2>2, <2>3, <2>4, <2>5, SMTT(30)
<1>12. \A n \in 0..N : n > 0 => NamingBytes(records, n) = Envelope + Footer + E(n) + Separator
  <2> TAKE n \in 0..N
  <2> HAVE n > 0
  <2> DEFINE b == U(n)
  <2>1. b \in Nat /\ n \in Nat
    <3>1. n \in 0..n
      BY <1>1
    <3> QED BY <1>1, <1>3, <3>1
  <2>2. NamingBytes(records, n) = Envelope + Opening + b + (n - 1) + Separator + Footer /\ E(n) = Opening + b + n - 1
    BY <1>8
  <2> HIDE DEF b, E
  <2> QED BY <1>2, <2>1, <2>2, SMTT(30)
<1>13. AnswerBytes(records, 0) - Heading - Separator = Envelope + L
  <2> DEFINE u == U(N)
             A == AnswerBytes(records, 0)
             t == IF 0 < N THEN N - 1 ELSE 0
  <2>1. u \in Nat /\ A = Envelope + Heading + Separator + Footer + u + (IF 0 < N THEN N - 1 ELSE 0)
    BY <1>5, <1>9
  <2>2. L = Footer + u + (IF 0 < N THEN N - 1 ELSE 0)
    BY <1>10
  <2>3. t \in Int /\ Envelope \in Nat /\ Heading \in Nat /\ Separator \in Nat /\ Footer \in Nat
    BY <1>1, <1>2
  <2>4. A = Envelope + Heading + Separator + Footer + u + t /\ L = Footer + u + t
    BY <2>1, <2>2
  <2> HIDE DEF u, A, t
  <2>5. A - Heading - Separator = Envelope + L
    BY <2>1, <2>3, <2>4
  <2> QED BY <2>5 DEF A
<1>14. EndsFit(records, L)
  <2> SUFFICES ASSUME NEW n \in 0..N
               PROVE  /\ Through(records, n) = IdEnds(records)[n]
                      /\ IdEnds(records)[n] \in 0..L
                      /\ n > 0 => IdEnds(records)[n] > 0 /\ NamingBytes(records, n) = Envelope + Footer + IdEnds(records)[n] + Separator
                      /\ \A m \in 0..n : IdEnds(records)[m] <= IdEnds(records)[n]
    BY <1>1 DEF EndsFit, N
  <2>1. n \in 0..n /\ \A m \in 0..n : m \in 0..N
    BY <1>1
  <2> HIDE DEF E
  <2>2. Through(records, n) = E(n) /\ IdEnds(records)[n] = E(n) /\ \A m \in 0..n : IdEnds(records)[m] = E(m)
    BY <1>7, <2>1
  <2>3. E(n) \in Nat /\ E(n) <= L /\ (n > 0 => E(n) > 0) /\ \A m \in 0..n : E(m) <= E(n)
    BY <1>11, <2>1
  <2>4. E(n) \in 0..L
    BY <1>10, <2>3
  <2> QED BY <1>12, <2>2, <2>3, <2>4
<1> QED BY <1>10, <1>13, <1>14 DEF L

\* Which ids the text names.
IdsAreNamed(records) ==
  LET k == Named(records) IN
    /\ k \in 0..Len(records)
    /\ IF AnswerBytes(records, 0) - Heading - Separator <= Budget THEN k = Len(records)
       ELSE /\ k > 0 => NamingBytes(records, k) <= Budget
            /\ k < Len(records) => NamingBytes(records, k + 1) > Budget

LEMMA FirstIdsAreNamed ==
  ASSUME BudgetAssumption, NEW records \in Seq(Row)
  PROVE  IdsAreNamed(records)
<1> DEFINE N == Len(records)
           L == Footer + SuffixBytes(records)[0]
           end == McpText(Account(records)).end
           E == IdEnds(records)
           S == {n \in 0..N : Through(records, n) <= end}
           k == Named(records)
<1>1. L \in Nat /\ EndsFit(records, L) /\ AnswerBytes(records, 0) - Heading - Separator = Envelope + L
  BY IdsEnd
<1>2. PlainSent(L, end)
  BY <1>1, AccountIsPlain, PlainCut
<1>3. k = Max(S)
  BY DEF Named
<1> HIDE DEF L, end, E, k
<1>4. N \in Nat /\ \A n \in 0..N :
        /\ Through(records, n) = E[n] /\ E[n] \in 0..L
        /\ n > 0 => E[n] > 0 /\ NamingBytes(records, n) = Envelope + Footer + E[n] + Separator
        /\ \A m \in 0..n : E[m] <= E[n]
  BY <1>1 DEF EndsFit, E
<1>5. /\ end \in 0..L
      /\ Envelope + L <= Budget => end = L
      /\ Envelope + L > Budget => /\ end > 0 => Envelope + Footer + end + Separator <= Budget
                                  /\ \A m \in (end + 1)..L : Envelope + Footer + m + Separator > Budget
  BY <1>2 DEF PlainSent
<1>6. {Envelope, Footer, Separator, Budget} \subseteq Nat
  BY DEF BudgetAssumption
<1>7. S \in SUBSET Int /\ IsFiniteSet(S) /\ S # {}
  <2> DEFINE D == 0..N
  <2>1. S \in SUBSET D
    OBVIOUS
  <2>2. IsFiniteSet(D) /\ D \subseteq Int
    BY <1>4, FS_Interval
  <2>3. 0 \in S
    <3>1. Through(records, 0) = 0 /\ 0 \in 0..N
      BY <1>4 DEF Through
    <3> QED BY <1>1, <1>5, <3>1
  <2> HIDE DEF S, D
  <2>4. IsFiniteSet(S)
    BY <2>1, <2>2, FS_Subset
  <2>5. S \in SUBSET Int
    BY <2>1, <2>2
  <2> QED BY <2>3, <2>4, <2>5
<1>8. k \in S /\ \A y \in S : y <= k
  <2> HIDE DEF S
  <2> QED BY <1>3, <1>7, GreatestFacts
<1>9. k \in 0..N /\ k \in Nat /\ E[k] <= end /\ E[k] \in Nat /\ end \in Nat
  BY <1>1, <1>4, <1>5, <1>8
<1>10. CASE Envelope + L <= Budget
  <2>1. N \in S
    <3>1. N \in 0..N /\ E[N] <= L /\ Through(records, N) = E[N]
      BY <1>1, <1>4
    <3> QED BY <1>5, <1>10, <3>1
  <2>2. k = N
    BY <1>4, <1>8, <1>9, <2>1
  <2> QED BY <1>1, <1>9, <1>10, <2>2 DEF IdsAreNamed, k
<1>11. CASE Envelope + L > Budget
  <2>1. k > 0 => NamingBytes(records, k) <= Budget
    <3> HAVE k > 0
    <3>1. E[k] > 0 /\ NamingBytes(records, k) = Envelope + Footer + E[k] + Separator
      BY <1>4, <1>9
    <3>2. Envelope + Footer + end + Separator <= Budget
      BY <1>5, <1>9, <1>11, <3>1
    <3> QED BY <1>6, <1>9, <3>1, <3>2, SMTT(30)
  <2>2. k < N => NamingBytes(records, k + 1) > Budget
    <3> HAVE k < N
    <3>1. k + 1 \in 0..N /\ k + 1 > 0 /\ ~(k + 1 <= k)
      BY <1>4, <1>9, SMTT(30)
    <3>2. ~(E[k + 1] <= end) /\ E[k + 1] \in 0..L
      BY <1>4, <1>8, <3>1
    <3>3. E[k + 1] \in (end + 1)..L
      BY <1>1, <1>9, <3>2, SMTT(30)
    <3>4. Envelope + Footer + E[k + 1] + Separator > Budget
      BY <1>5, <1>11, <3>3
    <3> QED BY <1>4, <3>1, <3>4
  <2>3. ~(Envelope + L <= Budget)
    BY <1>1, <1>6, <1>11
  <2> QED BY <1>1, <1>9, <2>1, <2>2, <2>3 DEF IdsAreNamed, k
<1>12. Envelope + L <= Budget \/ Envelope + L > Budget
  BY <1>1, <1>6
<1> QED BY <1>10, <1>11, <1>12

\* Of any list of records as many whole ones are sent as fit, and every other one is named, in order; the
\* last-resort text names the first ones, as many as it can.  The running sums of mcpTextRecords and
\* mcpJsonCollection are the bytes of the answer.
THEOREM RecordsAreAccountedFor ==
  ASSUME NEW records \in Seq(Row)
  PROVE  EveryRecordIsAccountedFor(records)
<1> DEFINE answer == McpCollection(records)
           N == Len(records)
           fitting == {n \in 0..(N - 1) : CandidateBytes(records, n) <= Budget}
           best == BestIncluded(records)
<1>1. N \in Nat /\ Budget \in Nat
  BY BudgetAssumption DEF BudgetAssumption
<1>2. \A n \in 0..(N - 1) : CandidateBytes(records, n) = AnswerBytes(records, n) /\ AnswerBytes(records, n) \in Int
  BY BudgetAssumption, CandidatesAreAnswers
<1>3. best = IF fitting = {} THEN -1 ELSE Max(fitting)
  BY DEF BestIncluded
<1>4. fitting \in SUBSET Int /\ IsFiniteSet(fitting) /\ fitting \subseteq 0..(N - 1)
  <2>1. fitting \in SUBSET Int /\ fitting \subseteq 0..(N - 1)
    OBVIOUS
  <2>2. IsFiniteSet(0..(N - 1))
    BY FS_Interval, <1>1
  <2> HIDE DEF fitting
  <2> QED BY <2>1, <2>2, FS_Subset
<1>5. fitting # {} => best \in fitting /\ \A n \in fitting : n <= best
  <2> HIDE DEF fitting
  <2> QED BY <1>3, <1>4, GreatestFacts
<1>6. CASE FullBytes(records) <= Budget
  <2>1. answer = [form |-> "full", returned |-> Len(records), omitted |-> <<>>]
    BY <1>6 DEF McpCollection
  <2>2. Len(<<>>) = 0 /\ Len(records) \in Nat
    OBVIOUS
  <2>3. answer.form = "full" /\ answer.returned = Len(records) /\ Len(answer.omitted) = 0
    BY <2>1, <2>2
  <2> HIDE DEF answer
  <2> QED BY <1>1, <2>2, <2>3 DEF EveryRecordIsAccountedFor, answer
<1>7. CASE ~(FullBytes(records) <= Budget) /\ fitting # {}
  <2>1. best \in 0..(N - 1) /\ best \in Nat /\ best >= 0 /\ best < N
    BY <1>1, <1>4, <1>5, <1>7
  <2> DEFINE tail == SubSeq(records, best + 1, N)
  <2>2. answer = [form |-> "part", returned |-> best, omitted |-> tail]
    BY <1>7, <2>1 DEF McpCollection
  <2>3. answer.form = "part" /\ answer.returned = best /\ answer.omitted = tail
    <3> HIDE DEF tail, best, answer
    <3> QED BY <2>2
  <2>4. Len(tail) = N - best
    BY <2>1
  <2>5. AnswerBytes(records, best) <= Budget
    BY <1>2, <1>5, <1>7, <2>1
  <2>6. \A n \in (best + 1)..(N - 1) : AnswerBytes(records, n) > Budget
    <3> TAKE n \in (best + 1)..(N - 1)
    <3>1. n \in 0..(N - 1) /\ ~(n <= best)
      BY <1>1, <2>1
    <3>2. ~(CandidateBytes(records, n) <= Budget)
      BY <1>5, <1>7, <3>1
    <3>3. CandidateBytes(records, n) = AnswerBytes(records, n) /\ AnswerBytes(records, n) \in Int
      BY <1>2, <3>1
    <3> QED BY <1>1, <3>2, <3>3
  <2>7. answer.returned + Len(answer.omitted) = N
    <3> HIDE DEF tail, answer, best, N
    <3>1. answer.omitted = tail
      BY <2>3
    <3> QED BY <1>1, <2>1, <2>3, <2>4, <3>1
  <2>8. answer.omitted = SubSeq(records, best + 1, best + Len(answer.omitted))
    <3>1. best + Len(tail) = N
      <4> HIDE DEF tail, best, N
      <4> QED BY <1>1, <2>1, <2>4
    <3>2. answer.omitted = tail
      BY <2>3
    <3> HIDE DEF best, answer
    <3> QED BY <3>1, <3>2
  <2> HIDE DEF answer, best
  <2> QED BY <2>3, <2>5, <2>6, <2>7, <2>8 DEF EveryRecordIsAccountedFor, answer
<1>8. CASE ~(FullBytes(records) <= Budget) /\ fitting = {}
  <2>1. best = -1
    BY <1>3, <1>8
  <2> DEFINE k == Named(records)
             first == SubSeq(records, 1, k)
  <2>2. answer = [form |-> "text", returned |-> 0, omitted |-> first]
    BY <1>8, <2>1 DEF McpCollection
  <2>3. answer.form = "text" /\ answer.returned = 0 /\ answer.omitted = first
    <3> HIDE DEF first, answer
    <3> QED BY <2>2
  <2>4. IdsAreNamed(records)
    BY BudgetAssumption, FirstIdsAreNamed
  <2>9. k \in 0..N /\ k \in Nat
    BY <1>1, <2>4 DEF IdsAreNamed
  <2>10. Len(first) = k
    <3> HIDE DEF k
    <3> QED BY <2>9
  <2>11. answer.omitted = SubSeq(records, 0 + 1, 0 + Len(answer.omitted))
    <3>1. 0 + Len(first) = k /\ 0 + 1 = 1
      <4> HIDE DEF first, k
      <4> QED BY <2>9, <2>10
    <3> HIDE DEF answer, k
    <3> QED BY <2>3, <3>1
  <2>5. \A n \in 0..(N - 1) : AnswerBytes(records, n) > Budget
    <3> TAKE n \in 0..(N - 1)
    <3>1. ~(CandidateBytes(records, n) <= Budget)
      BY <1>8
    <3> QED BY <1>1, <1>2, <3>1
  <2>6. AnswerBytes(records, 0) > Budget
    <3>1. CASE N > 0
      <4>1. 0 \in 0..(N - 1)
        BY <1>1, <3>1
      <4> QED BY <2>5, <4>1
    <3>2. CASE N = 0
      <4>1. records = <<>>
        BY <3>2
      <4>2. FullBytes(records) = Envelope + Heading
        <5>1. Envelope + Heading \in Nat
          BY BudgetAssumption DEF BudgetAssumption
        <5> QED BY <4>1, <5>1 DEF FullBytes
      <4>3. AnswerBytes(records, 0) = Envelope + Heading + SumOn(Bodies(records), 1..0) + Separator + Footer
                + SumOn(Ids(records), (0 + 1)..N) + 0
        <5>1. 0 \in 0..N /\ ~(0 < N)
          BY <3>2
        <5> QED BY <5>1, AnswerBytesAre, BudgetAssumption
      <4>4. 1..0 = {} /\ (0 + 1)..N = {}
        BY <3>2
      <4>5. SumOn(Bodies(records), 1..0) = 0 /\ SumOn(Ids(records), (0 + 1)..N) = 0
        BY <4>4, SumOfNone
      <4>6. {Envelope, Heading, Separator, Footer} \subseteq Nat
        BY BudgetAssumption DEF BudgetAssumption
      <4> QED BY <1>1, <1>8, <4>2, <4>3, <4>5, <4>6
    <3> QED BY <1>1, <3>1, <3>2
  <2>7. Len(answer.omitted) = k
    <3> HIDE DEF answer, first, k
    <3> QED BY <2>3, <2>10
  <2>8. \A n \in (0 + 1)..(N - 1) : AnswerBytes(records, n) > Budget
    BY <1>1, <2>5
  <2>12. IF AnswerBytes(records, 0) - Heading - Separator <= Budget THEN k = N
         ELSE /\ k > 0 => NamingBytes(records, k) <= Budget
              /\ k < N => NamingBytes(records, k + 1) > Budget
    BY <2>4 DEF IdsAreNamed
  <2> HIDE DEF answer, k
  <2> QED BY <2>3, <2>6, <2>7, <2>8, <2>11, <2>12 DEF EveryRecordIsAccountedFor, answer
<1> QED BY <1>6, <1>7, <1>8

-----------------------------------------------------------------------------
(* One record. *)

LEMMA LeastFacts ==
  ASSUME NEW S \in SUBSET Nat, S # {}
  PROVE  Min(S) \in S
<1> DEFINE IsLeast(x) == \A y \in S : x <= y
<1>1. \E m \in S : IsLeast(m)
  BY FirstExists
<1>2. Min(S) = CHOOSE x \in S : IsLeast(x)
  BY DEF Min
<1> HIDE DEF IsLeast
<1> QED BY <1>1, <1>2

Concatenates(c, V, a, b) ==
  /\ c \in Seq(V) /\ Len(c) = Len(a) + Len(b) /\ DOMAIN c = 1..(Len(a) + Len(b))
  /\ \A i \in 1..(Len(a) + Len(b)) : c[i] = IF i <= Len(a) THEN a[i] ELSE b[i - Len(a)]

LEMMA ConcatenationIs ==
  ASSUME NEW V, NEW a \in Seq(V), NEW b \in Seq(V), NEW c, c = a \o b
  PROVE  Concatenates(c, V, a, b)
<1>1. c \in Seq(V) /\ Len(c) = Len(a) + Len(b)
  OBVIOUS
<1>2. DOMAIN c = 1..(Len(a) + Len(b))
  BY <1>1
<1>3. \A i \in 1..(Len(a) + Len(b)) : c[i] = IF i <= Len(a) THEN a[i] ELSE b[i - Len(a)]
  OBVIOUS
<1> QED BY <1>1, <1>2, <1>3 DEF Concatenates

Reduction == [field : Int, to : Int]

Reducible(record) ==
  /\ DOMAIN record \in SUBSET Int /\ IsFiniteSet(DOMAIN record)
  /\ \A f \in DOMAIN record : record[f] \in Int

\* Reductions each of a field of its own.
Suit(reds, record) ==
  /\ reds \in Seq(Reduction)
  /\ Len(reds) \in Nat /\ DOMAIN reds = 1..Len(reds)
  /\ \A i \in DOMAIN reds : reds[i].field \in DOMAIN record /\ reds[i].to \in Int
  /\ \A i, j \in DOMAIN reds : reds[i].field = reds[j].field => i = j

\* The reductions of a record: each of a field of its own; only the given ones touch what identifies it.
LEMMA ReductionsSuit ==
  ASSUME NEW record, Reducible(record), NEW given \in Seq(Reduction), NEW identity, NEW reds,
         reds = Reductions(record, given, identity)
  PROVE  /\ Suit(reds, record)
         /\ \A i \in DOMAIN reds : \/ \E g \in DOMAIN given : given[g] = reds[i]
                                   \/ reds[i].field \notin identity /\ reds[i].to = 0
<1> DEFINE D == DOMAIN record
           first == {i \in DOMAIN given : /\ given[i].field \in D
                                          /\ \A j \in 1..(i - 1) : given[j].field # given[i].field}
           others == D \ (identity \cup {given[i].field : i \in DOMAIN given})
           chosen == Ascending(first)
           rest == Ascending(others)
           a == [i \in DOMAIN chosen |-> given[chosen[i]]]
           b == [i \in DOMAIN rest |-> [field |-> rest[i], to |-> 0]]
           n == Cardinality(first)
           m == Cardinality(others)
<1>1. reds = a \o b
  BY DEF Reductions
<1>2. /\ Len(given) \in Nat /\ DOMAIN given = 1..Len(given)
      /\ \A i \in DOMAIN given : given[i] \in Reduction /\ given[i].field \in Int /\ given[i].to \in Int
  <2>1. Len(given) \in Nat /\ DOMAIN given = 1..Len(given) /\ \A i \in DOMAIN given : given[i] \in Reduction
    OBVIOUS
  <2>2. \A r \in Reduction : r.field \in Int /\ r.to \in Int
    BY DEF Reduction
  <2> QED BY <2>1, <2>2
<1>3. first \in SUBSET Int /\ IsFiniteSet(first) /\ first \in SUBSET DOMAIN given
  <2>1. first \in SUBSET DOMAIN given /\ first \in SUBSET Int
    BY <1>2
  <2>2. IsFiniteSet(DOMAIN given)
    <3>1. 1 \in Int /\ Len(given) \in Int /\ DOMAIN given = 1..Len(given)
      BY <1>2
    <3> HIDE DEF first, others, chosen, rest, a, b, n, m
    <3> QED BY <3>1, FS_Interval
  <2> HIDE DEF first
  <2> QED BY <2>1, <2>2, FS_Subset
<1>4. others \in SUBSET Int /\ IsFiniteSet(others) /\ others \in SUBSET D
  <2>1. others \in SUBSET D /\ D \in SUBSET Int /\ IsFiniteSet(D)
    BY DEF Reducible
  <2> HIDE DEF others, D
  <2> QED BY <2>1, FS_Subset
<1>5. \A i, j \in first : given[i].field = given[j].field => i = j
  <2> TAKE i, j \in first
  <2>1. i \in Nat /\ j \in Nat /\ i \in DOMAIN given /\ j \in DOMAIN given /\ i >= 1 /\ j >= 1
    BY <1>2
  <2>2. i < j => given[i].field # given[j].field
    <3>1. i < j => i \in 1..(j - 1)
      BY <2>1
    <3> QED BY <3>1
  <2>3. j < i => given[i].field # given[j].field
    <3>1. j < i => j \in 1..(i - 1)
      BY <2>1
    <3> QED BY <3>1
  <2> HIDE DEF first
  <2> QED BY <2>1, <2>2, <2>3
<1>6. \A i \in first : given[i].field \in D /\ given[i].field \notin others
  BY <1>3
<1>7. \A f \in others : f \notin identity /\ f \in D /\ f \in Int
  BY <1>4
<1> HIDE DEF first, others
<1>8. /\ n \in Nat /\ DOMAIN chosen = 1..n /\ \A i \in 1..n : chosen[i] \in first
      /\ \A i, j \in 1..n : chosen[i] = chosen[j] => i = j
  BY <1>3, AscendingFacts
<1>9. /\ m \in Nat /\ DOMAIN rest = 1..m /\ \A i \in 1..m : rest[i] \in others
      /\ \A i, j \in 1..m : rest[i] = rest[j] => i = j
  BY <1>4, AscendingFacts
<1> HIDE DEF chosen, rest, n, m, D
<1>10. a \in Seq(Reduction) /\ Len(a) = n /\ \A i \in 1..n : a[i] = given[chosen[i]] /\ chosen[i] \in DOMAIN given
  <2>1. \A i \in 1..n : chosen[i] \in DOMAIN given /\ given[chosen[i]] \in Reduction
    BY <1>2, <1>3, <1>8
  <2>2. a \in [1..n -> Reduction]
    BY <1>8, <2>1
  <2>3. \A i \in 1..n : a[i] = given[chosen[i]]
    BY <1>8
  <2> HIDE DEF a
  <2> QED BY <1>8, <2>1, <2>2, <2>3
<1>11. b \in Seq(Reduction) /\ Len(b) = m /\ \A i \in 1..m : b[i].field = rest[i] /\ b[i].to = 0
  <2>1. \A i \in 1..m : [field |-> rest[i], to |-> 0] \in Reduction
    BY <1>7, <1>9 DEF Reduction
  <2>2. b \in [1..m -> Reduction]
    BY <1>9, <2>1
  <2>3. \A i \in 1..m : b[i].field = rest[i] /\ b[i].to = 0
    BY <1>9
  <2> HIDE DEF b
  <2> QED BY <1>9, <2>2, <2>3
<1> HIDE DEF a, b
<1>12. /\ reds \in Seq(Reduction) /\ Len(reds) = n + m /\ DOMAIN reds = 1..(n + m)
       /\ \A i \in 1..(n + m) : reds[i] = IF i <= n THEN a[i] ELSE b[i - n]
  <2>1. a \in Seq(Reduction) /\ b \in Seq(Reduction)
    BY <1>10, <1>11
  <2>2. Concatenates(reds, Reduction, a, b)
    BY <1>1, <2>1, ConcatenationIs
  <2>3. Len(a) = n /\ Len(b) = m
    BY <1>10, <1>11
  <2> QED BY <2>2, <2>3 DEF Concatenates
<1>13. \A i \in 1..(n + m) : \/ i \in 1..n /\ reds[i] = given[chosen[i]]
                             \/ ~(i \in 1..n) /\ i - n \in 1..m /\ reds[i].field = rest[i - n] /\ reds[i].to = 0
  <2> TAKE i \in 1..(n + m)
  <2>1. CASE i <= n
    <3>1. i \in 1..n
      BY <1>8, <1>9, <2>1
    <3> QED BY <1>10, <1>12, <2>1, <3>1
  <2>2. CASE ~(i <= n)
    <3>1. ~(i \in 1..n) /\ i - n \in 1..m
      BY <1>8, <1>9, <2>2
    <3> QED BY <1>11, <1>12, <2>2, <3>1
  <2> QED BY <2>1, <2>2
<1>14. \A i \in DOMAIN reds : reds[i].field \in D /\ reds[i].to \in Int
  <2> TAKE i \in DOMAIN reds
  <2>1. CASE i \in 1..n
    <3>1. reds[i] = given[chosen[i]] /\ chosen[i] \in first /\ chosen[i] \in DOMAIN given
      BY <1>3, <1>8, <1>12, <1>13, <2>1
    <3> QED BY <1>2, <1>6, <3>1
  <2>2. CASE ~(i \in 1..n)
    <3>1. i - n \in 1..m /\ reds[i].field = rest[i - n] /\ reds[i].to = 0
      BY <1>12, <1>13, <2>2
    <3>2. rest[i - n] \in others
      BY <1>9, <3>1
    <3> QED BY <1>7, <3>1, <3>2
  <2> QED BY <2>1, <2>2
<1>15. \A i, j \in DOMAIN reds : reds[i].field = reds[j].field => i = j
  <2> SUFFICES ASSUME NEW i \in DOMAIN reds, NEW j \in DOMAIN reds, reds[i].field = reds[j].field
               PROVE  i = j
    OBVIOUS
  <2>1. CASE i \in 1..n /\ j \in 1..n
    <3>1. reds[i] = given[chosen[i]] /\ chosen[i] \in first /\ reds[j] = given[chosen[j]] /\ chosen[j] \in first
      BY <1>8, <1>12, <1>13, <2>1
    <3>2. chosen[i] = chosen[j]
      BY <1>5, <3>1
    <3> QED BY <1>8, <2>1, <3>2
  <2>2. CASE i \in 1..n /\ ~(j \in 1..n)
    <3>1. reds[i] = given[chosen[i]] /\ chosen[i] \in first
      BY <1>8, <1>12, <1>13, <2>2
    <3>2. j - n \in 1..m /\ reds[j].field = rest[j - n]
      BY <1>12, <1>13, <2>2
    <3>3. rest[j - n] \in others
      BY <1>9, <3>2
    <3> QED BY <1>6, <3>1, <3>2, <3>3
  <2>3. CASE ~(i \in 1..n) /\ j \in 1..n
    <3>1. reds[j] = given[chosen[j]] /\ chosen[j] \in first
      BY <1>8, <1>12, <1>13, <2>3
    <3>2. i - n \in 1..m /\ reds[i].field = rest[i - n]
      BY <1>12, <1>13, <2>3
    <3>3. rest[i - n] \in others
      BY <1>9, <3>2
    <3> QED BY <1>6, <3>1, <3>2, <3>3
  <2>4. CASE ~(i \in 1..n) /\ ~(j \in 1..n)
    <3>1. i - n \in 1..m /\ reds[i].field = rest[i - n] /\ j - n \in 1..m /\ reds[j].field = rest[j - n]
      BY <1>12, <1>13, <2>4
    <3>2. i - n = j - n
      BY <1>9, <3>1
    <3>3. i \in Int /\ j \in Int /\ n \in Int
      BY <1>8, <1>9, <1>12
    <3> QED BY <3>2, <3>3
  <2> QED BY <2>1, <2>2, <2>3, <2>4
<1>16. Suit(reds, record)
  <2>1. n + m \in Nat
    BY <1>8, <1>9
  <2> QED BY <1>12, <1>14, <1>15, <2>1 DEF Suit, D
<1>17. ASSUME NEW i \in DOMAIN reds
       PROVE  \/ \E g \in DOMAIN given : given[g] = reds[i]
              \/ reds[i].field \notin identity /\ reds[i].to = 0
  <2>1. CASE i \in 1..n
    <3>1. reds[i] = given[chosen[i]] /\ chosen[i] \in DOMAIN given
      BY <1>3, <1>8, <1>12, <1>13, <2>1
    <3> QED BY <3>1
  <2>2. CASE ~(i \in 1..n)
    <3>1. i - n \in 1..m /\ reds[i].field = rest[i - n] /\ reds[i].to = 0
      BY <1>12, <1>13, <2>2
    <3>2. rest[i - n] \in others
      BY <1>9, <3>1
    <3> QED BY <1>7, <3>1, <3>2
  <2> QED BY <2>1, <2>2
<1> QED BY <1>16, <1>17

\* What is left of each field, with the reductions of these indices applied.
Left(record, reds, A) ==
  [f \in DOMAIN record |-> IF \E i \in A : reds[i].field = f THEN reds[CHOOSE i \in A : reds[i].field = f].to
                           ELSE record[f]]

Bytes(record, reds, A) ==
  Envelope + Footer + FieldName * Cardinality(A) + SumOn(Left(record, reds, A), DOMAIN record)

LEMMA LeftIs ==
  ASSUME NEW record, Reducible(record), NEW reds, Suit(reds, record), NEW A \in SUBSET DOMAIN reds
  PROVE  /\ \A i \in A : Left(record, reds, A)[reds[i].field] = reds[i].to
         /\ \A f \in DOMAIN record : (\A i \in A : reds[i].field # f) => Left(record, reds, A)[f] = record[f]
         /\ \A f \in DOMAIN record : Left(record, reds, A)[f] \in Int
<1>1. \A i \in A : i \in DOMAIN reds /\ reds[i].field \in DOMAIN record /\ reds[i].to \in Int
  BY DEF Suit
<1>2. ASSUME NEW i \in A
      PROVE  Left(record, reds, A)[reds[i].field] = reds[i].to
  <2> DEFINE f == reds[i].field
             k == CHOOSE j \in A : reds[j].field = f
  <2>1. k \in A /\ reds[k].field = f
    OBVIOUS
  <2>2. k = i
    BY <1>1, <2>1 DEF Suit
  <2>3. f \in DOMAIN record /\ \E j \in A : reds[j].field = f
    BY <1>1
  <2>4. Left(record, reds, A)[f] = reds[k].to
    BY <2>3 DEF Left
  <2> HIDE DEF k
  <2> QED BY <2>2, <2>4
<1>3. ASSUME NEW f \in DOMAIN record, \A i \in A : reds[i].field # f
      PROVE  Left(record, reds, A)[f] = record[f]
  BY <1>3 DEF Left
<1>4. ASSUME NEW f \in DOMAIN record
      PROVE  Left(record, reds, A)[f] \in Int
  <2>1. CASE \E i \in A : reds[i].field = f
    <3>1. PICK i \in A : reds[i].field = f
      BY <2>1
    <3> QED BY <1>1, <1>2, <3>1
  <2>2. CASE \A i \in A : reds[i].field # f
    BY <1>3, <2>2 DEF Reducible
  <2> QED BY <2>1, <2>2
<1> QED BY <1>2, <1>3, <1>4

LEMMA RecordBytesAre ==
  ASSUME NEW record, Reducible(record), NEW reds, Suit(reds, record), NEW A \in SUBSET DOMAIN reds
  PROVE  RecordBytes(record, reds, A) = Bytes(record, reds, A)
<1> DEFINE by(f) == {i \in A : reds[i].field = f}
           left(f) == IF by(f) = {} THEN record[f] ELSE reds[Max(by(f))].to
           L == [f \in DOMAIN record |-> left(f)]
           M == Left(record, reds, A)
<1>1. RecordBytes(record, reds, A) = Envelope + Footer + FieldName * Cardinality(A) + SumOn(L, DOMAIN record)
  BY DEF RecordBytes, SumFunction, SumOn
<1>2. ASSUME NEW f \in DOMAIN record
      PROVE  L[f] = M[f]
  <2>1. CASE \E i \in A : reds[i].field = f
    <3>1. PICK i \in A : reds[i].field = f
      BY <2>1
    <3>2. by(f) = {i}
      BY <3>1 DEF Suit
    <3>3. i \in Int
      BY DEF Suit
    <3>4. Max({i}) = i
      <4>1. {i} \in SUBSET Int /\ \A y \in {i} : y <= i
        BY <3>3
      <4> QED BY <4>1, GreatestIs
    <3>5. L[f] = reds[i].to
      BY <3>2, <3>4
    <3> QED BY <3>1, <3>5, LeftIs
  <2>2. CASE \A i \in A : reds[i].field # f
    <3>1. by(f) = {}
      BY <2>2
    <3>2. L[f] = record[f]
      BY <3>1
    <3> QED BY <2>2, <3>2, LeftIs
  <2> QED BY <2>1, <2>2
<1>3. \A f \in DOMAIN record : M[f] \in Int /\ L[f] = M[f]
  BY <1>2, LeftIs
<1>4. SumOn(M, DOMAIN record) = SumOn(L, DOMAIN record)
  <2>1. IsFiniteSet(DOMAIN record)
    BY DEF Reducible
  <2> HIDE DEF L, M
  <2> QED BY <1>3, <2>1, SumOfSame
<1> HIDE DEF L
<1> QED BY <1>1, <1>4 DEF Bytes

\* Every reduction makes the record smaller, the entry that names its field included.
Shrinking(record, reds) == \A i \in DOMAIN reds : reds[i].to + FieldName <= record[reds[i].field]

LEMMA UndoneBytes ==
  ASSUME BudgetAssumption, NEW record, Reducible(record), NEW reds, Suit(reds, record), NEW A \in SUBSET DOMAIN reds
  PROVE  /\ Bytes(record, reds, A) \in Int
         /\ \A i \in A : Bytes(record, reds, A \ {i}) = Bytes(record, reds, A) - FieldName + record[reds[i].field] - reds[i].to
<1> DEFINE D == DOMAIN record
           L == Left(record, reds, A)
           c == Cardinality(A)
<1>1. {Envelope, Footer, FieldName} \subseteq Nat
  BY DEF BudgetAssumption
<1>2. IsFiniteSet(A) /\ c \in Nat
  <2>1. IsFiniteSet(DOMAIN reds)
    BY FS_Interval DEF Suit
  <2> QED BY <2>1, FS_Subset, FS_CardinalityType
<1>3. IsFiniteSet(D) /\ \A f \in D : L[f] \in Int /\ record[f] \in Int
  BY LeftIs DEF Reducible
<1>4. SumOn(L, D) \in Int
  <2> HIDE DEF L, D
  <2> QED BY <1>3, SumType
<1>5. FieldName * c \in Int
  BY <1>1, <1>2
<1>6. Bytes(record, reds, A) = Envelope + Footer + FieldName * c + SumOn(L, D)
  BY DEF Bytes
<1>7. Bytes(record, reds, A) \in Int
  <2> HIDE DEF L, D, c
  <2> QED BY <1>1, <1>4, <1>5, <1>6
<1>8. ASSUME NEW i \in A
      PROVE  Bytes(record, reds, A \ {i}) = Bytes(record, reds, A) - FieldName + record[reds[i].field] - reds[i].to
  <2> DEFINE f == reds[i].field
             B == A \ {i}
             M == Left(record, reds, B)
             E == D \ {f}
  <2>1. f \in D /\ reds[i].to \in Int /\ record[f] \in Int
    BY DEF Suit, Reducible
  <2>2. B \in SUBSET DOMAIN reds
    OBVIOUS
  <2>3. Cardinality(B) = c - 1
    BY <1>2, FS_RemoveElement
  <2>4. L[f] = reds[i].to
    BY LeftIs
  <2>5. M[f] = record[f]
    <3>1. \A j \in B : reds[j].field # f
      BY DEF Suit
    <3> QED BY <2>1, <2>2, <3>1, LeftIs
  <2>6. \A g \in D : M[g] \in Int
    BY <2>2, LeftIs
  <2>7. ASSUME NEW g \in E
        PROVE  M[g] = L[g]
    <3>1. CASE \E j \in A : reds[j].field = g
      <4>1. PICK j \in A : reds[j].field = g
        BY <3>1
      <4>2. j \in B
        BY <4>1
      <4>3. M[g] = reds[j].to
        BY <2>2, <4>1, <4>2, LeftIs
      <4>4. L[g] = reds[j].to
        BY <4>1, LeftIs
      <4> QED BY <4>3, <4>4
    <3>2. CASE \A j \in A : reds[j].field # g
      <4>1. M[g] = record[g]
        BY <2>2, <3>2, LeftIs
      <4>2. L[g] = record[g]
        BY <3>2, LeftIs
      <4> QED BY <4>1, <4>2
    <3> QED BY <3>1, <3>2
  <2>8. Bytes(record, reds, B) = Envelope + Footer + FieldName * Cardinality(B) + SumOn(M, D)
    BY DEF Bytes
  <2> HIDE DEF L, M, D, c, f, B
  <2>9. IsFiniteSet(E)
    BY <1>3, FS_Subset
  <2>10. \A g \in E : M[g] \in Int /\ L[g] = M[g]
    BY <2>6, <2>7
  <2>11. SumOn(M, E) = SumOn(L, E)
    <3> HIDE DEF E
    <3> QED BY <2>9, <2>10, SumOfSame
  <2>12. SumOn(L, D) = L[f] + SumOn(L, E) /\ SumOn(L, E) \in Int
    BY <1>3, <2>1, SumWithOneMore
  <2>13. SumOn(M, D) = M[f] + SumOn(M, E)
    BY <1>3, <2>1, <2>6, SumWithOneMore
  <2>14. FieldName * (c - 1) = FieldName * c - FieldName
    BY <1>1, <1>2
  <2> DEFINE P == FieldName * c
  <2>15. P \in Int /\ FieldName * Cardinality(B) = P - FieldName
    BY <1>5, <2>3, <2>14
  <2>16. Bytes(record, reds, A) = Envelope + Footer + P + SumOn(L, D)
    BY <1>6
  <2>17. /\ Bytes(record, reds, B) = Envelope + Footer + (P - FieldName) + record[f] + SumOn(L, E)
         /\ Bytes(record, reds, A) = Envelope + Footer + P + reds[i].to + SumOn(L, E)
    <3>1. Envelope \in Int /\ Footer \in Int /\ FieldName \in Int
      BY <1>1
    <3> HIDE DEF P, E
    <3> QED BY <2>1, <2>4, <2>5, <2>8, <2>11, <2>12, <2>13, <2>15, <2>16, <3>1
  <2>18. Envelope \in Int /\ Footer \in Int /\ FieldName \in Int
    BY <1>1
  <2>19. Bytes(record, reds, B) = Bytes(record, reds, A) - FieldName + record[f] - reds[i].to
    <3> HIDE DEF P, E
    <3> QED BY <2>1, <2>12, <2>15, <2>17, <2>18
  <2> QED BY <2>19 DEF B, f
<1> QED BY <1>7, <1>8

\* The more is reduced, the smaller.
LEMMA BytesFall ==
  ASSUME BudgetAssumption, NEW record, Reducible(record), NEW reds, Suit(reds, record), Shrinking(record, reds),
         NEW B \in SUBSET DOMAIN reds, NEW A \in SUBSET B
  PROVE  Bytes(record, reds, B) <= Bytes(record, reds, A)
<1> DEFINE Z == B \ A
           F == {T \in SUBSET Z : Bytes(record, reds, A \cup T) <= Bytes(record, reds, A)}
<1>1. IsFiniteSet(Z)
  <2>1. IsFiniteSet(DOMAIN reds) /\ Z \in SUBSET DOMAIN reds
    BY FS_Interval DEF Suit
  <2> HIDE DEF Z
  <2> QED BY <2>1, FS_Subset
<1>2. Bytes(record, reds, A) \in Int
  <2>1. A \in SUBSET DOMAIN reds
    OBVIOUS
  <2> QED BY <2>1, UndoneBytes
<1>3. {} \in F
  <2>1. A \cup {} = A
    OBVIOUS
  <2> QED BY <1>2, <2>1
<1>4. ASSUME NEW T \in F, NEW i \in Z \ T
      PROVE  T \cup {i} \in F
  <2> DEFINE U == A \cup (T \cup {i})
  <2>1. U \in SUBSET DOMAIN reds /\ i \in U /\ U \ {i} = A \cup T /\ i \in DOMAIN reds /\ A \cup T \in SUBSET DOMAIN reds
    OBVIOUS
  <2>2. Bytes(record, reds, A \cup T) <= Bytes(record, reds, A)
    OBVIOUS
  <2> HIDE DEF U
  <2>3. Bytes(record, reds, U) \in Int /\ Bytes(record, reds, A \cup T) \in Int
    BY <2>1, UndoneBytes
  <2>4. Bytes(record, reds, U \ {i}) = Bytes(record, reds, U) - FieldName + record[reds[i].field] - reds[i].to
    BY <2>1, UndoneBytes
  <2>5. reds[i].to + FieldName <= record[reds[i].field] /\ reds[i].to \in Int /\ record[reds[i].field] \in Int
    BY <2>1 DEF Shrinking, Suit, Reducible
  <2>6. FieldName \in Int
    BY DEF BudgetAssumption
  <2>7. Bytes(record, reds, U) <= Bytes(record, reds, A \cup T)
    <3> DEFINE u == Bytes(record, reds, U)
               v == Bytes(record, reds, A \cup T)
               was == record[reds[i].field]
               to == reds[i].to
    <3>1. u \in Int /\ v \in Int /\ was \in Int /\ to \in Int /\ to + FieldName <= was /\ v = u - FieldName + was - to
      BY <2>1, <2>3, <2>4, <2>5
    <3> HIDE DEF u, v, was, to
    <3>2. u <= v
      BY <2>6, <3>1
    <3> QED BY <3>2 DEF u, v
  <2>8. Bytes(record, reds, U) <= Bytes(record, reds, A)
    BY <1>2, <2>2, <2>3, <2>7
  <2>9. T \cup {i} \in SUBSET Z
    OBVIOUS
  <2> QED BY <2>8, <2>9 DEF U
<1>5. Z \in F
  <2> HIDE DEF F, Z
  <2>1. F \in SUBSET SUBSET Z
    BY DEF F
  <2> QED BY <1>1, <1>3, <1>4, <2>1, SetsGrow
<1>6. A \cup Z = B
  OBVIOUS
<1> QED BY <1>5, <1>6

FitsWith(record, reds, A) == RecordBytes(record, reds, A) <= Budget

\* What is applied fits, and of all of it a part of some choice that would not fit without it.
Needed(record, reds, A) ==
  /\ A \in SUBSET DOMAIN reds
  /\ FitsWith(record, reds, A)
  /\ \A j \in A : \E B \in SUBSET DOMAIN reds : A \subseteq B /\ ~FitsWith(record, reds, B \ {j})

\* How far the restoring has come: of the indices from i on, those kept are needed.
Restoring(record, reds, m, i, A) ==
  /\ A \in SUBSET (1..m)
  /\ FitsWith(record, reds, A)
  /\ \A j \in A : j >= i => \E B \in SUBSET (1..m) : A \subseteq B /\ ~FitsWith(record, reds, B \ {j})

LEMMA RestoringStep ==
  ASSUME NEW record, NEW reds, NEW m \in Nat, NEW i \in Nat, NEW A, Restoring(record, reds, m, i + 1, A), NEW B,
         B = IF FitsWith(record, reds, A \ {i}) THEN A \ {i} ELSE A
  PROVE  Restoring(record, reds, m, i, B)
<1>1. A \in SUBSET (1..m) /\ FitsWith(record, reds, A)
  BY DEF Restoring
<1>2. B \in SUBSET A /\ FitsWith(record, reds, B)
  BY <1>1
<1>3. ASSUME NEW j \in B, j >= i
      PROVE  \E C \in SUBSET (1..m) : B \subseteq C /\ ~FitsWith(record, reds, C \ {j})
  <2>1. CASE j = i
    <3>1. ~FitsWith(record, reds, A \ {i})
      BY <2>1
    <3>2. A \in SUBSET (1..m) /\ B \subseteq A /\ ~FitsWith(record, reds, A \ {j})
      BY <1>1, <1>2, <2>1, <3>1
    <3> QED BY <3>2
  <2>2. CASE j # i
    <3>1. j \in A /\ j \in Int /\ j >= i + 1
      BY <1>1, <1>2, <1>3, <2>2
    <3>2. PICK C \in SUBSET (1..m) : A \subseteq C /\ ~FitsWith(record, reds, C \ {j})
      BY <3>1 DEF Restoring
    <3>3. B \subseteq C
      BY <1>2, <3>2
    <3> QED BY <3>2, <3>3
  <2> QED BY <2>1, <2>2
<1> QED BY <1>1, <1>2, <1>3 DEF Restoring

LEMMA AppliedAreNeeded ==
  ASSUME NEW record, NEW reds, Suit(reds, record)
  PROVE  Applied(record, reds) = {} \/ Needed(record, reds, Applied(record, reds))
<1> DEFINE enough == {k \in DOMAIN reds : RecordBytes(record, reds, 1..k) <= Budget}
           m == Min(enough)
           N == m + 1
           body(r) == [i \in Nat |-> IF i > m THEN 1..m
                                     ELSE IF RecordBytes(record, reds, r[i + 1] \ {i}) <= Budget THEN r[i + 1] \ {i}
                                     ELSE r[i + 1]]
           restore == CHOOSE r : r = body(r)
<1>1. Applied(record, reds) = IF enough = {} THEN {} ELSE restore[1]
  BY DEF Applied
<1> SUFFICES ASSUME enough # {}
             PROVE  Needed(record, reds, restore[1])
  BY <1>1
<1>2. m \in enough
  <2>1. enough \in SUBSET Nat
    BY DEF Suit
  <2> HIDE DEF enough
  <2> QED BY <2>1, LeastFacts
<1>3. m \in Nat /\ m >= 1 /\ 1..m \in SUBSET DOMAIN reds /\ FitsWith(record, reds, 1..m)
  <2>1. m \in DOMAIN reds /\ RecordBytes(record, reds, 1..m) <= Budget
    BY <1>2
  <2> HIDE DEF m
  <2>2. m \in 1..Len(reds) /\ Len(reds) \in Nat /\ DOMAIN reds = 1..Len(reds)
    BY <2>1 DEF Suit
  <2>3. m \in Nat /\ m >= 1 /\ m <= Len(reds)
    BY <2>2
  <2>4. 1..m \subseteq 1..Len(reds)
    BY <2>2, <2>3
  <2> QED BY <2>1, <2>2, <2>3, <2>4 DEF FitsWith
<1> HIDE DEF m, enough
<1> DEFINE V == SUBSET (1..m)
           all == 1..m
           tried(n, A) == IF FitsWith(record, reds, A \ {N - n}) THEN A \ {N - n} ELSE A
           step == [n \in 1..N |-> [A \in V |-> tried(n, A)]]
<1>4. N \in Nat /\ all \in V
  BY <1>3
<1>5. step \in [1..N -> [V -> V]] /\ \A n \in 1..N, A \in V : step[n][A] = tried(n, A)
  <2>1. \A n \in 1..N, A \in V : tried(n, A) \in V
    OBVIOUS
  <2> HIDE DEF tried, V
  <2> QED BY <2>1
<1>6. \E c : Stepped(c, V, all, N, step)
  <2> HIDE DEF step, V, all, N
  <2> QED BY <1>4, <1>5, StepsExist
<1>7. PICK c : c \in [0..N -> V] /\ c[0] = all /\ \A n \in 1..N : c[n] = step[n][c[n - 1]]
  BY <1>6 DEF Stepped
<1>8. \A n \in 1..N : c[n] = tried(n, c[n - 1])
  <2> TAKE n \in 1..N
  <2>1. n - 1 \in 0..N
    BY <1>4
  <2> HIDE DEF step, V, tried
  <2> QED BY <1>5, <1>7, <2>1
<1> DEFINE r == [i \in Nat |-> IF i > m THEN all ELSE c[N - i]]
<1>9. \A i \in Nat : i <= m => r[i] = (IF RecordBytes(record, reds, r[i + 1] \ {i}) <= Budget THEN r[i + 1] \ {i} ELSE r[i + 1])
  <2> SUFFICES ASSUME NEW i \in Nat, i <= m
               PROVE  r[i] = (IF RecordBytes(record, reds, r[i + 1] \ {i}) <= Budget THEN r[i + 1] \ {i} ELSE r[i + 1])
    OBVIOUS
  <2>1. N - i \in 1..N /\ (N - i) - 1 = N - (i + 1) /\ N - (N - i) = i /\ i + 1 \in Nat
    BY <1>3
  <2>2. r[i] = c[N - i]
    BY <1>3
  <2>3. r[i + 1] = c[N - (i + 1)]
    <3>1. CASE i + 1 > m
      <4>1. N - (i + 1) = 0
        BY <1>3, <3>1
      <4> QED BY <1>7, <2>1, <3>1, <4>1
    <3>2. CASE ~(i + 1 > m)
      BY <2>1, <3>2
    <3> QED BY <3>1, <3>2
  <2>4. c[N - i] = tried(N - i, c[N - (i + 1)])
    BY <1>8, <2>1
  <2> HIDE DEF r
  <2> QED BY <2>1, <2>2, <2>3, <2>4 DEF FitsWith
<1>10. r = body(r)
  <2> DEFINE e == [i \in Nat |-> IF i > m THEN 1..m
                                 ELSE IF RecordBytes(record, reds, r[i + 1] \ {i}) <= Budget THEN r[i + 1] \ {i}
                                 ELSE r[i + 1]]
  <2>1. e = body(r)
    OBVIOUS
  <2>2. \A i \in Nat : r[i] = e[i]
    <3> TAKE i \in Nat
    <3>1. CASE i > m
      BY <3>1
    <3>2. CASE ~(i > m)
      <4>1. i <= m
        BY <1>3, <3>2
      <4>2. e[i] = IF RecordBytes(record, reds, r[i + 1] \ {i}) <= Budget THEN r[i + 1] \ {i} ELSE r[i + 1]
        BY <3>2
      <4> HIDE DEF r, e
      <4> QED BY <1>9, <4>1, <4>2
    <3> QED BY <3>1, <3>2
  <2>3. r = [i \in Nat |-> r[i]] /\ e = [i \in Nat |-> e[i]] /\ DOMAIN r = Nat /\ DOMAIN e = Nat
    OBVIOUS
  <2> HIDE DEF r, e, body
  <2> QED BY <2>1, <2>2, <2>3
<1>11. restore = body(restore)
  <2> HIDE DEF r, body
  <2> QED BY <1>10
<1> HIDE DEF restore
<1>12. \A i \in Nat : restore[i] = IF i > m THEN 1..m
                                   ELSE IF RecordBytes(record, reds, restore[i + 1] \ {i}) <= Budget THEN restore[i + 1] \ {i}
                                   ELSE restore[i + 1]
  <2> DEFINE e == body(restore)
  <2>1. \A i \in Nat : e[i] = IF i > m THEN 1..m
                              ELSE IF RecordBytes(record, reds, restore[i + 1] \ {i}) <= Budget THEN restore[i + 1] \ {i}
                              ELSE restore[i + 1]
    OBVIOUS
  <2> HIDE DEF body
  <2> QED BY <1>11, <2>1
<1> DEFINE J(i) == Restoring(record, reds, m, i, restore[i])
           T == {n \in Nat : n <= N => J(N - n)}
<1>13. 0 \in T
  <2>1. N - 0 = N /\ N \in Nat /\ N > m
    BY <1>3
  <2>2. restore[N] = 1..m
    BY <1>12, <2>1
  <2>3. \A j \in 1..m : ~(j >= N)
    BY <1>3
  <2>4. Restoring(record, reds, m, N, 1..m)
    BY <1>3, <2>3 DEF Restoring
  <2> QED BY <2>1, <2>2, <2>4
<1>14. ASSUME NEW n \in T
       PROVE  n + 1 \in T
  <2> SUFFICES ASSUME n + 1 <= N
               PROVE  J(N - (n + 1))
    OBVIOUS
  <2> DEFINE i == N - (n + 1)
  <2>1. n \in Nat /\ n <= N /\ i \in Nat /\ i <= m /\ i + 1 = N - n
    BY <1>3
  <2>2. J(N - n)
    BY <2>1
  <2> HIDE DEF i
  <2>3. Restoring(record, reds, m, i + 1, restore[i + 1])
    BY <2>1, <2>2
  <2>4. ~(i > m)
    BY <1>3, <2>1
  <2>5. restore[i] = IF FitsWith(record, reds, restore[i + 1] \ {i}) THEN restore[i + 1] \ {i} ELSE restore[i + 1]
    BY <1>12, <2>1, <2>4 DEF FitsWith
  <2>6. J(i)
    BY <1>3, <2>1, <2>3, <2>5, RestoringStep
  <2> QED BY <2>6 DEF i
<1>15. m \in T
  <2> HIDE DEF T
  <2>1. T \in SUBSET Nat
    BY DEF T
  <2> QED BY <1>3, <1>13, <1>14, <2>1, NumbersFollow
<1>16. Restoring(record, reds, m, 1, restore[1])
  <2>1. N - m = 1 /\ m <= N
    BY <1>3
  <2> QED BY <1>15, <2>1
<1>17. \A B \in SUBSET (1..m) : B \in SUBSET DOMAIN reds
  BY <1>3
<1>18. \A j \in restore[1] : j >= 1
  BY <1>16 DEF Restoring
<1> QED BY <1>16, <1>17, <1>18 DEF Restoring, Needed

LEMMA NoneComesBack ==
  ASSUME BudgetAssumption, NEW record, Reducible(record), NEW reds, Suit(reds, record), Shrinking(record, reds),
         NEW A, Needed(record, reds, A)
  PROVE  \A j \in A : ~FitsWith(record, reds, A \ {j})
<1> TAKE j \in A
<1>1. PICK B \in SUBSET DOMAIN reds : A \subseteq B /\ ~FitsWith(record, reds, B \ {j})
  BY DEF Needed
<1> DEFINE a == A \ {j}
           b == B \ {j}
<1>2. a \in SUBSET DOMAIN reds /\ b \in SUBSET DOMAIN reds /\ a \in SUBSET b
  BY <1>1 DEF Needed
<1>3. ~(RecordBytes(record, reds, b) <= Budget)
  BY <1>1 DEF FitsWith
<1> HIDE DEF a, b
<1>4. Bytes(record, reds, b) <= Bytes(record, reds, a)
  BY <1>2, BytesFall
<1>5. RecordBytes(record, reds, a) = Bytes(record, reds, a) /\ RecordBytes(record, reds, b) = Bytes(record, reds, b)
  BY <1>2, RecordBytesAre
<1>6. Bytes(record, reds, a) \in Int /\ Bytes(record, reds, b) \in Int /\ Budget \in Int
  BY <1>2, UndoneBytes DEF BudgetAssumption
<1>7. ~(RecordBytes(record, reds, a) <= Budget)
  BY <1>3, <1>4, <1>5, <1>6
<1> QED BY <1>7 DEF FitsWith, a

\* The bytes with these reductions, by what they name.
NamedBytes(record, R) ==
  Envelope + Footer + FieldName * Cardinality(R)
    + SumOn([f \in DOMAIN record |-> IF \E r \in R : r.field = f THEN (CHOOSE r \in R : r.field = f).to ELSE record[f]],
            DOMAIN record)

LEMMA NamesCount ==
  ASSUME NEW record, Reducible(record), NEW reds, Suit(reds, record), NEW A \in SUBSET DOMAIN reds
  PROVE  NamedBytes(record, {reds[i] : i \in A}) = Bytes(record, reds, A)
<1> DEFINE R == {reds[i] : i \in A}
           g == [i \in A |-> reds[i]]
           M == [f \in DOMAIN record |-> IF \E r \in R : r.field = f THEN (CHOOSE r \in R : r.field = f).to ELSE record[f]]
           L == Left(record, reds, A)
<1>1. IsFiniteSet(A)
  <2>1. IsFiniteSet(DOMAIN reds)
    BY FS_Interval DEF Suit
  <2> QED BY <2>1, FS_Subset
<1>2. \A i, j \in A : reds[i] = reds[j] => i = j
  BY DEF Suit
<1>3. Cardinality(R) = Cardinality(A)
  <2>1. g \in Surjection(A, R)
    BY DEF Surjection
  <2>2. g \in Injection(A, R)
    BY <1>2 DEF Injection, IsInjective
  <2> HIDE DEF g, R
  <2> QED BY <1>1, <2>1, <2>2, FS_Surjection
<1>4. ASSUME NEW f \in DOMAIN record
      PROVE  M[f] = L[f]
  <2>1. CASE \E i \in A : reds[i].field = f
    <3>1. PICK i \in A : reds[i].field = f
      BY <2>1
    <3>2. reds[i] \in R
      OBVIOUS
    <3>3. \A r \in R : r.field = f => r = reds[i]
      <4> SUFFICES ASSUME NEW j \in A, reds[j].field = f
                   PROVE  reds[j] = reds[i]
        OBVIOUS
      <4>1. j = i
        BY <3>1 DEF Suit
      <4> QED BY <4>1
    <3> DEFINE r == CHOOSE r \in R : r.field = f
    <3>4. r \in R /\ r.field = f
      BY <3>1, <3>2
    <3>5. M[f] = r.to
      BY <3>1, <3>2
    <3>6. L[f] = reds[i].to
      BY <3>1, LeftIs
    <3>7. r = reds[i]
      <4> HIDE DEF r
      <4> QED BY <3>3, <3>4
    <3> HIDE DEF r, M, L
    <3> QED BY <3>5, <3>6, <3>7
  <2>2. CASE \A i \in A : reds[i].field # f
    <3>1. ~ \E r \in R : r.field = f
      BY <2>2
    <3>2. M[f] = record[f]
      BY <3>1
    <3>3. L[f] = record[f]
      BY <2>2, LeftIs
    <3> QED BY <3>2, <3>3
  <2> QED BY <2>1, <2>2
<1>5. SumOn(L, DOMAIN record) = SumOn(M, DOMAIN record)
  <2>1. IsFiniteSet(DOMAIN record) /\ \A f \in DOMAIN record : L[f] \in Int /\ M[f] = L[f]
    BY <1>4, LeftIs DEF Reducible
  <2> HIDE DEF L, M
  <2> QED BY <2>1, SumOfSame
<1>6. NamedBytes(record, R) = Envelope + Footer + FieldName * Cardinality(R) + SumOn(M, DOMAIN record)
  BY DEF NamedBytes
<1>7. Bytes(record, reds, A) = Envelope + Footer + FieldName * Cardinality(A) + SumOn(L, DOMAIN record)
  BY DEF Bytes
<1>8. NamedBytes(record, R) = Bytes(record, reds, A)
  <2> HIDE DEF R, L, M
  <2> QED BY <1>3, <1>5, <1>6, <1>7
<1> QED BY <1>8

LEMMA ShrinkingReductions ==
  ASSUME NEW record, Reducible(record), NEW given \in Seq(Reduction), NEW identity, NEW reds,
         reds = Reductions(record, given, identity), Shrink(record, given)
  PROVE  Shrinking(record, reds)
<1>1. /\ Suit(reds, record)
      /\ \A i \in DOMAIN reds : \/ \E g \in DOMAIN given : given[g] = reds[i]
                                \/ reds[i].field \notin identity /\ reds[i].to = 0
  BY ReductionsSuit
<1> SUFFICES ASSUME NEW i \in DOMAIN reds
             PROVE  reds[i].to + FieldName <= record[reds[i].field]
  BY DEF Shrinking
<1> DEFINE f == reds[i].field
<1>2. f \in DOMAIN record
  BY <1>1 DEF Suit
<1>3. FieldName <= record[f] /\ \A g \in DOMAIN given : given[g].field = f => given[g].to + FieldName <= record[f]
  BY <1>2 DEF Shrink
<1>4. CASE \E g \in DOMAIN given : given[g] = reds[i]
  BY <1>3, <1>4
<1>5. CASE reds[i].to = 0
  <2>1. FieldName \in Nat
    BY BudgetAssumption DEF BudgetAssumption
  <2>2. 0 + FieldName = FieldName
    BY <2>1
  <2> QED BY <1>3, <1>5, <2>2
<1> QED BY <1>1, <1>4, <1>5

\* Whatever the fields of a record, the reductions given and what identifies it: a reduced record fits, keeps
\* what identifies it, and, if every reduction shrinks it, no field can be put back alone (mcpJsonRecord undoes
\* its reductions in reverse, once).
THEOREM NoFieldIsEverOmittedInVain ==
  ASSUME NEW record, Reducible(record), NEW given \in Seq(Reduction), NEW identity
  PROVE  NoFieldIsOmittedInVain(record, given, identity)
<1> DEFINE answer == McpRecord(record, given, identity)
           reds == Reductions(record, given, identity)
           A == Applied(record, reds)
           R == {reds[i] : i \in A}
<1>1. /\ Suit(reds, record)
      /\ \A i \in DOMAIN reds : \/ \E g \in DOMAIN given : given[g] = reds[i]
                                \/ reds[i].field \notin identity /\ reds[i].to = 0
  BY ReductionsSuit
<1>2. CASE answer.form = "part"
  <2>1. A # {} /\ answer.applied = R
    <3> DEFINE full == [form |-> "full", applied |-> {}]
               part == [form |-> "part", applied |-> R]
               text == [form |-> "text", applied |-> {}]
    <3>1. answer = IF Envelope + SumFunction(record) <= Budget THEN full ELSE IF A # {} THEN part ELSE text
      BY DEF McpRecord
    <3>2. full.form = "full" /\ part.form = "part" /\ text.form = "text" /\ part.applied = R
      OBVIOUS
    <3> HIDE DEF full, part, text, R, A, answer
    <3> QED BY <1>2, <3>1, <3>2
  <2> HIDE DEF answer
  <2>2. Needed(record, reds, A)
    BY <1>1, <2>1, AppliedAreNeeded
  <2> HIDE DEF A, reds
  <2>3. A \in SUBSET DOMAIN reds /\ FitsWith(record, reds, A)
    BY <2>2 DEF Needed
  <2>4. NamedBytes(record, R) <= Budget
    BY <1>1, <2>3, NamesCount, RecordBytesAre DEF FitsWith
  <2>5. \A r \in R : r.field \in DOMAIN record
    BY <1>1, <2>3 DEF Suit
  <2>6. \A r \in R : \A q \in R : r.field = q.field => r = q
    <3> SUFFICES ASSUME NEW i \in A, NEW j \in A, reds[i].field = reds[j].field
                 PROVE  reds[i] = reds[j]
      OBVIOUS
    <3>1. i = j
      BY <1>1, <2>3 DEF Suit
    <3> QED BY <3>1
  <2>7. ASSUME Shrink(record, given), NEW r \in R
        PROVE  NamedBytes(record, R \ {r}) > Budget
    <3>1. PICK j \in A : r = reds[j]
      OBVIOUS
    <3> DEFINE B == A \ {j}
    <3>2. R \ {r} = {reds[i] : i \in B}
      BY <1>1, <2>3, <3>1 DEF Suit
    <3>3. B \in SUBSET DOMAIN reds
      BY <2>3
    <3>4. Shrinking(record, reds)
      BY <2>7, ShrinkingReductions DEF reds
    <3>5. ~FitsWith(record, reds, B)
      BY <1>1, <2>2, <3>4, NoneComesBack, BudgetAssumption
    <3> HIDE DEF B, R
    <3>6. NamedBytes(record, R \ {r}) = Bytes(record, reds, B)
      BY <1>1, <3>2, <3>3, NamesCount
    <3>7. ~(Bytes(record, reds, B) <= Budget)
      BY <1>1, <3>3, <3>5, RecordBytesAre DEF FitsWith
    <3>8. Bytes(record, reds, B) \in Int /\ Budget \in Int
      BY <1>1, <3>3, UndoneBytes, BudgetAssumption DEF BudgetAssumption
    <3> QED BY <3>6, <3>7, <3>8
  <2>8. \A r \in R : r.field \in identity => \E i \in DOMAIN given : given[i] = r
    BY <1>1, <2>3
  <2> HIDE DEF R
  <2> QED BY <2>1, <2>4, <2>5, <2>6, <2>7, <2>8
          DEF NoFieldIsOmittedInVain, NamedBytes, SumFunction, SumOn, answer
<1>3. CASE answer.form # "part"
  BY <1>3 DEF NoFieldIsOmittedInVain
<1> QED BY <1>2, <1>3

-----------------------------------------------------------------------------
(* The answers that are asked for.                                         *)

LEMMA UpToIsSequences ==
  ASSUME NEW S, NEW n \in Nat, NEW s \in UpTo(S, n)
  PROVE  s \in Seq(S)
<1>1. PICK k \in 0..n : s \in [1..k -> S]
  BY DEF UpTo
<1> QED BY <1>1

LEMMA FewNumbers == IsFiniteSet(1..2) /\ 1..2 \in SUBSET Int /\ IsFiniteSet(1..3) /\ 1..3 \in SUBSET Int
<1>1. IsFiniteSet(1..2)
  <2>1. 1 \in Int /\ 2 \in Int
    OBVIOUS
  <2> QED BY <2>1, FS_Interval
<1>2. IsFiniteSet(1..3)
  <2>1. 1 \in Int /\ 3 \in Int
    OBVIOUS
  <2> QED BY <2>1, FS_Interval
<1>3. 1..2 \in SUBSET Int /\ 1..3 \in SUBSET Int
  OBVIOUS
<1> QED BY <1>1, <1>2, <1>3

LEMMA TextAsked ==
  ASSUME AskText
  PROVE  call'.fn = "text" /\ TextIsLongestThatFits(call'.text)
<1>1. PICK text \in UpTo(Unit, 6) : call' = [fn |-> "text", text |-> text]
  BY DEF AskText
<1>2. text \in Seq(Unit)
  BY UpToIsSequences
<1>3. TextIsLongestThatFits(text)
  BY <1>2, CutsAreLongest
<1> QED BY <1>1, <1>3

LEMMA RecordsAsked ==
  ASSUME AskRecords
  PROVE  call'.fn = "records" /\ EveryRecordIsAccountedFor(call'.records)
<1> DEFINE S == [body : {1, 5, 9}, id : {1, 8}]
<1>1. PICK records \in UpTo(S, 4) : call' = [fn |-> "records", records |-> records]
  BY DEF AskRecords
<1>2. S \subseteq Row
  BY DEF Row
<1>3. records \in Seq(Row)
  <2> HIDE DEF S
  <2>1. records \in Seq(S)
    BY UpToIsSequences
  <2> QED BY <1>2, <2>1
<1>4. EveryRecordIsAccountedFor(records)
  BY <1>3, RecordsAreAccountedFor
<1> QED BY <1>1, <1>4

LEMMA RecordAsked ==
  ASSUME AskRecord
  PROVE  call'.fn = "record" /\ NoFieldIsOmittedInVain(call'.record, call'.given, call'.identity)
<1> DEFINE S == [field : 1..4, to : {0, 2}]
<1>1. PICK record \in [1..3 -> {1, 3, 6, 12}], given \in UpTo(S, 2), identity \in {{}, {1}} :
        call' = [fn |-> "record", record |-> record, given |-> given, identity |-> identity]
  BY DEF AskRecord
<1>2. S \subseteq Reduction
  BY DEF Reduction
<1>3. given \in Seq(Reduction)
  <2> HIDE DEF S
  <2>1. given \in Seq(S)
    BY UpToIsSequences
  <2> QED BY <1>2, <2>1
<1>4. Reducible(record)
  <2>1. DOMAIN record = 1..3 /\ \A f \in 1..3 : record[f] \in Int
    OBVIOUS
  <2>2. IsFiniteSet(1..3) /\ 1..3 \in SUBSET Int
    BY FewNumbers
  <2> QED BY <2>1, <2>2 DEF Reducible
<1>5. NoFieldIsOmittedInVain(record, given, identity)
  BY <1>3, <1>4, NoFieldIsEverOmittedInVain
<1> HIDE DEF S
<1> QED BY <1>1, <1>5

\* A search of thoughts keeps its promises.
Searched(rows, q) ==
  /\ RanksAreRespected(rows, q) /\ TextWinsTies(rows, q) /\ SearchAgreesWithList(rows, q)
  /\ FiltersCompose(rows, q.filter)

LEMMA ThoughtsSearched ==
  ASSUME NEW rows, ThoughtRows(rows), NEW filter, NEW threshold \in Int, NEW limit \in Nat
  PROVE  Searched(rows, [filter |-> filter, threshold |-> threshold, limit |-> limit])
<1> DEFINE q == [filter |-> filter, threshold |-> threshold, limit |-> limit]
           F == {filter}
<1>1. q \in [filter : F, threshold : Int, limit : Nat]
  OBVIOUS
<1> HIDE DEF q, F
<1>2. RanksAreRespected(rows, q)
  BY <1>1, RanksAreAlwaysRespected
<1>3. TextWinsTies(rows, q)
  BY <1>1, TextAlwaysWinsTies
<1>4. SearchAgreesWithList(rows, q)
  BY <1>1, SearchAgreesAlways
<1>5. FiltersCompose(rows, q.filter)
  BY FiltersAlwaysCompose
<1> QED BY <1>2, <1>3, <1>4, <1>5 DEF Searched, q

LEMMA SearchAsked ==
  ASSUME AskSearch
  PROVE  call'.fn = "search" /\ Searched(call'.rows, call'.q)
<1>1. PICK hit \in [1..3 -> Hit], limit \in 1..3 :
        call' = [fn |-> "search", rows |-> [id \in 1..3 |-> Thought(id, TRUE, FALSE, "good", hit[id])],
                 q |-> [filter |-> ThoughtFilter, threshold |-> 2, limit |-> limit]]
  BY DEF AskSearch
<1> DEFINE rows == [id \in 1..3 |-> Thought(id, TRUE, FALSE, "good", hit[id])]
           q == [filter |-> ThoughtFilter, threshold |-> 2, limit |-> limit]
<1>2. \A h \in Hit : h[1] \in Int /\ h[3] \in Int
  BY DEF Hit
<1>3. \A id \in 1..3 : hit[id][1] \in Int /\ hit[id][3] \in Int
  BY <1>2
<1>4. ThoughtRows(rows)
  <2>1. DOMAIN rows = 1..3 /\ IsFiniteSet(1..3) /\ 1..3 \in SUBSET Int
    BY FewNumbers
  <2>2. \A id \in 1..3 : rows[id].similarity = hit[id][1] /\ rows[id].score = hit[id][3] /\ rows[id].created = id
    BY DEF Thought
  <2> HIDE DEF rows
  <2> QED BY <1>3, <2>1, <2>2 DEF ThoughtRows
<1>5. Searched(rows, q)
  <2>1. 2 \in Int /\ limit \in Nat
    OBVIOUS
  <2> HIDE DEF rows
  <2> QED BY <1>4, <2>1, ThoughtsSearched
<1>6. call'.fn = "search" /\ call'.rows = rows /\ call'.q = q
  <2>1. call' = [fn |-> "search", rows |-> rows, q |-> q]
    BY <1>1
  <2> HIDE DEF rows, q
  <2> QED BY <2>1
<1> QED BY <1>5, <1>6

LEMMA FilteredSearchAsked ==
  ASSUME AskFilteredSearch
  PROVE  call'.fn = "search" /\ Searched(call'.rows, call'.q)
<1> DEFINE Seen == {<<FALSE, FALSE, "good">>, <<TRUE, TRUE, "good">>, <<TRUE, FALSE, "none">>,
                    <<TRUE, FALSE, "good">>, <<TRUE, FALSE, "other">>, <<TRUE, FALSE, "excluded">>}
<1>1. PICK seen \in [1..3 -> Seen], hit \in {<<3, "none", 0>>, <<1, "text", 1>>}, limit \in 1..3 :
        call' = [fn |-> "search", rows |-> [id \in 1..3 |-> Thought(id, seen[id][1], seen[id][2], seen[id][3], hit)],
                 q |-> [filter |-> ThoughtFilter, threshold |-> 2, limit |-> limit]]
  BY DEF AskFilteredSearch
<1> DEFINE rows == [id \in 1..3 |-> Thought(id, seen[id][1], seen[id][2], seen[id][3], hit)]
           q == [filter |-> ThoughtFilter, threshold |-> 2, limit |-> limit]
<1> HIDE DEF Seen
<1>2. hit[1] \in Int /\ hit[3] \in Int
  OBVIOUS
<1>3. ThoughtRows(rows)
  <2>1. DOMAIN rows = 1..3 /\ IsFiniteSet(1..3) /\ 1..3 \in SUBSET Int
    BY FewNumbers
  <2>2. \A id \in 1..3 : rows[id].similarity = hit[1] /\ rows[id].score = hit[3] /\ rows[id].created = id
    BY DEF Thought
  <2> HIDE DEF rows
  <2> QED BY <1>2, <2>1, <2>2 DEF ThoughtRows
<1>4. Searched(rows, q)
  <2>1. 2 \in Int /\ limit \in Nat
    OBVIOUS
  <2> HIDE DEF rows
  <2> QED BY <1>3, <2>1, ThoughtsSearched
<1>5. call'.fn = "search" /\ call'.rows = rows /\ call'.q = q
  <2>1. call' = [fn |-> "search", rows |-> rows, q |-> q]
    BY <1>1
  <2> HIDE DEF rows, q
  <2> QED BY <2>1
<1> QED BY <1>4, <1>5

LEMMA SessionSearchAsked ==
  ASSUME AskSessionSearch
  PROVE  call'.fn = "session search" /\ NeverSilentlyShort(call'.rows, call'.scanned, call'.q)
<1>1. PICK rows \in [1..3 -> [visible : BOOLEAN, similarity : 1..3]], scanned \in SUBSET (1..3), limit \in 1..3,
           contract \in BOOLEAN :
        call' = [fn |-> "session search", rows |-> rows, scanned |-> scanned,
                 q |-> [limit |-> limit, threshold |-> 2, contract |-> contract]]
  BY DEF AskSessionSearch
<1> DEFINE q == [limit |-> limit, threshold |-> 2, contract |-> contract]
<1>2. SessionRows(rows)
  <2>1. DOMAIN rows = 1..3 /\ IsFiniteSet(1..3) /\ 1..3 \in SUBSET Int
    BY FewNumbers
  <2>2. \A id \in 1..3 : rows[id].similarity \in Int
    OBVIOUS
  <2> QED BY <2>1, <2>2 DEF SessionRows
<1>3. q \in [limit : Nat, threshold : Int, contract : BOOLEAN]
  OBVIOUS
<1>4. call'.fn = "session search" /\ call'.rows = rows /\ call'.scanned = scanned /\ call'.q = q
  <2>1. call' = [fn |-> "session search", rows |-> rows, scanned |-> scanned, q |-> q]
    BY <1>1
  <2> HIDE DEF q
  <2> QED BY <2>1
<1> HIDE DEF q
<1>5. NeverSilentlyShort(rows, scanned, q)
  BY <1>2, <1>3, SearchIsNeverSilentlyShort
<1> QED BY <1>4, <1>5

LEMMA ListAsked ==
  ASSUME AskList
  PROVE  call'.fn = "list" /\ ListsAgree(call'.rows, call'.q)
<1>1. PICK rows \in [1..3 -> SessionRow], bounds \in {<<0, 0>>, <<2, 0>>, <<0, 2>>}, branch \in {0, 1} :
        call' = [fn |-> "list", rows |-> rows, q |-> [branch |-> branch, orderBy |-> "last_update", since |-> bounds[1],
                                                      until |-> bounds[2], limit |-> 0]]
  BY DEF AskList
<1> DEFINE q == [branch |-> branch, orderBy |-> "last_update", since |-> bounds[1], until |-> bounds[2], limit |-> 0]
           B == {0, 1}
           O == {"last_update"}
<1>2. ListRows(rows)
  <2>1. DOMAIN rows = 1..3 /\ IsFiniteSet(1..3) /\ 1..3 \in SUBSET Int
    BY FewNumbers
  <2>2. \A row \in SessionRow : /\ row.authored \in Int /\ row.updated \in Int /\ row.started \in Int
                                /\ row.created \in Int /\ row.title \in Int
    BY DEF SessionRow
  <2>3. \A id \in 1..3 : rows[id] \in SessionRow
    OBVIOUS
  <2> QED BY <2>1, <2>2, <2>3 DEF ListRows
<1>3. q \in ListRequest(B, O)
  <2>1. bounds[1] \in Int /\ bounds[2] \in Int
    OBVIOUS
  <2> QED BY <2>1 DEF ListRequest
<1>4. call'.fn = "list" /\ call'.rows = rows /\ call'.q = q
  <2>1. call' = [fn |-> "list", rows |-> rows, q |-> q]
    BY <1>1
  <2> HIDE DEF q
  <2> QED BY <2>1
<1> HIDE DEF q, B, O
<1>5. ListsAgree(rows, q)
  BY <1>2, <1>3, ListsAlwaysAgree
<1> QED BY <1>4, <1>5

LEMMA OrderAsked ==
  ASSUME AskOrder
  PROVE  call'.fn = "list" /\ ListsAgree(call'.rows, call'.q)
<1> DEFINE O == {"started_at", "created_at", "title", "anything"}
           B == {1}
<1>1. PICK rows \in [1..2 -> OtherRow], orderBy \in O, limit \in 0..4 :
        call' = [fn |-> "list", rows |-> rows, q |-> [branch |-> 1, orderBy |-> orderBy, since |-> 0, until |-> 0,
                                                      limit |-> limit]]
  BY DEF AskOrder
<1> DEFINE q == [branch |-> 1, orderBy |-> orderBy, since |-> 0, until |-> 0, limit |-> limit]
<1>2. ListRows(rows)
  <2>1. DOMAIN rows = 1..2 /\ IsFiniteSet(1..2) /\ 1..2 \in SUBSET Int
    BY FewNumbers
  <2>2. \A row \in OtherRow : /\ row.authored \in Int /\ row.updated \in Int /\ row.started \in Int
                              /\ row.created \in Int /\ row.title \in Int
    BY DEF OtherRow
  <2>3. \A id \in 1..2 : rows[id] \in OtherRow
    OBVIOUS
  <2> QED BY <2>1, <2>2, <2>3 DEF ListRows
<1> HIDE DEF O
<1>3. q \in ListRequest(B, O)
  BY DEF ListRequest
<1>4. call'.fn = "list" /\ call'.rows = rows /\ call'.q = q
  <2>1. call' = [fn |-> "list", rows |-> rows, q |-> q]
    BY <1>1
  <2> HIDE DEF q
  <2> QED BY <2>1
<1> HIDE DEF q, B
<1>5. ListsAgree(rows, q)
  BY <1>2, <1>3, ListsAlwaysAgree
<1> QED BY <1>4, <1>5

LEMMA AnswersStep == AnswersAreFaithful /\ [Next]_vars => AnswersAreFaithful'
<1> SUFFICES ASSUME AnswersAreFaithful, [Next]_vars
             PROVE  AnswersAreFaithful'
  OBVIOUS
<1>1. CASE UNCHANGED call
  BY <1>1 DEF AnswersAreFaithful
<1>2. CASE call'.fn \notin AnswerCalls
  BY <1>2 DEF AnswersAreFaithful, AnswerCalls
<1>3. CASE AskText
  BY <1>3, TextAsked DEF AnswersAreFaithful
<1>4. CASE AskRecords
  BY <1>4, RecordsAsked DEF AnswersAreFaithful
<1>5. CASE AskRecord
  BY <1>5, RecordAsked DEF AnswersAreFaithful
<1>6. CASE AskSearch \/ AskFilteredSearch
  BY <1>6, SearchAsked, FilteredSearchAsked DEF AnswersAreFaithful, Searched
<1>7. CASE AskSessionSearch
  BY <1>7, SessionSearchAsked DEF AnswersAreFaithful
<1>8. CASE AskList \/ AskOrder
  BY <1>8, ListAsked, OrderAsked DEF AnswersAreFaithful
<1>9. (UNCHANGED vars => UNCHANGED call) /\ (ReadOn => UNCHANGED call) /\ (Begin => call'.fn \notin AnswerCalls)
  <2>1. UNCHANGED vars => UNCHANGED call
    BY DEF vars
  <2>2. ReadOn => UNCHANGED call
    BY DEF ReadOn
  <2>3. Begin => call'.fn \notin AnswerCalls
    BY DEF Begin, AnswerCalls
  <2> QED BY <2>1, <2>2, <2>3
<1>10. AskFields \/ AskArtifacts \/ AskInstant \/ AskSources => call'.fn \notin AnswerCalls
  BY FieldsAsked, ArtifactsAsked, InstantAsked, SourcesAsked DEF AnswerCalls
<1>11. AskBoth \/ AskTogether \/ AskRest \/ AskRecovery \/ AskMove => call'.fn \notin AnswerCalls
  BY BothAsked, TogetherAsked, RestAsked, RecoveryAsked, MoveAsked DEF AnswerCalls
<1>12. AskDoors \/ AskMetadata \/ AskNumber \/ AskClassifier \/ AskEmbedder => call'.fn \notin AnswerCalls
  BY DoorsAsked, MetadataAsked, NumberAsked, ClassifierAsked, EmbedderAsked DEF AnswerCalls
<1> QED BY <1>1, <1>2, <1>3, <1>4, <1>5, <1>6, <1>7, <1>8, <1>9, <1>10, <1>11, <1>12 DEF Next

\* An answer is cut where it must be and nowhere else and says what it left out (mcp_result.ts), and a search
\* finds what the lists of the same audience show, in the order of both legs, and is not silently short
\* (queries.ts, session_queries.ts).
THEOREM AnswersKept == Spec => []AnswersAreFaithful
<1>1. Init => AnswersAreFaithful
  BY DEF Init, AnswersAreFaithful
<1> QED BY <1>1, AnswersStep, PTL DEF Spec
=============================================================================
