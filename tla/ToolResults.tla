---------------------------- MODULE ToolResults ----------------------------
(***************************************************************************)
(* How an MCP tool's answer is cut to one byte budget: whole records first *)
(* and then an account of those left out, or whole fields of one record,   *)
(* or as a last resort the tail of the text.  Sizes are in bytes of the    *)
(* serialised answer; the fixed parts of an answer are small constants.    *)
(***************************************************************************)
EXTENDS Integers, Sequences, FiniteSetsExt, Functions, Orders

CONSTANTS
  Budget,      \* of a serialised result
  Envelope,    \* the result around its text
  Heading,     \* a heading or the brackets around the records
  Separator,   \* between two sections or two records
  Footer,      \* the account of what was omitted, with its recovery text
  Opening,     \* the part of the account before its ids
  FieldName    \* one entry of the list of omitted fields

ASSUME BudgetAssumption ==
  /\ {Budget, Envelope, Heading, Separator, Footer, FieldName} \subseteq Nat
  /\ Opening \in 1..Footer

-----------------------------------------------------------------------------
(* Text.  A text is a sequence of UTF-16 code units: plain characters and  *)
(* the two halves of a surrogate pair.                                     *)

Unit == {"plain", "high", "low"}

Paired(text, i) == i \in 1..(Len(text) - 1) /\ text[i] = "high" /\ text[i + 1] = "low"

\* A pair takes four bytes, a half on its own the six of its escape.
UnitBytes(text, i) ==
  IF Paired(text, i) THEN 4
  ELSE IF Paired(text, i - 1) THEN 0
  ELSE IF text[i] = "plain" THEN 1 ELSE 6

TextBytes(text) == SumFunction([i \in DOMAIN text |-> UnitBytes(text, i)])

SafePrefixEnd(text, end) == IF Paired(text, end) THEN end - 1 ELSE end

\* What is sent for the first end units: without any of them the footer alone.
CutBytes(text, end) ==
  Envelope + Footer
    + (IF end = 0 THEN 0 ELSE TextBytes(SubSeq(text, 1, end)) + Separator)

\* One round of the binary search of mcpText, which ends when low has passed high.
Probed(text, search) ==
  LET mid == (search.low + search.high) \div 2
      end == SafePrefixEnd(text, mid)
  IN  IF search.low > search.high THEN search
      ELSE IF CutBytes(text, end) <= Budget THEN [search EXCEPT !.low = mid + 1, !.best = end]
      ELSE [search EXCEPT !.high = mid - 1]

\* Its result: -1 if not even the footer fits.  A round leaves out at least one length.
TextCut(text) ==
  LET most == IF Len(text) < Budget THEN Len(text) ELSE Budget
      search[n \in 0..(Len(text) + 1)] ==
        IF n = 0 THEN [low |-> 0, high |-> most, best |-> -1] ELSE Probed(text, search[n - 1])
  IN  search[Len(text) + 1].best

McpText(text) ==
  IF Envelope + TextBytes(text) <= Budget THEN [form |-> "full", end |-> Len(text)]
  ELSE IF TextCut(text) >= 0 THEN [form |-> "cut", end |-> TextCut(text)]
  ELSE [form |-> "notice", end |-> 0]

-----------------------------------------------------------------------------
(* Collections.  A record has the bytes of its rendering and of its id.    *)

\* The byte totals are running sums, so that each record is serialised once.
PrefixBytes(records) ==
  LET sum[i \in 0..Len(records)] ==
        IF i = 0 THEN 0 ELSE sum[i - 1] + (IF i > 1 THEN Separator ELSE 0) + records[i].body
  IN  sum

SuffixBytes(records) ==
  LET sum[i \in 0..Len(records)] ==
        IF i = Len(records) THEN 0
        ELSE records[i + 1].id + (IF i + 1 < Len(records) THEN 1 + sum[i + 1] ELSE 0)
  IN  sum

FullBytes(records) ==
  Envelope + Heading + (IF records = <<>> THEN 0 ELSE Separator + PrefixBytes(records)[Len(records)])

CandidateBytes(records, included) ==
  Envelope + Heading
    + (IF included > 0 THEN Separator + PrefixBytes(records)[included] ELSE 0)
    + Separator + Footer + SuffixBytes(records)[included]

\* The whole range is scanned: a longer prefix has fewer omitted ids, and may fit again.
BestIncluded(records) ==
  LET fitting == {n \in 0..(Len(records) - 1) : CandidateBytes(records, n) <= Budget}
  IN  IF fitting = {} THEN -1 ELSE Max(fitting)

\* If not even the account of all records fits beside a heading, it is sent alone, as a text like any other.
Account(records) == [i \in 1..(Footer + SuffixBytes(records)[0]) |-> "plain"]

\* The units of the account through its n-th id.
Through(records, n) ==
  IF n = 0 THEN 0 ELSE Opening + SumFunction([i \in 1..n |-> records[i].id]) + n - 1

\* The ids that are whole in what mcpText sends of it.
Named(records) == Max({n \in 0..Len(records) : Through(records, n) <= McpText(Account(records)).end})

McpCollection(records) ==
  IF FullBytes(records) <= Budget THEN [form |-> "full", returned |-> Len(records), omitted |-> <<>>]
  ELSE IF BestIncluded(records) >= 0
  THEN [form |-> "part", returned |-> BestIncluded(records),
        omitted |-> SubSeq(records, BestIncluded(records) + 1, Len(records))]
  ELSE [form |-> "text", returned |-> 0, omitted |-> SubSeq(records, 1, Named(records))]

-----------------------------------------------------------------------------
(* One record: a function from its fields 1, 2, .. in sorted order to      *)
(* their bytes.  A reduction leaves a field out (to = 0) or replaces it by *)
(* something of another size.                                              *)

\* The reductions that apply, in order: those of present fields, the first of each field, and then the
\* omission of every field left that does not identify the record.
Reductions(record, given, identity) ==
  LET first == {i \in DOMAIN given : /\ given[i].field \in DOMAIN record
                                     /\ \A j \in 1..(i - 1) : given[j].field # given[i].field}
      chosen == Ascending(first)
      rest == Ascending(DOMAIN record \ (identity \cup {given[i].field : i \in DOMAIN given}))
  IN  [i \in DOMAIN chosen |-> given[chosen[i]]] \o [i \in DOMAIN rest |-> [field |-> rest[i], to |-> 0]]

\* The bytes with the reductions of these indices applied, and the list that names their fields.
RecordBytes(record, reductions, applied) ==
  LET left(f) == LET by == {i \in applied : reductions[i].field = f}
                 IN  IF by = {} THEN record[f] ELSE reductions[Max(by)].to
  IN  Envelope + Footer + FieldName * Cardinality(applied) + SumFunction([f \in DOMAIN record |-> left(f)])

\* Reductions are applied one by one until the record fits, and undone in reverse where it still does.
Applied(record, reductions) ==
  LET fits(applied) == RecordBytes(record, reductions, applied) <= Budget
      enough == {k \in DOMAIN reductions : fits(1..k)}
      restore[i \in Nat] ==
        IF i > Min(enough) THEN 1..Min(enough)
        ELSE IF fits(restore[i + 1] \ {i}) THEN restore[i + 1] \ {i} ELSE restore[i + 1]
  IN  IF enough = {} THEN {} ELSE restore[1]

McpRecord(record, given, identity) ==
  LET reductions == Reductions(record, given, identity)
      applied == Applied(record, reductions)
  IN  IF Envelope + SumFunction(record) <= Budget
      THEN [form |-> "full", applied |-> {}]
      ELSE IF applied # {} THEN [form |-> "part", applied |-> {reductions[i] : i \in applied}]
      ELSE [form |-> "text", applied |-> {}]

-----------------------------------------------------------------------------
(* What may be expected of these answers. *)

\* A cut text fits, splits no surrogate pair, and no longer prefix would do.
TextIsLongestThatFits(text) ==
  LET ends == {end \in 0..Len(text) : ~Paired(text, end) /\ CutBytes(text, end) <= Budget}
  IN  CASE McpText(text).form = "full"   -> Envelope + TextBytes(text) <= Budget
        [] McpText(text).form = "cut"    -> McpText(text).end = Max(ends)
        [] McpText(text).form = "notice" -> ends = {}

\* The bytes of an answer with the first n records, counted one section at a time.
AnswerBytes(records, n) ==
  LET ids == SumFunction([i \in (n + 1)..Len(records) |-> records[i].id])
  IN  Envelope + Heading + SumFunction([i \in 1..n |-> Separator + records[i].body])
        + Separator + Footer + ids + (IF n < Len(records) THEN Len(records) - n - 1 ELSE 0)

\* The bytes of a last-resort text that ends with the n-th id.
NamingBytes(records, n) ==
  Envelope + Opening + SumFunction([i \in 1..n |-> records[i].id]) + (n - 1) + Separator + Footer

\* An answer is cut only if it must be.  A cut collection carries as many whole records as fit and names every
\* other one, in order; the last-resort text names those it can: all of them if the account fits, and
\* otherwise the first ones, as many as the cut text holds.
EveryRecordIsAccountedFor(records) ==
  LET answer == McpCollection(records)
      left == Len(answer.omitted)
  IN  /\ answer.form # "text" => answer.returned + left = Len(records)
      /\ answer.form # "full" => /\ answer.omitted = SubSeq(records, answer.returned + 1, answer.returned + left)
                                /\ \A n \in (answer.returned + 1)..(Len(records) - 1) : AnswerBytes(records, n) > Budget
      /\ answer.form = "part" => AnswerBytes(records, answer.returned) <= Budget
      /\ answer.form = "text" =>
           /\ AnswerBytes(records, 0) > Budget
           /\ IF AnswerBytes(records, 0) - Heading - Separator <= Budget THEN left = Len(records)
              ELSE /\ left > 0 => NamingBytes(records, left) <= Budget
                   /\ left < Len(records) => NamingBytes(records, left + 1) > Budget

\* Every reduction makes the record smaller, the entry that names its field included.
Shrink(record, given) ==
  \A f \in DOMAIN record :
    FieldName <= record[f] /\ \A i \in DOMAIN given : given[i].field = f => given[i].to + FieldName <= record[f]

\* A reduced record fits and keeps what identifies it; each field named as omitted was really reduced;
\* and if every reduction shrinks the record, putting any single field back would not fit.
NoFieldIsOmittedInVain(record, given, identity) ==
  LET answer == McpRecord(record, given, identity)
      left(applied, f) ==
        IF \E r \in applied : r.field = f THEN (CHOOSE r \in applied : r.field = f).to ELSE record[f]
      bytes(applied) == Envelope + Footer + FieldName * Cardinality(applied)
        + SumFunction([f \in DOMAIN record |-> left(applied, f)])
  IN  answer.form = "part" =>
        /\ bytes(answer.applied) <= Budget
        /\ \A r \in answer.applied : r.field \in DOMAIN record
        /\ \A r \in answer.applied : \A q \in answer.applied : r.field = q.field => r = q
        /\ Shrink(record, given) => \A r \in answer.applied : bytes(answer.applied \ {r}) > Budget
        /\ \A r \in answer.applied :
             r.field \in identity => \E i \in DOMAIN given : given[i] = r
=============================================================================
