---------------------------- MODULE UpgradeProofs ----------------------------
(***************************************************************************)
(* Proofs about SchemaUpgrade, for any number of replays, outages,         *)
(* abandoned windows and drifted grants: a server serves only on a whole   *)
(* catalogue, and every migration can be replayed on what is stored.       *)
(***************************************************************************)
EXTENDS SchemaUpgrade, TLAPS

Indexes == {"text", "audience", "live"}
Kinds == {"none", "two", "three", "five"}

Catalogues ==
  [facts : SUBSET Facts, index : Indexes, kinds : Kinds,
   helper : [Helpers -> {"absent", "plain", "filtered"}]]

Servers == {"stopped", "exited", "probing", "hung", "embedding", "serving"}

\* What the migrations themselves guarantee of one another.
Sound(c) ==
  /\ "revisions" \in c.facts => c.helper["move"] # "absent"
  /\ c.helper["move"] = "filtered" => "revisions" \in c.facts

\* What an operator may be applying beside a server that runs, and what a refusal may name.
Beside == {<<>>, <<"05">>, <<"06">>, <<"15">>, <<"07">>, <<"08", "14">>, <<"14">>, <<"02">>, <<"role", "12">>, <<"12">>,
           <<"10">>, <<"11">>, <<"17">>, <<"13">>, <<"workspace">>}
Advices == (Beside \ {<<"12">>}) \cup {<<"15", "backfill">>}
Lates == {<<>>, <<"02">>, <<"role", "12">>, <<"10">>, <<"11">>}

TypeOK ==
  /\ catalogue \in Catalogues
  /\ stored \subseteq {"metadata revision", "forget revision", "recaptured text"}
  /\ activated \in BOOLEAN /\ keys \in BOOLEAN
  /\ server \in Servers /\ query \in 0..7 /\ late \in Lates /\ advice \in Advices
  /\ server = "stopped" => advice = <<>>
  /\ server # "stopped" => todo \in Beside

\* A migration that would undo another is asked for only while a gate in its way is shut.
Due(steps, c) ==
  /\ steps = <<"06">> => ~SpacesSchema(c)
  /\ steps = <<"15">> => ~PassageSearchSchema(c)
  /\ steps = <<"08", "14">> => ~NativeAccessTokenSchema(c)
  /\ steps = <<"17">> => "revisions" \in c.facts

MoveUnfiltered(c) == c.helper["move"] # "filtered"

Pending ==
  server # "stopped" =>
    /\ Due(todo, catalogue) /\ Due(advice, catalogue)
    /\ todo = <<"10">> => MoveUnfiltered(catalogue)
    /\ advice = <<"10">> => "revisions" \notin catalogue.facts \/ (MoveUnfiltered(catalogue) /\ todo = <<>>)
    /\ late = <<"10">> => "revisions" \notin catalogue.facts \/ (MoveUnfiltered(catalogue) /\ todo = <<>> /\ advice = <<>>)

\* How far the probe has come; what it has passed is still so.
Reached == IF server \in {"embedding", "serving"} THEN 7 ELSE query

AllPass(checks, c) == \A i \in DOMAIN checks : Passes(checks[i].name, c)

Passed ==
  /\ server \in {"stopped", "exited", "embedding", "serving"} => query = 0 /\ late = <<>>
  /\ late # <<>> => query = 1
  /\ Reached >= 1 => AllPass(EarlyChecks, catalogue)
  /\ Reached >= 2 \/ (Reached = 1 /\ late = <<>>) => AllPass(LateChecks, catalogue)
  /\ \A i \in DOMAIN LaterQueries : Reached > i => Passes(LaterQueries[i].name, catalogue)
  /\ server = "serving" => activated

IInv == TypeOK /\ Sound(catalogue) /\ Fits(catalogue) /\ Pending /\ Passed
-----------------------------------------------------------------------------
(* What each migration makes of a catalogue. *)

LEMMA Adding ==
  ASSUME NEW c \in Catalogues, NEW some \in SUBSET Facts
  PROVE  \E d \in Catalogues : /\ d = With(c, some) /\ d.facts = c.facts \cup some
                               /\ d.index = c.index /\ d.kinds = c.kinds /\ d.helper = c.helper
<1>1. /\ With(c, some) \in Catalogues /\ With(c, some).facts = c.facts \cup some
      /\ With(c, some).index = c.index /\ With(c, some).kinds = c.kinds /\ With(c, some).helper = c.helper
  BY DEF Catalogues, With
<1> QED BY <1>1

LEMMA Removing ==
  ASSUME NEW c \in Catalogues, NEW some \in SUBSET Facts
  PROVE  \E d \in Catalogues : /\ d = Lacking(c, some) /\ d.facts = c.facts \ some
                               /\ d.index = c.index /\ d.kinds = c.kinds /\ d.helper = c.helper
<1>1. /\ Lacking(c, some) \in Catalogues /\ Lacking(c, some).facts = c.facts \ some
      /\ Lacking(c, some).index = c.index /\ Lacking(c, some).kinds = c.kinds /\ Lacking(c, some).helper = c.helper
  BY DEF Catalogues, Lacking
<1> QED BY <1>1

LEMMA Unfiltering ==
  ASSUME NEW c \in Catalogues, NEW h \in Helpers
  PROVE  \E d \in Catalogues : /\ d = Unfiltered(c, h) /\ d.facts = c.facts /\ d.index = c.index /\ d.kinds = c.kinds
                               /\ d.helper[h] = "plain" /\ \A g \in Helpers \ {h} : d.helper[g] = c.helper[g]
<1>1. /\ Unfiltered(c, h) \in Catalogues /\ Unfiltered(c, h).facts = c.facts
      /\ Unfiltered(c, h).index = c.index /\ Unfiltered(c, h).kinds = c.kinds
      /\ Unfiltered(c, h).helper[h] = "plain" /\ \A g \in Helpers \ {h} : Unfiltered(c, h).helper[g] = c.helper[g]
  BY DEF Catalogues, Unfiltered
<1> QED BY <1>1

\* The parts of a catalogue that the checks and the rows depend on only grow.
Grows(c, d) ==
  /\ c.facts \ {"old register"} \subseteq d.facts /\ ("old register" \in d.facts => "old register" \in c.facts)
  /\ c.index # "text" => d.index # "text"
  /\ c.index = "live" => d.index = "live"
  /\ c.kinds = "five" => d.kinds = "five"
  /\ \A h \in Helpers : c.helper[h] # "absent" => d.helper[h] # "absent"
  /\ \A h \in Helpers : c.helper[h] = "filtered" => d.helper[h] = "filtered"

\* What every migration keeps, whatever it undoes.
Keeps(c, d) ==
  /\ d \in Catalogues
  /\ c.facts \ {"principal readable", "old register"} \subseteq d.facts
  /\ c.index = "live" => d.index = "live"
  /\ c.kinds = "five" => d.kinds = "five"
  /\ c.kinds = "three" => d.kinds \in {"three", "five"}
  /\ "revisions" \in c.facts \/ d.helper["move"] # "filtered"

\* The three in one, for what a step makes of a catalogue.
Good(c, d) == Keeps(c, d) /\ Grows(c, d) /\ Sound(d)

LEMMA UnfilteringGrows ==
  ASSUME NEW c \in Catalogues, NEW d \in Catalogues, NEW h \in Helpers, c.helper[h] # "filtered",
         c.facts \ {"old register"} \subseteq d.facts, "old register" \in d.facts => "old register" \in c.facts,
         c.index # "text" => d.index # "text", c.index = "live" => d.index = "live", c.kinds = "five" => d.kinds = "five",
         d.helper[h] = "plain", \A g \in Helpers \ {h} : d.helper[g] = c.helper[g]
  PROVE  Grows(c, d)
<1>1. ASSUME NEW g \in Helpers
      PROVE  /\ c.helper[g] # "absent" => d.helper[g] # "absent"
             /\ c.helper[g] = "filtered" => d.helper[g] = "filtered"
  <2>1. CASE g = h
    BY <2>1
  <2>2. CASE g # h
    <3>1. d.helper[g] = c.helper[g]
      BY <2>2
    <3> QED BY <3>1
  <2> QED BY <2>1, <2>2
<1> QED BY <1>1 DEF Grows

LEMMA AddingFacts ==
  ASSUME NEW c \in Catalogues, NEW some \in SUBSET Facts, "old register" \notin some, "revisions" \notin some, Sound(c)
  PROVE  Good(c, With(c, some))
<1>1. PICK d \in Catalogues : /\ d = With(c, some) /\ d.facts = c.facts \cup some
                              /\ d.index = c.index /\ d.kinds = c.kinds /\ d.helper = c.helper
  BY Adding
<1>2. Keeps(c, d)
  BY <1>1 DEF Keeps, Sound
<1>3. Grows(c, d)
  BY <1>1 DEF Grows
<1>4. Sound(d)
  BY <1>1 DEF Sound
<1> QED BY <1>1, <1>2, <1>3, <1>4 DEF Good

LEMMA Good02 == ASSUME NEW c \in Catalogues, Sound(c)
                PROVE  Good(c, After02(c))
<1>1. PICK some \in SUBSET Facts : After02(c) = With(c, some) /\ some \subseteq {"audit shape", "audit grants"}
  BY DEF After02, Facts
<1>2. "old register" \notin some /\ "revisions" \notin some
  BY <1>1
<1>3. Good(c, With(c, some))
  BY <1>2, AddingFacts
<1> QED BY <1>1, <1>3

LEMMA AddingMigrations ==
  ASSUME NEW c \in Catalogues, Sound(c), NEW m \in {"04", "05", "07", "11", "12", "13"}
  PROVE  Good(c, After(m, c))
<1>1. PICK some \in SUBSET Facts : /\ After(m, c) = With(c, some)
                                   /\ some \subseteq {"narrow sessions", "lexical", "ledger", "audit grants", "oauth",
                                                      "oauth readable"}
  BY DEF After, After04, After05, After07, After11, After12, After13, Facts
<1>2. "old register" \notin some /\ "revisions" \notin some
  BY <1>1
<1>3. Good(c, With(c, some))
  BY <1>2, AddingFacts
<1> QED BY <1>1, <1>3

LEMMA Indexing ==
  ASSUME NEW c \in Catalogues, NEW i \in Indexes
  PROVE  \E d \in Catalogues : /\ d = [c EXCEPT !.index = i] /\ d.index = i
                               /\ d.facts = c.facts /\ d.kinds = c.kinds /\ d.helper = c.helper
<1> DEFINE d == [c EXCEPT !.index = i]
<1>1. d \in Catalogues /\ d.index = i /\ d.facts = c.facts /\ d.kinds = c.kinds /\ d.helper = c.helper
  BY DEF Catalogues
<1> QED BY <1>1

LEMMA Admitting ==
  ASSUME NEW c \in Catalogues, NEW k \in Kinds
  PROVE  \E d \in Catalogues : /\ d = [c EXCEPT !.kinds = k] /\ d.kinds = k
                               /\ d.facts = c.facts /\ d.index = c.index /\ d.helper = c.helper
<1> DEFINE d == [c EXCEPT !.kinds = k]
<1>1. d \in Catalogues /\ d.kinds = k /\ d.facts = c.facts /\ d.index = c.index /\ d.helper = c.helper
  BY DEF Catalogues
<1> QED BY <1>1

LEMMA Filtering ==
  ASSUME NEW c \in Catalogues
  PROVE  \E d \in Catalogues : /\ d = [c EXCEPT !.helper = [h \in Helpers |-> "filtered"]]
                               /\ d.helper = [h \in Helpers |-> "filtered"]
                               /\ d.facts = c.facts /\ d.index = c.index /\ d.kinds = c.kinds
<1> DEFINE d == [c EXCEPT !.helper = [h \in Helpers |-> "filtered"]]
<1>1. /\ d \in Catalogues /\ d.helper = [h \in Helpers |-> "filtered"]
      /\ d.facts = c.facts /\ d.index = c.index /\ d.kinds = c.kinds
  BY DEF Catalogues
<1> QED BY <1>1

LEMMA Keeps06 ==
  ASSUME NEW c \in Catalogues, Sound(c)
  PROVE  /\ Keeps(c, After06(c)) /\ Sound(After06(c))
         /\ c.helper["search"] # "filtered" => Grows(c, After06(c))
<1>1. PICK seeded \in SUBSET Facts :
        /\ seeded \subseteq {"spaces", "workspace"}
        /\ After06(c) = [Unfiltered(With(c, seeded), "search") EXCEPT !.index = IF @ = "live" THEN @ ELSE "audience"]
  BY DEF After06, Facts
<1>2. PICK w \in Catalogues : /\ w = With(c, seeded) /\ w.facts = c.facts \cup seeded
                              /\ w.index = c.index /\ w.kinds = c.kinds /\ w.helper = c.helper
  BY Adding
<1>3. "search" \in Helpers /\ "move" \in Helpers /\ "search" # "move"
  BY DEF Helpers
<1>4. PICK u \in Catalogues :
        /\ u = Unfiltered(w, "search") /\ u.facts = w.facts /\ u.index = w.index /\ u.kinds = w.kinds
        /\ u.helper["search"] = "plain" /\ \A g \in Helpers \ {"search"} : u.helper[g] = w.helper[g]
  BY <1>3, Unfiltering
<1>5. After06(c) = [u EXCEPT !.index = IF @ = "live" THEN @ ELSE "audience"]
  BY <1>1, <1>2, <1>4
<1>6. PICK i \in {"audience", "live"} : i = (IF u.index = "live" THEN u.index ELSE "audience")
  OBVIOUS
<1>7. After06(c) = [u EXCEPT !.index = i]
  BY <1>5, <1>6
<1>8. PICK d \in Catalogues : d = After06(c) /\ d.index = i /\ d.facts = u.facts /\ d.kinds = u.kinds /\ d.helper = u.helper
  <2>1. i \in Indexes
    BY DEF Indexes
  <2>2. PICK d \in Catalogues : /\ d = [u EXCEPT !.index = i] /\ d.index = i
                               /\ d.facts = u.facts /\ d.kinds = u.kinds /\ d.helper = u.helper
    BY <2>1, Indexing
  <2> QED BY <1>7, <2>2
<1>9. Keeps(c, d)
  <2>1. d.facts = c.facts \cup seeded /\ d.kinds = c.kinds /\ (c.index = "live" => d.index = "live")
    BY <1>2, <1>4, <1>6, <1>8
  <2>2. d.helper["move"] = c.helper["move"]
    BY <1>2, <1>3, <1>4, <1>8
  <2> QED BY <2>1, <2>2 DEF Keeps, Sound
<1>10. Sound(d)
  BY <1>1, <1>2, <1>3, <1>4, <1>8 DEF Sound
<1>11. c.helper["search"] # "filtered" => Grows(c, d)
  <2> SUFFICES ASSUME c.helper["search"] # "filtered"
               PROVE  Grows(c, d)
    OBVIOUS
  <2>1. c.facts \ {"old register"} \subseteq d.facts /\ ("old register" \in d.facts => "old register" \in c.facts)
    <3>1. d.facts = c.facts \cup seeded
      BY <1>2, <1>4, <1>8
    <3> QED BY <1>1, <3>1
  <2>2. (c.index # "text" => d.index # "text") /\ (c.index = "live" => d.index = "live") /\ (c.kinds = "five" => d.kinds = "five")
    BY <1>2, <1>4, <1>6, <1>8
  <2>3. d.helper["search"] = "plain" /\ \A g \in Helpers \ {"search"} : d.helper[g] = c.helper[g]
    BY <1>2, <1>4, <1>8
  <2> QED BY <1>3, <2>1, <2>2, <2>3, UnfilteringGrows
<1> QED BY <1>8, <1>9, <1>10, <1>11

LEMMA Keeps08 ==
  ASSUME NEW c \in Catalogues, Sound(c)
  PROVE  /\ Keeps(c, After08(c)) /\ Sound(After08(c)) /\ "old register" \in After08(c).facts
         /\ After08(c).index = c.index /\ After08(c).helper = c.helper
         /\ \A f \in {"spaces", "passages", "revisions"} : f \in After08(c).facts <=> f \in c.facts
<1>1. {"tokens", "old register"} \in SUBSET Facts /\ {"principal readable"} \in SUBSET Facts
  BY DEF Facts
<1>2. PICK w \in Catalogues : /\ w = With(c, {"tokens", "old register"}) /\ w.facts = c.facts \cup {"tokens", "old register"}
                              /\ w.index = c.index /\ w.kinds = c.kinds /\ w.helper = c.helper
  BY <1>1, Adding
<1>3. PICK d \in Catalogues : /\ d = Lacking(w, {"principal readable"}) /\ d.facts = w.facts \ {"principal readable"}
                              /\ d.index = w.index /\ d.kinds = w.kinds /\ d.helper = w.helper
  BY <1>1, Removing
<1>4. d = After08(c)
  BY <1>2, <1>3 DEF After08
<1>5. Keeps(c, d)
  BY <1>2, <1>3 DEF Keeps, Sound
<1>6. Sound(d)
  BY <1>2, <1>3 DEF Sound
<1>7. /\ "old register" \in d.facts /\ d.index = c.index /\ d.helper = c.helper
      /\ \A f \in {"spaces", "passages", "revisions"} : f \in d.facts <=> f \in c.facts
  BY <1>2, <1>3
<1> QED BY <1>4, <1>5, <1>6, <1>7

LEMMA Keeps10 ==
  ASSUME NEW c \in Catalogues, Sound(c)
  PROVE  /\ Keeps(c, After10(c)) /\ Sound(After10(c)) /\ After10(c).helper["move"] = "plain"
         /\ "revisions" \in After10(c).facts
         /\ c.helper["move"] # "filtered" => Grows(c, After10(c))
<1>1. {"revisions"} \in SUBSET Facts /\ "move" \in Helpers
  BY DEF Facts, Helpers
<1>2. PICK w \in Catalogues : /\ w = With(c, {"revisions"}) /\ w.facts = c.facts \cup {"revisions"}
                              /\ w.index = c.index /\ w.kinds = c.kinds /\ w.helper = c.helper
  BY <1>1, Adding
<1>3. PICK u \in Catalogues :
        /\ u = Unfiltered(w, "move") /\ u.facts = w.facts /\ u.index = w.index /\ u.kinds = w.kinds
        /\ u.helper["move"] = "plain" /\ \A g \in Helpers \ {"move"} : u.helper[g] = w.helper[g]
  BY <1>1, Unfiltering
<1>4. After10(c) = [u EXCEPT !.kinds = IF @ = "none" THEN "two" ELSE @]
  BY <1>2, <1>3 DEF After10
<1>5. PICK k \in {"two", "three", "five"} : k = (IF u.kinds = "none" THEN "two" ELSE u.kinds)
  BY DEF Catalogues, Kinds
<1>6. After10(c) = [u EXCEPT !.kinds = k]
  BY <1>4, <1>5
<1>7. PICK d \in Catalogues : d = After10(c) /\ d.kinds = k /\ d.facts = u.facts /\ d.index = u.index /\ d.helper = u.helper
  <2>1. k \in Kinds
    BY DEF Kinds
  <2>2. PICK d \in Catalogues : /\ d = [u EXCEPT !.kinds = k] /\ d.kinds = k
                               /\ d.facts = u.facts /\ d.index = u.index /\ d.helper = u.helper
    BY <2>1, Admitting
  <2> QED BY <1>6, <2>2
<1>8. Keeps(c, d)
  BY <1>2, <1>3, <1>5, <1>7 DEF Keeps, Sound
<1>9. Sound(d) /\ d.helper["move"] = "plain" /\ "revisions" \in d.facts
  BY <1>2, <1>3, <1>7 DEF Sound
<1>10. c.helper["move"] # "filtered" => Grows(c, d)
  <2> SUFFICES ASSUME c.helper["move"] # "filtered"
               PROVE  Grows(c, d)
    OBVIOUS
  <2>1. c.facts \ {"old register"} \subseteq d.facts /\ ("old register" \in d.facts => "old register" \in c.facts)
    <3>1. d.facts = c.facts \cup {"revisions"}
      BY <1>2, <1>3, <1>7
    <3> QED BY <3>1
  <2>2. (c.index # "text" => d.index # "text") /\ (c.index = "live" => d.index = "live") /\ (c.kinds = "five" => d.kinds = "five")
    BY <1>2, <1>3, <1>5, <1>7
  <2>3. d.helper["move"] = "plain" /\ \A g \in Helpers \ {"move"} : d.helper[g] = c.helper[g]
    BY <1>2, <1>3, <1>7
  <2> QED BY <1>1, <2>1, <2>2, <2>3, UnfilteringGrows
<1> QED BY <1>7, <1>8, <1>9, <1>10

LEMMA Good14 ==
  ASSUME NEW c \in Catalogues, Sound(c)
  PROVE  Good(c, After14(c))
<1>1. {"principals", "principal readable"} \in SUBSET Facts /\ {"old register"} \in SUBSET Facts
  BY DEF Facts
<1>2. PICK w \in Catalogues : /\ w = With(c, {"principals", "principal readable"})
                              /\ w.facts = c.facts \cup {"principals", "principal readable"}
                              /\ w.index = c.index /\ w.kinds = c.kinds /\ w.helper = c.helper
  BY <1>1, Adding
<1>3. PICK d \in Catalogues : /\ d = Lacking(w, {"old register"}) /\ d.facts = w.facts \ {"old register"}
                              /\ d.index = w.index /\ d.kinds = w.kinds /\ d.helper = w.helper
  BY <1>1, Removing
<1>4. d = After14(c)
  BY <1>2, <1>3 DEF After14
<1>5. Keeps(c, d)
  BY <1>2, <1>3 DEF Keeps, Sound
<1>6. Grows(c, d)
  BY <1>2, <1>3 DEF Grows
<1>7. Sound(d)
  BY <1>2, <1>3 DEF Sound
<1> QED BY <1>4, <1>5, <1>6, <1>7 DEF Good

LEMMA Keeps15 ==
  ASSUME NEW c \in Catalogues, Sound(c)
  PROVE  /\ Keeps(c, After15(c)) /\ Sound(After15(c))
         /\ c.helper["passage search"] # "filtered" => Grows(c, After15(c))
<1>1. {"passages"} \in SUBSET Facts /\ "passage search" \in Helpers /\ "move" \in Helpers /\ "move" # "passage search"
  BY DEF Facts, Helpers
<1>2. PICK w \in Catalogues : /\ w = With(c, {"passages"}) /\ w.facts = c.facts \cup {"passages"}
                              /\ w.index = c.index /\ w.kinds = c.kinds /\ w.helper = c.helper
  BY <1>1, Adding
<1>3. PICK d \in Catalogues :
        /\ d = Unfiltered(w, "passage search") /\ d.facts = w.facts /\ d.index = w.index /\ d.kinds = w.kinds
        /\ d.helper["passage search"] = "plain" /\ \A g \in Helpers \ {"passage search"} : d.helper[g] = w.helper[g]
  BY <1>1, Unfiltering
<1>4. d = After15(c)
  BY <1>2, <1>3 DEF After15
<1>5. Keeps(c, d)
  <2>1. d.facts = c.facts \cup {"passages"} /\ d.index = c.index /\ d.kinds = c.kinds
    BY <1>2, <1>3
  <2>2. d.helper["move"] = c.helper["move"]
    BY <1>1, <1>2, <1>3
  <2> QED BY <2>1, <2>2 DEF Keeps, Sound
<1>6. Sound(d)
  <2>1. d.helper["move"] = c.helper["move"]
    BY <1>1, <1>2, <1>3
  <2>2. d.facts = c.facts \cup {"passages"}
    BY <1>2, <1>3
  <2> QED BY <2>1, <2>2 DEF Sound
<1>7. c.helper["passage search"] # "filtered" => Grows(c, d)
  <2> SUFFICES ASSUME c.helper["passage search"] # "filtered"
               PROVE  Grows(c, d)
    OBVIOUS
  <2>1. c.facts \ {"old register"} \subseteq d.facts /\ ("old register" \in d.facts => "old register" \in c.facts)
    <3>1. d.facts = c.facts \cup {"passages"}
      BY <1>2, <1>3
    <3> QED BY <3>1
  <2>2. (c.index # "text" => d.index # "text") /\ (c.index = "live" => d.index = "live") /\ (c.kinds = "five" => d.kinds = "five")
    BY <1>2, <1>3
  <2>3. d.helper["passage search"] = "plain" /\ \A g \in Helpers \ {"passage search"} : d.helper[g] = c.helper[g]
    BY <1>2, <1>3
  <2> QED BY <1>1, <2>1, <2>2, <2>3, UnfilteringGrows
<1> QED BY <1>4, <1>5, <1>6, <1>7

LEMMA Good16 ==
  ASSUME NEW c \in Catalogues, Sound(c)
  PROVE  Good(c, After16(c)) /\ After16(c).kinds \in {"three", "five"}
<1>1. PICK k \in {"three", "five"} : k = (IF c.kinds = "five" THEN c.kinds ELSE "three")
  OBVIOUS
<1>2. After16(c) = [c EXCEPT !.kinds = k]
  BY <1>1 DEF After16
<1>3. PICK d \in Catalogues : d = After16(c) /\ d.kinds = k /\ d.facts = c.facts /\ d.index = c.index /\ d.helper = c.helper
  <2>1. k \in Kinds
    BY DEF Kinds
  <2>2. PICK d \in Catalogues : /\ d = [c EXCEPT !.kinds = k] /\ d.kinds = k
                               /\ d.facts = c.facts /\ d.index = c.index /\ d.helper = c.helper
    BY <2>1, Admitting
  <2> QED BY <1>2, <2>2
<1>4. Keeps(c, d)
  BY <1>1, <1>3 DEF Keeps, Sound
<1>5. Grows(c, d)
  BY <1>1, <1>3 DEF Grows
<1>6. Sound(d)
  BY <1>3 DEF Sound
<1> QED BY <1>3, <1>4, <1>5, <1>6 DEF Good

LEMMA Good17 ==
  ASSUME NEW c \in Catalogues, Sound(c), "revisions" \in c.facts
  PROVE  Good(c, After17(c)) /\ After17(c).index = "live" /\ After17(c).kinds = "five"
<1>1. {"forget"} \in SUBSET Facts
  BY DEF Facts
<1>2. PICK w \in Catalogues : w = With(c, {"forget"}) /\ w.facts = c.facts \cup {"forget"}
  BY <1>1, Adding
<1>3. PICK x \in Catalogues : x = [w EXCEPT !.index = "live"] /\ x.index = "live" /\ x.facts = w.facts
  BY Indexing DEF Indexes
<1>4. PICK y \in Catalogues : y = [x EXCEPT !.kinds = "five"] /\ y.kinds = "five" /\ y.facts = x.facts /\ y.index = x.index
  BY Admitting DEF Kinds
<1>5. PICK d \in Catalogues : /\ d = [y EXCEPT !.helper = [h \in Helpers |-> "filtered"]]
                              /\ d.helper = [h \in Helpers |-> "filtered"]
                              /\ d.facts = y.facts /\ d.index = y.index /\ d.kinds = y.kinds
  BY Filtering
<1>6. After17(c) = d
  BY <1>2, <1>3, <1>4, <1>5 DEF After17
<1>7. d.facts = c.facts \cup {"forget"} /\ d.index = "live" /\ d.kinds = "five" /\ \A h \in Helpers : d.helper[h] = "filtered"
  BY <1>2, <1>3, <1>4, <1>5
<1>8. Keeps(c, d)
  BY <1>7 DEF Keeps, Sound
<1>9. Grows(c, d)
  BY <1>7 DEF Grows
<1>10. Sound(d)
  BY <1>7 DEF Sound, Helpers
<1> QED BY <1>6, <1>7, <1>8, <1>9, <1>10 DEF Good
-----------------------------------------------------------------------------
(* What the rows hold and what the gates have passed outlive a migration. *)

LEMMA RowsStillFit ==
  ASSUME NEW c, NEW d, Keeps(c, d), Fits(c)
  PROVE  Fits(d)
BY DEF Keeps, Fits

CheckNames == {"lexical indexes", "spaces", "passages", "ledger", "tokens", "token columns", "audit shape", "audit grants",
               "mutations", "session grants", "forgetting", "admission", "admission columns", "workspace"}

LEMMA GatesStayOpen ==
  ASSUME NEW c, NEW d, Grows(c, d), NEW name \in CheckNames, Passes(name, c)
  PROVE  Passes(name, d)
<1>1. \A f : f \in c.facts /\ f # "old register" => f \in d.facts
  BY DEF Grows
<1>2. /\ c.index # "text" => d.index # "text"
      /\ \A h \in Helpers : c.helper[h] # "absent" => d.helper[h] # "absent"
  BY DEF Grows
<1>3. CASE name = "spaces"
  BY <1>1, <1>2, <1>3 DEF Passes, SpacesSchema, Has
<1>4. CASE name = "passages"
  BY <1>1, <1>2, <1>4 DEF Passes, PassageSearchSchema, Has, Helpers
<1>5. CASE name = "tokens"
  <2>1. "old register" \in d.facts => "old register" \in c.facts
    BY DEF Grows
  <2> QED BY <1>1, <1>5, <2>1 DEF Passes, NativeAccessTokenSchema, Has
<1>6. CASE name = "mutations"
  BY <1>1, <1>2, <1>6 DEF Passes, ThoughtMutationSchema, Has, Helpers
<1>7. CASE name = "forgetting"
  <2>1. /\ c.index = "live" => d.index = "live"
        /\ c.kinds = "five" => d.kinds = "five"
        /\ \A h \in Helpers : c.helper[h] = "filtered" => d.helper[h] = "filtered"
    BY DEF Grows
  <2> QED BY <1>1, <1>7, <2>1 DEF Passes, ForgetSchema, Has
<1>8. CASE name \in {"lexical indexes", "ledger", "token columns", "workspace"}
  BY <1>1, <1>8 DEF Passes, LexicalIndexes, MetadataDegradationSchema, Has
<1>9. CASE name \in {"audit shape", "audit grants", "session grants"}
  BY <1>1, <1>9 DEF Passes, AuthAuditSchema, AuthAuditGrants, SessionUpdateGrants, Has
<1>10. CASE name \in {"admission", "admission columns"}
  BY <1>1, <1>10 DEF Passes, Has
<1> QED BY <1>3, <1>4, <1>5, <1>6, <1>7, <1>8, <1>9, <1>10 DEF CheckNames

LEMMA TheChecks ==
  /\ DOMAIN EarlyChecks = 1..5 /\ DOMAIN LateChecks = 1..4 /\ DOMAIN LaterQueries = 1..6
  /\ \A i \in 1..5 : EarlyChecks[i].name \in CheckNames
  /\ \A i \in 1..4 : LateChecks[i].name \in CheckNames
  /\ \A i \in 1..6 : LaterQueries[i].name \in CheckNames
<1>1. DOMAIN EarlyChecks = 1..5 /\ DOMAIN LateChecks = 1..4 /\ DOMAIN LaterQueries = 1..6
  BY DEF EarlyChecks, LateChecks, LaterQueries
<1>2. \A i \in 1..5 : EarlyChecks[i].name \in CheckNames
  <2> SUFFICES ASSUME NEW i \in 1..5
               PROVE  EarlyChecks[i].name \in CheckNames
    OBVIOUS
  <2>1. CASE i = 1
    BY <2>1 DEF EarlyChecks, Check, CheckNames
  <2>2. CASE i = 2
    BY <2>2 DEF EarlyChecks, Check, CheckNames
  <2>3. CASE i = 3
    BY <2>3 DEF EarlyChecks, Check, CheckNames
  <2>4. CASE i = 4
    BY <2>4 DEF EarlyChecks, Check, CheckNames
  <2>5. CASE i = 5
    BY <2>5 DEF EarlyChecks, Check, CheckNames
  <2> QED BY <2>1, <2>2, <2>3, <2>4, <2>5
<1>3. \A i \in 1..4 : LateChecks[i].name \in CheckNames
  <2> SUFFICES ASSUME NEW i \in 1..4
               PROVE  LateChecks[i].name \in CheckNames
    OBVIOUS
  <2>1. CASE i = 1
    BY <2>1 DEF LateChecks, Check, CheckNames
  <2>2. CASE i = 2
    BY <2>2 DEF LateChecks, Check, CheckNames
  <2>3. CASE i = 3
    BY <2>3 DEF LateChecks, Check, CheckNames
  <2>4. CASE i = 4
    BY <2>4 DEF LateChecks, Check, CheckNames
  <2> QED BY <2>1, <2>2, <2>3, <2>4
<1>4. \A i \in 1..6 : LaterQueries[i].name \in CheckNames
  <2> SUFFICES ASSUME NEW i \in 1..6
               PROVE  LaterQueries[i].name \in CheckNames
    OBVIOUS
  <2>1. CASE i = 1
    BY <2>1 DEF LaterQueries, Check, CheckNames
  <2>2. CASE i = 2
    BY <2>2 DEF LaterQueries, Check, CheckNames
  <2>3. CASE i = 3
    BY <2>3 DEF LaterQueries, Check, CheckNames
  <2>4. CASE i = 4
    BY <2>4 DEF LaterQueries, Check, CheckNames
  <2>5. CASE i = 5
    BY <2>5 DEF LaterQueries, Check, CheckNames
  <2>6. CASE i = 6
    BY <2>6 DEF LaterQueries, Check, CheckNames
  <2> QED BY <2>1, <2>2, <2>3, <2>4, <2>5, <2>6
<1> QED BY <1>1, <1>2, <1>3, <1>4

LEMMA LeastOfFew ==
  ASSUME NEW S \in SUBSET (1..5), S # {}
  PROVE  \E i \in S : \A j \in S : i <= j
<1>1. CASE 1 \in S
  BY <1>1
<1>2. CASE 1 \notin S /\ 2 \in S
  BY <1>2
<1>3. CASE 1 \notin S /\ 2 \notin S /\ 3 \in S
  BY <1>3
<1>4. CASE 1 \notin S /\ 2 \notin S /\ 3 \notin S /\ 4 \in S
  BY <1>4
<1>5. CASE S = {5}
  BY <1>5
<1>6. 1 \in S \/ 2 \in S \/ 3 \in S \/ 4 \in S \/ S = {5}
  <2>1. \A x \in S : x = 1 \/ x = 2 \/ x = 3 \/ x = 4 \/ x = 5
    OBVIOUS
  <2> QED BY <2>1
<1> QED BY <1>1, <1>2, <1>3, <1>4, <1>5, <1>6

\* The advice is empty when every check passes, and otherwise that of a check that fails.
LEMMA AdviceNamesAFailure ==
  ASSUME NEW checks, DOMAIN checks \subseteq 1..5, NEW c
  PROVE  /\ AllPass(checks, c) => Advice(checks, c) = <<>>
         /\ ~AllPass(checks, c) => \E i \in DOMAIN checks : /\ ~Passes(checks[i].name, c)
                                                            /\ Advice(checks, c) = checks[i].apply
<1> DEFINE failed == {i \in DOMAIN checks : ~Passes(checks[i].name, c)}
<1>1. CASE failed = {}
  <2>1. AllPass(checks, c)
    BY <1>1 DEF AllPass
  <2> QED BY <1>1, <2>1 DEF Advice
<1>2. CASE failed # {}
  <2>1. \E i \in failed : \A j \in failed : i <= j
    BY <1>2, LeastOfFew
  <2> DEFINE first == CHOOSE i \in failed : \A j \in failed : i <= j
  <2>2. first \in failed
    BY <2>1
  <2>3. Advice(checks, c) = checks[first].apply
    BY <1>2 DEF Advice
  <2>4. ~AllPass(checks, c)
    BY <2>2 DEF AllPass
  <2> QED BY <2>2, <2>3, <2>4
<1> QED BY <1>1, <1>2

LEMMA EarlyAdvice ==
  ASSUME NEW c
  PROVE  /\ Advice(EarlyChecks, c) = <<>> => AllPass(EarlyChecks, c)
         /\ Advice(EarlyChecks, c) \in {<<>>, <<"05">>, <<"06">>, <<"15">>, <<"07">>, <<"08", "14">>}
         /\ Advice(EarlyChecks, c) = <<"06">> => ~SpacesSchema(c)
         /\ Advice(EarlyChecks, c) = <<"15">> => ~PassageSearchSchema(c)
         /\ Advice(EarlyChecks, c) = <<"08", "14">> => ~NativeAccessTokenSchema(c)
<1>1. CASE AllPass(EarlyChecks, c)
  <2>1. Advice(EarlyChecks, c) = <<>>
    BY <1>1, TheChecks, AdviceNamesAFailure
  <2> QED BY <1>1, <2>1
<1>2. CASE ~AllPass(EarlyChecks, c)
  <2>1. PICK i \in 1..5 : ~Passes(EarlyChecks[i].name, c) /\ Advice(EarlyChecks, c) = EarlyChecks[i].apply
    BY <1>2, TheChecks, AdviceNamesAFailure
  <2>2. CASE i = 1
    <3>1. Advice(EarlyChecks, c) = <<"05">>
      BY <2>1, <2>2 DEF EarlyChecks, Check
    <3> QED BY <3>1
  <2>3. CASE i = 2
    <3>1. Advice(EarlyChecks, c) = <<"06">> /\ ~SpacesSchema(c)
      BY <2>1, <2>3 DEF EarlyChecks, Check, Passes
    <3> QED BY <3>1
  <2>4. CASE i = 3
    <3>1. Advice(EarlyChecks, c) = <<"15">> /\ ~PassageSearchSchema(c)
      BY <2>1, <2>4 DEF EarlyChecks, Check, Passes
    <3> QED BY <3>1
  <2>5. CASE i = 4
    <3>1. Advice(EarlyChecks, c) = <<"07">>
      BY <2>1, <2>5 DEF EarlyChecks, Check
    <3> QED BY <3>1
  <2>6. CASE i = 5
    <3>1. Advice(EarlyChecks, c) = <<"08", "14">> /\ ~NativeAccessTokenSchema(c)
      BY <2>1, <2>6 DEF EarlyChecks, Check, Passes
    <3> QED BY <3>1
  <2> QED BY <2>2, <2>3, <2>4, <2>5, <2>6
<1> QED BY <1>1, <1>2

LEMMA LateAdvice ==
  ASSUME NEW c
  PROVE  /\ Advice(LateChecks, c) = <<>> => AllPass(LateChecks, c)
         /\ Advice(LateChecks, c) \in Lates
         /\ Advice(LateChecks, c) = <<"10">> => ~ThoughtMutationSchema(c)
<1>1. CASE AllPass(LateChecks, c)
  <2>1. Advice(LateChecks, c) = <<>>
    BY <1>1, TheChecks, AdviceNamesAFailure
  <2> QED BY <1>1, <2>1 DEF Lates
<1>2. CASE ~AllPass(LateChecks, c)
  <2>1. PICK i \in 1..4 : ~Passes(LateChecks[i].name, c) /\ Advice(LateChecks, c) = LateChecks[i].apply
    BY <1>2, TheChecks, AdviceNamesAFailure
  <2>2. CASE i = 1
    <3>1. Advice(LateChecks, c) = <<"02">>
      BY <2>1, <2>2 DEF LateChecks, Check
    <3> QED BY <3>1 DEF Lates
  <2>3. CASE i = 2
    <3>1. Advice(LateChecks, c) = <<"role", "12">>
      BY <2>1, <2>3 DEF LateChecks, Check
    <3> QED BY <3>1 DEF Lates
  <2>4. CASE i = 3
    <3>1. Advice(LateChecks, c) = <<"10">> /\ ~ThoughtMutationSchema(c)
      BY <2>1, <2>4 DEF LateChecks, Check, Passes
    <3> QED BY <3>1 DEF Lates
  <2>5. CASE i = 4
    <3>1. Advice(LateChecks, c) = <<"11">>
      BY <2>1, <2>5 DEF LateChecks, Check
    <3> QED BY <3>1 DEF Lates
  <2> QED BY <2>2, <2>3, <2>4, <2>5
<1> QED BY <1>1, <1>2

LEMMA LaterAdvice ==
  ASSUME NEW c, NEW q \in 1..6
  PROVE  \/ Advice(<<LaterQueries[q]>>, c) = <<>> /\ Passes(LaterQueries[q].name, c)
         \/ /\ Advice(<<LaterQueries[q]>>, c) = LaterQueries[q].apply
            /\ LaterQueries[q].apply \in {<<"14">>, <<"17">>, <<"13">>, <<"07">>, <<"workspace">>}
            /\ LaterQueries[q].apply = <<"17">> => q = 2
<1> DEFINE one == <<LaterQueries[q]>>
<1>1. DOMAIN one = {1} /\ one[1] = LaterQueries[q]
  OBVIOUS
<1>2. DOMAIN one \subseteq 1..5
  BY <1>1
<1>3. AllPass(one, c) <=> Passes(LaterQueries[q].name, c)
  BY <1>1 DEF AllPass
<1>4. /\ AllPass(one, c) => Advice(one, c) = <<>>
      /\ ~AllPass(one, c) => \E i \in DOMAIN one : Advice(one, c) = one[i].apply
  <2> HIDE DEF one
  <2> QED BY <1>2, AdviceNamesAFailure
<1>5. ~AllPass(one, c) => Advice(one, c) = LaterQueries[q].apply
  BY <1>1, <1>4
<1>6. /\ LaterQueries[q].apply \in {<<"14">>, <<"17">>, <<"13">>, <<"07">>, <<"workspace">>}
      /\ LaterQueries[q].apply = <<"17">> => q = 2
  <2>1. CASE q = 1
    BY <2>1 DEF LaterQueries, Check
  <2>2. CASE q = 2
    BY <2>2 DEF LaterQueries, Check
  <2>3. CASE q = 3
    BY <2>3 DEF LaterQueries, Check
  <2>4. CASE q = 4
    BY <2>4 DEF LaterQueries, Check
  <2>5. CASE q = 5
    BY <2>5 DEF LaterQueries, Check
  <2>6. CASE q = 6
    BY <2>6 DEF LaterQueries, Check
  <2> QED BY <2>1, <2>2, <2>3, <2>4, <2>5, <2>6
<1> QED BY <1>3, <1>4, <1>5, <1>6
-----------------------------------------------------------------------------
(* What any migration that finds what it needs makes of the catalogue. *)

LEMMA MigrationKeeps ==
  ASSUME NEW c \in Catalogues, Sound(c), NEW m \in Migrations, Has(c, Needs(m))
  PROVE  Keeps(c, After(m, c)) /\ Sound(After(m, c))
<1>1. CASE m \in {"04", "05", "07", "11", "12", "13"}
  BY <1>1, AddingMigrations DEF Good
<1>2. CASE m = "02"
  BY <1>2, Good02 DEF Good, After
<1>3. CASE m = "06"
  BY <1>3, Keeps06 DEF After
<1>4. CASE m = "08"
  BY <1>4, Keeps08 DEF After
<1>5. CASE m = "10"
  BY <1>5, Keeps10 DEF After
<1>6. CASE m = "14"
  BY <1>6, Good14 DEF Good, After
<1>7. CASE m = "15"
  BY <1>7, Keeps15 DEF After
<1>8. CASE m = "16"
  BY <1>8, Good16 DEF Good, After
<1>9. CASE m = "17"
  <2>1. "revisions" \in c.facts
    BY <1>9 DEF Has, Needs
  <2> QED BY <1>9, <2>1, Good17 DEF Good, After
<1> QED BY <1>1, <1>2, <1>3, <1>4, <1>5, <1>6, <1>7, <1>8, <1>9 DEF Migrations

LEMMA MigrationGrows ==
  ASSUME NEW c \in Catalogues, Sound(c), NEW m \in Migrations \ {"06", "08", "15"}, Has(c, Needs(m)),
         m = "10" => c.helper["move"] # "filtered"
  PROVE  Grows(c, After(m, c))
<1>1. CASE m \in {"04", "05", "07", "11", "12", "13"}
  BY <1>1, AddingMigrations DEF Good
<1>2. CASE m = "02"
  BY <1>2, Good02 DEF Good, After
<1>3. CASE m = "10"
  BY <1>3, Keeps10 DEF After
<1>4. CASE m = "14"
  BY <1>4, Good14 DEF Good, After
<1>5. CASE m = "16"
  BY <1>5, Good16 DEF Good, After
<1>6. CASE m = "17"
  <2>1. "revisions" \in c.facts
    BY <1>6 DEF Has, Needs
  <2> QED BY <1>6, <2>1, Good17 DEF Good, After
<1> QED BY <1>1, <1>2, <1>3, <1>4, <1>5, <1>6 DEF Migrations
-----------------------------------------------------------------------------
(* What a step that changes the catalogue or the server keeps of the invariant. *)

LEMMA PassedStaysSo ==
  ASSUME Passed, Grows(catalogue, catalogue'), UNCHANGED <<server, query, late>>, activated => activated'
  PROVE  Passed'
<1>1. Reached' = Reached
  BY DEF Reached
<1>2. ASSUME AllPass(EarlyChecks, catalogue)
      PROVE  AllPass(EarlyChecks, catalogue)'
  BY <1>2, TheChecks, GatesStayOpen DEF AllPass
<1>3. ASSUME AllPass(LateChecks, catalogue)
      PROVE  AllPass(LateChecks, catalogue)'
  BY <1>3, TheChecks, GatesStayOpen DEF AllPass
<1>4. ASSUME NEW i \in DOMAIN LaterQueries, Passes(LaterQueries[i].name, catalogue)
      PROVE  Passes(LaterQueries[i].name, catalogue)'
  BY <1>4, TheChecks, GatesStayOpen
<1>5. (/\ server \in {"stopped", "exited", "embedding", "serving"} => query = 0 /\ late = <<>>
       /\ late # <<>> => query = 1)'
  BY DEF Passed
<1>6. (Reached >= 1 => AllPass(EarlyChecks, catalogue))'
  BY <1>1, <1>2 DEF Passed
<1>7. (Reached >= 2 \/ (Reached = 1 /\ late = <<>>) => AllPass(LateChecks, catalogue))'
  BY <1>1, <1>3 DEF Passed
<1>8. (\A i \in DOMAIN LaterQueries : Reached > i => Passes(LaterQueries[i].name, catalogue))'
  BY <1>1, <1>4 DEF Passed
<1>9. (server = "serving" => activated)'
  BY DEF Passed
<1> QED BY <1>5, <1>6, <1>7, <1>8, <1>9 DEF Passed

\* Before the first answer nothing has been passed.
LEMMA NothingPassed ==
  ASSUME Passed, UNCHANGED <<server, query, late>>, Reached = 0
  PROVE  Passed'
<1>1. Reached' = 0
  BY DEF Reached
<1>2. \A i \in DOMAIN LaterQueries : ~(0 > i)
  BY TheChecks
<1>3. server # "serving"
  BY DEF Reached
<1> QED BY <1>1, <1>2, <1>3 DEF Passed

LEMMA ShutGates ==
  ASSUME Passed, query \in 0..7,
         ~SpacesSchema(catalogue) \/ ~PassageSearchSchema(catalogue) \/ ~NativeAccessTokenSchema(catalogue)
  PROVE  Reached = 0 /\ late = <<>>
<1>1. ~AllPass(EarlyChecks, catalogue)
  <2>1. /\ EarlyChecks[2].name = "spaces" /\ EarlyChecks[3].name = "passages" /\ EarlyChecks[5].name = "tokens"
    BY DEF EarlyChecks, Check
  <2>2. Passes("spaces", catalogue) <=> SpacesSchema(catalogue)
    BY DEF Passes
  <2>3. Passes("passages", catalogue) <=> PassageSearchSchema(catalogue)
    BY DEF Passes
  <2>4. Passes("tokens", catalogue) <=> NativeAccessTokenSchema(catalogue)
    BY DEF Passes
  <2>5. AllPass(EarlyChecks, catalogue) => /\ Passes(EarlyChecks[2].name, catalogue)
                                           /\ Passes(EarlyChecks[3].name, catalogue)
                                           /\ Passes(EarlyChecks[5].name, catalogue)
    BY TheChecks DEF AllPass
  <2> QED BY <2>1, <2>2, <2>3, <2>4, <2>5
<1>2. ~(Reached >= 1)
  BY <1>1 DEF Passed
<1>3. Reached = 0
  BY <1>2 DEF Reached
<1>4. query = 0
  BY <1>3 DEF Reached
<1> QED BY <1>3, <1>4 DEF Passed

LEMMA BesideSteps ==
  ASSUME NEW steps \in Beside, steps # <<>>
  PROVE  \/ steps = <<"08", "14">> /\ Head(steps) = "08" /\ Tail(steps) = <<"14">>
         \/ steps = <<"role", "12">> /\ Head(steps) = "role" /\ Tail(steps) = <<"12">>
         \/ /\ Head(steps) \in {"02", "05", "06", "07", "10", "11", "12", "13", "14", "15", "17", "workspace"}
            /\ steps = <<Head(steps)>> /\ Tail(steps) = <<>>
<1>1. CASE steps = <<"08", "14">>
  BY <1>1
<1>2. CASE steps = <<"role", "12">>
  BY <1>2
<1>3. ASSUME NEW m \in {"02", "05", "06", "07", "10", "11", "12", "13", "14", "15", "17", "workspace"}, steps = <<m>>
      PROVE  Head(steps) = m /\ Tail(steps) = <<>>
  BY <1>3
<1>4. \/ steps = <<"08", "14">> \/ steps = <<"role", "12">>
      \/ \E m \in {"02", "05", "06", "07", "10", "11", "12", "13", "14", "15", "17", "workspace"} : steps = <<m>>
  BY DEF Beside
<1> QED BY <1>1, <1>2, <1>3, <1>4

LEMMA EarlyMeans ==
  ASSUME NEW c, AllPass(EarlyChecks, c)
  PROVE  /\ {"lexical", "spaces", "passages", "ledger", "tokens", "principals"} \subseteq c.facts
         /\ "old register" \notin c.facts
<1>1. Passes("lexical indexes", c)
  <2>1. EarlyChecks[1].name = "lexical indexes"
    BY DEF EarlyChecks, Check
  <2>2. 1 \in DOMAIN EarlyChecks
    BY TheChecks
  <2>3. Passes(EarlyChecks[1].name, c)
    BY <2>2 DEF AllPass
  <2> QED BY <2>1, <2>3
<1>2. Passes("spaces", c)
  <2>1. EarlyChecks[2].name = "spaces"
    BY DEF EarlyChecks, Check
  <2>2. 2 \in DOMAIN EarlyChecks
    BY TheChecks
  <2>3. Passes(EarlyChecks[2].name, c)
    BY <2>2 DEF AllPass
  <2> QED BY <2>1, <2>3
<1>3. Passes("passages", c)
  <2>1. EarlyChecks[3].name = "passages"
    BY DEF EarlyChecks, Check
  <2>2. 3 \in DOMAIN EarlyChecks
    BY TheChecks
  <2>3. Passes(EarlyChecks[3].name, c)
    BY <2>2 DEF AllPass
  <2> QED BY <2>1, <2>3
<1>4. Passes("ledger", c)
  <2>1. EarlyChecks[4].name = "ledger"
    BY DEF EarlyChecks, Check
  <2>2. 4 \in DOMAIN EarlyChecks
    BY TheChecks
  <2>3. Passes(EarlyChecks[4].name, c)
    BY <2>2 DEF AllPass
  <2> QED BY <2>1, <2>3
<1>5. Passes("tokens", c)
  <2>1. EarlyChecks[5].name = "tokens"
    BY DEF EarlyChecks, Check
  <2>2. 5 \in DOMAIN EarlyChecks
    BY TheChecks
  <2>3. Passes(EarlyChecks[5].name, c)
    BY <2>2 DEF AllPass
  <2> QED BY <2>1, <2>3
<1>6. "lexical" \in c.facts
  BY <1>1 DEF Passes, LexicalIndexes, Has
<1>7. "spaces" \in c.facts
  BY <1>2 DEF Passes, SpacesSchema, Has
<1>8. "passages" \in c.facts
  BY <1>3 DEF Passes, PassageSearchSchema, Has
<1>9. "ledger" \in c.facts
  BY <1>4 DEF Passes, MetadataDegradationSchema, Has
<1>10. "tokens" \in c.facts /\ "principals" \in c.facts /\ "old register" \notin c.facts
  BY <1>5 DEF Passes, NativeAccessTokenSchema, Has
<1> QED BY <1>6, <1>7, <1>8, <1>9, <1>10

LEMMA LateMeans ==
  ASSUME NEW c, AllPass(LateChecks, c)
  PROVE  {"audit shape", "rollup role", "audit grants", "revisions", "narrow sessions"} \subseteq c.facts
<1>1. Passes("audit shape", c)
  <2>1. LateChecks[1].name = "audit shape"
    BY DEF LateChecks, Check
  <2>2. 1 \in DOMAIN LateChecks
    BY TheChecks
  <2>3. Passes(LateChecks[1].name, c)
    BY <2>2 DEF AllPass
  <2> QED BY <2>1, <2>3
<1>2. Passes("audit grants", c)
  <2>1. LateChecks[2].name = "audit grants"
    BY DEF LateChecks, Check
  <2>2. 2 \in DOMAIN LateChecks
    BY TheChecks
  <2>3. Passes(LateChecks[2].name, c)
    BY <2>2 DEF AllPass
  <2> QED BY <2>1, <2>3
<1>3. Passes("mutations", c)
  <2>1. LateChecks[3].name = "mutations"
    BY DEF LateChecks, Check
  <2>2. 3 \in DOMAIN LateChecks
    BY TheChecks
  <2>3. Passes(LateChecks[3].name, c)
    BY <2>2 DEF AllPass
  <2> QED BY <2>1, <2>3
<1>4. Passes("session grants", c)
  <2>1. LateChecks[4].name = "session grants"
    BY DEF LateChecks, Check
  <2>2. 4 \in DOMAIN LateChecks
    BY TheChecks
  <2>3. Passes(LateChecks[4].name, c)
    BY <2>2 DEF AllPass
  <2> QED BY <2>1, <2>3
<1>5. "audit shape" \in c.facts
  BY <1>1 DEF Passes, AuthAuditSchema, Has
<1>6. "rollup role" \in c.facts /\ "audit grants" \in c.facts
  BY <1>2 DEF Passes, AuthAuditGrants, Has
<1>7. "revisions" \in c.facts
  BY <1>3 DEF Passes, ThoughtMutationSchema, Has
<1>8. "narrow sessions" \in c.facts
  BY <1>4 DEF Passes, SessionUpdateGrants, Has
<1> QED BY <1>5, <1>6, <1>7, <1>8

LEMMA LaterMeans ==
  ASSUME NEW c, AllPass(LaterQueries, c)
  PROVE  {"principal readable", "oauth", "oauth readable", "workspace"} \subseteq c.facts /\ ForgetSchema(c)
<1>1. Passes("token columns", c)
  <2>1. LaterQueries[1].name = "token columns"
    BY DEF LaterQueries, Check
  <2>2. 1 \in DOMAIN LaterQueries
    BY TheChecks
  <2>3. Passes(LaterQueries[1].name, c)
    BY <2>2 DEF AllPass
  <2> QED BY <2>1, <2>3
<1>2. Passes("forgetting", c)
  <2>1. LaterQueries[2].name = "forgetting"
    BY DEF LaterQueries, Check
  <2>2. 2 \in DOMAIN LaterQueries
    BY TheChecks
  <2>3. Passes(LaterQueries[2].name, c)
    BY <2>2 DEF AllPass
  <2> QED BY <2>1, <2>3
<1>3. Passes("admission", c)
  <2>1. LaterQueries[3].name = "admission"
    BY DEF LaterQueries, Check
  <2>2. 3 \in DOMAIN LaterQueries
    BY TheChecks
  <2>3. Passes(LaterQueries[3].name, c)
    BY <2>2 DEF AllPass
  <2> QED BY <2>1, <2>3
<1>4. Passes("admission columns", c)
  <2>1. LaterQueries[4].name = "admission columns"
    BY DEF LaterQueries, Check
  <2>2. 4 \in DOMAIN LaterQueries
    BY TheChecks
  <2>3. Passes(LaterQueries[4].name, c)
    BY <2>2 DEF AllPass
  <2> QED BY <2>1, <2>3
<1>5. Passes("workspace", c)
  <2>1. LaterQueries[6].name = "workspace"
    BY DEF LaterQueries, Check
  <2>2. 6 \in DOMAIN LaterQueries
    BY TheChecks
  <2>3. Passes(LaterQueries[6].name, c)
    BY <2>2 DEF AllPass
  <2> QED BY <2>1, <2>3
<1>6. "principal readable" \in c.facts
  BY <1>1 DEF Passes, Has
<1>7. ForgetSchema(c)
  BY <1>2 DEF Passes
<1>8. "oauth" \in c.facts
  BY <1>3 DEF Passes, Has
<1>9. "oauth readable" \in c.facts
  BY <1>4 DEF Passes, Has
<1>10. "workspace" \in c.facts
  BY <1>5 DEF Passes, Has
<1> QED BY <1>6, <1>7, <1>8, <1>9, <1>10

\* A server that has come through every gate looks at a whole catalogue.
LEMMA ThroughMeansWhole ==
  ASSUME Passed, Reached = 7
  PROVE  /\ Facts \ {"own workspace", "old register"} \subseteq catalogue.facts /\ "old register" \notin catalogue.facts
         /\ catalogue.index = "live" /\ catalogue.kinds = "five" /\ \A h \in Helpers : catalogue.helper[h] = "filtered"
<1>1. AllPass(EarlyChecks, catalogue)
  BY DEF Passed
<1>2. AllPass(LateChecks, catalogue)
  BY DEF Passed
<1>3. AllPass(LaterQueries, catalogue)
  <2>1. \A i \in DOMAIN LaterQueries : 7 > i
    BY TheChecks
  <2> QED BY <2>1 DEF Passed, AllPass
<1>4. /\ {"lexical", "spaces", "passages", "ledger", "tokens", "principals"} \subseteq catalogue.facts
      /\ "old register" \notin catalogue.facts
  BY <1>1, EarlyMeans
<1>5. {"audit shape", "rollup role", "audit grants", "revisions", "narrow sessions"} \subseteq catalogue.facts
  BY <1>2, LateMeans
<1>6. {"principal readable", "oauth", "oauth readable", "workspace"} \subseteq catalogue.facts /\ ForgetSchema(catalogue)
  BY <1>3, LaterMeans
<1>7. /\ "forget" \in catalogue.facts /\ catalogue.index = "live" /\ catalogue.kinds = "five"
      /\ \A h \in Helpers : catalogue.helper[h] = "filtered"
  BY <1>6 DEF ForgetSchema, Has
<1>8. Facts \ {"own workspace", "old register"} \subseteq catalogue.facts
  BY <1>4, <1>5, <1>6, <1>7 DEF Facts
<1> QED BY <1>4, <1>7, <1>8
-----------------------------------------------------------------------------
(* The steps of the server. *)

LEMMA NothingToDo == <<>> \in Beside /\ <<>> \in Advices /\ <<>> \in Lates /\ \A c : Due(<<>>, c)
<1>1. <<>> \in Beside /\ <<>> # <<"12">>
  BY DEF Beside
<1>2. <<>> \in Advices
  BY <1>1 DEF Advices
<1>3. \A c : Due(<<>>, c)
  BY DEF Due
<1> QED BY <1>1, <1>2, <1>3 DEF Lates

LEMMA Typed ==
  ASSUME catalogue' \in Catalogues, stored' \subseteq {"metadata revision", "forget revision", "recaptured text"},
         activated' \in BOOLEAN, keys' \in BOOLEAN, server' \in Servers, query' \in 0..7, late' \in Lates, advice' \in Advices,
         server' = "stopped" => advice' = <<>>, server' # "stopped" => todo' \in Beside
  PROVE  TypeOK'
BY DEF TypeOK

\* A refusal names steps that are due, and leaves the probe at its beginning.
LEMMA RefusalKeeps ==
  ASSUME IInv, server # "stopped", NEW apply \in Advices, Refuse(apply), Due(apply, catalogue),
         apply = <<"10">> => "revisions" \notin catalogue.facts \/ (MoveUnfiltered(catalogue) /\ todo = <<>>)
  PROVE  IInv'
<1>1. TypeOK'
  <2>1. TypeOK
    BY DEF IInv
  <2>2. /\ catalogue' \in Catalogues /\ activated' \in BOOLEAN /\ keys' \in BOOLEAN
        /\ stored' \subseteq {"metadata revision", "forget revision", "recaptured text"}
    BY <2>1 DEF TypeOK, Refuse
  <2>3. server' \in Servers /\ query' \in 0..7 /\ late' \in Lates
    BY NothingToDo DEF Servers, Refuse
  <2>4. /\ advice' \in Advices
        /\ server' = "stopped" => advice' = <<>>
        /\ server' # "stopped" => todo' \in Beside
    BY <2>1, NothingToDo DEF TypeOK, Refuse
  <2> QED BY <2>2, <2>3, <2>4, Typed
<1>2. Sound(catalogue)' /\ Fits(catalogue)'
  BY DEF IInv, Refuse, Sound, Fits
<1>3. Pending'
  BY DEF IInv, Pending, Refuse
<1>4. Passed'
  <2>1. Reached' = 0
    BY DEF Refuse, Reached
  <2>2. \A i \in DOMAIN LaterQueries : ~(0 > i)
    BY TheChecks
  <2> QED BY <2>1, <2>2 DEF Passed, Refuse
<1> QED BY <1>1, <1>2, <1>3, <1>4 DEF IInv

LEMMA StartKeeps ==
  ASSUME IInv, Start
  PROVE  IInv'
<1>1. TypeOK'
  <2>1. TypeOK
    BY DEF IInv
  <2>2. /\ catalogue' \in Catalogues /\ activated' \in BOOLEAN /\ keys' \in BOOLEAN
        /\ stored' \subseteq {"metadata revision", "forget revision", "recaptured text"}
    BY <2>1 DEF TypeOK, Start, Continue
  <2>3. server' \in Servers /\ query' \in 0..7 /\ late' \in Lates
    BY NothingToDo DEF Servers, Start, Continue
  <2>4. /\ advice' \in Advices
        /\ server' = "stopped" => advice' = <<>>
        /\ server' # "stopped" => todo' \in Beside
    BY <2>1, NothingToDo DEF TypeOK, Start, Continue
  <2> QED BY <2>2, <2>3, <2>4, Typed
<1>2. Sound(catalogue)' /\ Fits(catalogue)'
  BY DEF IInv, Start, Continue, Sound, Fits
<1>3. Pending'
  <2>1. /\ Due(todo, catalogue) /\ Due(advice, catalogue)
        /\ todo = <<"10">> => MoveUnfiltered(catalogue)
        /\ advice = <<"10">> => "revisions" \notin catalogue.facts \/ (MoveUnfiltered(catalogue) /\ todo = <<>>)
    <3>1. CASE server = "exited"
      BY <3>1 DEF IInv, Pending
    <3>2. CASE server = "stopped" /\ todo = <<>>
      <4>1. advice = <<>>
        BY <3>2 DEF IInv, TypeOK
      <4> QED BY <3>2, <4>1, NothingToDo
    <3> QED BY <3>1, <3>2 DEF Start
  <2>2. UNCHANGED <<catalogue, todo, advice>> /\ late' = <<>>
    BY DEF Start, Continue
  <2>3. Due(todo', catalogue') /\ Due(advice', catalogue')
    BY <2>1, <2>2
  <2> QED BY <2>1, <2>2, <2>3 DEF Pending
<1>4. Passed'
  <2>1. Reached' = 0
    BY DEF Start, Continue, Reached
  <2>2. \A i \in DOMAIN LaterQueries : ~(0 > i)
    BY TheChecks
  <2> QED BY <2>1, <2>2 DEF Passed, Start, Continue
<1> QED BY <1>1, <1>2, <1>3, <1>4 DEF IInv

\* What is pending stays so while the catalogue, the operator's steps and the refusal do.
LEMMA PendingStaysSo ==
  ASSUME IInv, server # "stopped", UNCHANGED <<catalogue, todo, advice>>,
         late' = <<"10">> => late = <<"10">> \/ "revisions" \notin catalogue.facts
  PROVE  Pending'
BY DEF IInv, Pending

LEMMA CatalogueQueryKeeps ==
  ASSUME IInv, CatalogueQuery
  PROVE  IInv'
<1>1. CASE Refuse(<<>>)
  BY <1>1, RefusalKeeps, NothingToDo DEF CatalogueQuery
<1>2. CASE Advice(EarlyChecks, catalogue) # <<>> /\ Refuse(Advice(EarlyChecks, catalogue))
  <2> DEFINE apply == Advice(EarlyChecks, catalogue)
  <2>1. /\ apply \in {<<>>, <<"05">>, <<"06">>, <<"15">>, <<"07">>, <<"08", "14">>}
        /\ apply = <<"06">> => ~SpacesSchema(catalogue)
        /\ apply = <<"15">> => ~PassageSearchSchema(catalogue)
        /\ apply = <<"08", "14">> => ~NativeAccessTokenSchema(catalogue)
    BY EarlyAdvice
  <2>2. Refuse(apply)
    BY <1>2
  <2> HIDE DEF apply
  <2>3. apply \in Advices /\ apply # <<"10">>
    BY <2>1 DEF Advices, Beside
  <2>4. Due(apply, catalogue)
    BY <2>1 DEF Due
  <2>5. server # "stopped"
    BY DEF CatalogueQuery
  <2> QED BY <2>2, <2>3, <2>4, <2>5, RefusalKeeps
<1>3. CASE Advice(EarlyChecks, catalogue) = <<>> /\ Continue("probing", 1, Advice(LateChecks, catalogue))
  <2> DEFINE pending == Advice(LateChecks, catalogue)
  <2>1. /\ pending = <<>> => AllPass(LateChecks, catalogue)
        /\ pending \in Lates
        /\ pending = <<"10">> => ~ThoughtMutationSchema(catalogue)
    BY LateAdvice
  <2>2. AllPass(EarlyChecks, catalogue)
    BY <1>3, EarlyAdvice
  <2>3. Continue("probing", 1, pending)
    BY <1>3
  <2> HIDE DEF pending
  <2>4. TypeOK'
    <3>1. TypeOK
      BY DEF IInv
    <3>2. /\ catalogue' \in Catalogues /\ activated' \in BOOLEAN /\ keys' \in BOOLEAN
          /\ stored' \subseteq {"metadata revision", "forget revision", "recaptured text"}
      BY <2>3, <3>1 DEF TypeOK, Continue
    <3>3. server' \in Servers /\ query' \in 0..7 /\ late' \in Lates
      BY <2>1, <2>3 DEF Servers, Continue
    <3>4. /\ advice' \in Advices
          /\ server' = "stopped" => advice' = <<>>
          /\ server' # "stopped" => todo' \in Beside
      BY <3>1, <2>1, <2>3 DEF TypeOK, Continue, CatalogueQuery
    <3> QED BY <3>2, <3>3, <3>4, Typed
  <2>5. Sound(catalogue)' /\ Fits(catalogue)'
    BY <2>3 DEF IInv, Continue, Sound, Fits
  <2>6. pending = <<"10">> => "revisions" \notin catalogue.facts
    BY <2>1 DEF IInv, Sound, ThoughtMutationSchema, Has
  <2>7. Pending'
    BY <2>3, <2>6, PendingStaysSo DEF Continue, CatalogueQuery
  <2>8. Passed'
    <3>1. Reached' = 1 /\ catalogue' = catalogue /\ late' = pending /\ query' = 1 /\ server' = "probing"
      BY <2>3 DEF Continue, Reached
    <3>2. \A i \in DOMAIN LaterQueries : ~(1 > i)
      BY TheChecks
    <3> QED BY <2>1, <2>2, <3>1, <3>2 DEF Passed
  <2> QED BY <2>4, <2>5, <2>7, <2>8 DEF IInv
<1> QED BY <1>1, <1>2, <1>3 DEF CatalogueQuery

LEMMA LaterQueryKeeps ==
  ASSUME IInv, LaterQuery
  PROVE  IInv'
<1> DEFINE found == Advice(<<LaterQueries[query]>>, catalogue)
<1>1. /\ server = "probing" /\ query \in 1..6
      /\ \/ found # <<>> /\ Refuse(found)
         \/ found = <<>> /\ late # <<>> /\ Refuse(late)
         \/ found = <<>> /\ late = <<>> /\ Continue("probing", query + 1, <<>>)
  BY TheChecks DEF LaterQuery
<1>2. \/ found = <<>> /\ Passes(LaterQueries[query].name, catalogue)
      \/ /\ found \in {<<"14">>, <<"17">>, <<"13">>, <<"07">>, <<"workspace">>}
         /\ found = <<"17">> => query = 2
  BY <1>1, LaterAdvice
<1> HIDE DEF found
<1>3. Reached = query
  BY <1>1 DEF Reached
<1>4. CASE found # <<>> /\ Refuse(found)
  <2>1. found \in Advices /\ found # <<"10">>
    BY <1>2, <1>4 DEF Advices, Beside
  <2>2. Due(found, catalogue)
    <3>1. CASE found = <<"17">>
      <4>1. AllPass(LateChecks, catalogue)
        BY <1>2, <1>3, <3>1 DEF IInv, Passed
      <4>2. "revisions" \in catalogue.facts
        BY <4>1, LateMeans
      <4> QED BY <3>1, <4>2 DEF Due
    <3>2. CASE found # <<"17">>
      BY <1>2, <1>4, <3>2 DEF Due
    <3> QED BY <3>1, <3>2
  <2>3. server # "stopped"
    BY <1>1
  <2> QED BY <1>4, <2>1, <2>2, <2>3, RefusalKeeps
<1>5. CASE late # <<>> /\ Refuse(late)
  <2>1. late \in Lates
    BY DEF IInv, TypeOK
  <2>2. late \in Advices /\ Due(late, catalogue)
    BY <2>1 DEF Lates, Advices, Beside, Due
  <2>3. server # "stopped"
    BY <1>1
  <2>4. late = <<"10">> => "revisions" \notin catalogue.facts \/ (MoveUnfiltered(catalogue) /\ todo = <<>>)
    BY <2>3 DEF IInv, Pending
  <2> QED BY <1>5, <2>2, <2>3, <2>4, RefusalKeeps
<1>6. CASE found = <<>> /\ late = <<>> /\ Continue("probing", query + 1, <<>>)
  <2>1. Passes(LaterQueries[query].name, catalogue)
    BY <1>2, <1>6
  <2>2. /\ server' = "probing" /\ query' = query + 1 /\ late' = <<>>
        /\ UNCHANGED <<catalogue, stored, activated, keys, advice, todo>>
    BY <1>6 DEF Continue
  <2>3. TypeOK'
    <3>1. TypeOK
      BY DEF IInv
    <3>2. /\ catalogue' \in Catalogues /\ activated' \in BOOLEAN /\ keys' \in BOOLEAN
          /\ stored' \subseteq {"metadata revision", "forget revision", "recaptured text"}
      BY <2>2, <3>1 DEF TypeOK
    <3>3. server' \in Servers /\ query' \in 0..7 /\ late' \in Lates
      BY <1>1, <2>2, NothingToDo DEF Servers
    <3>4. /\ advice' \in Advices
          /\ server' = "stopped" => advice' = <<>>
          /\ server' # "stopped" => todo' \in Beside
      BY <1>1, <2>2, <3>1 DEF TypeOK
    <3> QED BY <3>2, <3>3, <3>4, Typed
  <2>4. Sound(catalogue)' /\ Fits(catalogue)'
    BY <2>2 DEF IInv, Sound, Fits
  <2>5. Pending'
    BY <1>1, <2>2, PendingStaysSo
  <2>6. Passed'
    <3>1. Reached' = query + 1 /\ Reached >= 1 /\ Reached' >= 2
      BY <1>1, <1>3, <2>2 DEF Reached
    <3>2. AllPass(EarlyChecks, catalogue) /\ AllPass(LateChecks, catalogue)
      BY <1>1, <1>3, <1>6 DEF IInv, Passed
    <3>3. ASSUME NEW i \in DOMAIN LaterQueries, Reached' > i
          PROVE  Passes(LaterQueries[i].name, catalogue)
      <4>1. i = query \/ query > i
        BY <1>1, <3>1, <3>3, TheChecks
      <4>2. CASE i = query
        BY <2>1, <4>2
      <4>3. CASE query > i
        BY <1>3, <4>3 DEF IInv, Passed
      <4> QED BY <4>1, <4>2, <4>3
    <3> QED BY <2>2, <3>1, <3>2, <3>3 DEF Passed
  <2> QED BY <2>3, <2>4, <2>5, <2>6 DEF IInv
<1> QED BY <1>1, <1>4, <1>5, <1>6

LEMMA ProbeKeeps ==
  ASSUME IInv, Rejected \/ Deadline \/ (JwksProbe /\ Refuse(<<>>))
  PROVE  IInv'
<1>1. server # "stopped" /\ Refuse(<<>>)
  BY DEF Rejected, Deadline, JwksProbe
<1>2. <<>> # <<"10">>
  OBVIOUS
<1> QED BY <1>1, <1>2, NothingToDo, RefusalKeeps

\* A step that leaves the catalogue, and how far the probe has come, as they were.
LEMMA QuietStep ==
  ASSUME IInv, server # "stopped", server' # "stopped", UNCHANGED <<catalogue, todo, advice, query, late, activated>>, TypeOK',
         Reached' = Reached, stored' = stored \/ Fits(catalogue)',
         server' \in {"exited", "embedding", "serving"} => query = 0 /\ late = <<>>,
         server' = "serving" => activated
  PROVE  IInv'
<1>1. Sound(catalogue)' /\ Fits(catalogue)'
  BY DEF IInv, Sound, Fits
<1>2. Pending'
  BY PendingStaysSo
<1>3. Passed'
  BY DEF IInv, Passed
<1> QED BY <1>1, <1>2, <1>3 DEF IInv

LEMMA HangKeeps ==
  ASSUME IInv, Hang \/ (JwksProbe /\ keys' = TRUE /\ UNCHANGED <<catalogue, stored, activated, server, query, late, advice, todo>>)
  PROVE  IInv'
<1>1. /\ server \in {"probing", "hung"} /\ server' \in {"probing", "hung"} /\ keys' \in {keys, TRUE}
      /\ UNCHANGED <<catalogue, stored, activated, query, late, advice, todo>>
  BY DEF Hang, Continue, JwksProbe
<1>2. TypeOK'
  <2>1. TypeOK
    BY DEF IInv
  <2>2. /\ catalogue' \in Catalogues /\ activated' \in BOOLEAN /\ keys' \in BOOLEAN
        /\ stored' \subseteq {"metadata revision", "forget revision", "recaptured text"}
    BY <1>1, <2>1 DEF TypeOK
  <2>3. server' \in Servers /\ query' \in 0..7 /\ late' \in Lates
    BY <1>1, <2>1 DEF TypeOK, Servers
  <2>4. /\ advice' \in Advices
        /\ server' = "stopped" => advice' = <<>>
        /\ server' # "stopped" => todo' \in Beside
    BY <1>1, <2>1 DEF TypeOK
  <2> QED BY <2>2, <2>3, <2>4, Typed
<1>3. Reached' = Reached
  BY <1>1 DEF Reached
<1> QED BY <1>1, <1>2, <1>3, QuietStep

LEMMA ProbedKeeps ==
  ASSUME IInv, Probed
  PROVE  IInv'
<1>1. /\ server = "probing" /\ query > 6 /\ server' = "embedding" /\ query' = 0 /\ late' = <<>>
      /\ UNCHANGED <<catalogue, stored, activated, keys, advice, todo>>
  BY DEF Probed, Continue, LaterQueries
<1>2. TypeOK
  BY DEF IInv
<1>3. Reached = 7 /\ Reached' = 7
  <2>1. query \in 0..7
    BY <1>2 DEF TypeOK
  <2>2. query > 6
    BY <1>1
  <2>3. query = 7
    BY <2>1, <2>2
  <2> QED BY <1>1, <2>3 DEF Reached
<1>4. TypeOK'
  <2>1. /\ catalogue' \in Catalogues /\ activated' \in BOOLEAN /\ keys' \in BOOLEAN
        /\ stored' \subseteq {"metadata revision", "forget revision", "recaptured text"}
    BY <1>1, <1>2 DEF TypeOK
  <2>2. server' \in Servers /\ query' \in 0..7 /\ late' \in Lates
    BY <1>1, NothingToDo DEF Servers
  <2>3. /\ advice' \in Advices
        /\ server' = "stopped" => advice' = <<>>
        /\ server' # "stopped" => todo' \in Beside
    BY <1>1, <1>2 DEF TypeOK
  <2> QED BY <2>1, <2>2, <2>3, Typed
<1>5. Sound(catalogue)' /\ Fits(catalogue)'
  BY <1>1 DEF IInv, Sound, Fits
<1>6. Pending'
  BY <1>1, PendingStaysSo
<1>7. Passed'
  BY <1>1, <1>3 DEF IInv, Passed
<1> QED BY <1>4, <1>5, <1>6, <1>7 DEF IInv

LEMMA EmbeddingGateKeeps ==
  ASSUME IInv, EmbeddingGate
  PROVE  IInv'
<1>1. CASE Refuse(<<"15", "backfill">>)
  <2>1. /\ <<"15", "backfill">> \in Advices /\ <<"15", "backfill">> # <<"10">>
        /\ Due(<<"15", "backfill">>, catalogue)
    BY DEF Advices, Due
  <2>2. server # "stopped"
    BY DEF EmbeddingGate
  <2> QED BY <1>1, <2>1, <2>2, RefusalKeeps
<1>2. CASE ~Refuse(<<"15", "backfill">>)
  <2>1. /\ server = "embedding" /\ activated /\ server' = "serving" /\ advice' = <<>> /\ keys' = FALSE
        /\ UNCHANGED <<catalogue, stored, activated, query, late, todo>>
    BY <1>2 DEF EmbeddingGate
  <2>2. TypeOK'
    <3>1. TypeOK
      BY DEF IInv
    <3>2. /\ catalogue' \in Catalogues /\ activated' \in BOOLEAN /\ keys' \in BOOLEAN
          /\ stored' \subseteq {"metadata revision", "forget revision", "recaptured text"}
      BY <2>1, <3>1 DEF TypeOK
    <3>3. server' \in Servers /\ query' \in 0..7 /\ late' \in Lates
      BY <2>1, <3>1 DEF TypeOK, Servers
    <3>4. /\ advice' \in Advices
          /\ server' = "stopped" => advice' = <<>>
          /\ server' # "stopped" => todo' \in Beside
      BY <2>1, <3>1, NothingToDo DEF TypeOK
    <3> QED BY <3>2, <3>3, <3>4, Typed
  <2>3. Sound(catalogue)' /\ Fits(catalogue)'
    BY <2>1 DEF IInv, Sound, Fits
  <2>4. Pending'
    BY <2>1, NothingToDo DEF IInv, Pending
  <2>5. Passed'
    <3>1. Reached' = Reached
      BY <2>1 DEF Reached
    <3> QED BY <2>1, <3>1 DEF IInv, Passed
  <2> QED BY <2>2, <2>3, <2>4, <2>5 DEF IInv
<1> QED BY <1>1, <1>2

\* What is served is stored on a catalogue that the server has found whole.
LEMMA RecordKeeps ==
  ASSUME IInv, NEW what \in {"metadata revision", "forget revision", "recaptured text"}, Record(what)
  PROVE  IInv'
<1>1. /\ server = "serving" /\ stored' = stored \cup {what}
      /\ UNCHANGED <<catalogue, activated, server, query, late, keys, advice, todo>>
  BY DEF Record
<1>2. Reached = 7 /\ Reached' = 7
  BY <1>1 DEF Reached
<1>3. catalogue.index = "live" /\ catalogue.kinds = "five"
  BY <1>2, ThroughMeansWhole DEF IInv
<1>4. Fits(catalogue)'
  BY <1>1, <1>3 DEF Fits
<1>5. TypeOK'
  <2>1. TypeOK
    BY DEF IInv
  <2> QED BY <1>1, <2>1, Typed DEF TypeOK
<1> QED BY <1>1, <1>2, <1>4, <1>5, QuietStep DEF IInv, Passed
-----------------------------------------------------------------------------
(* The steps of the operator. *)

LEMMA WindowKeeps ==
  ASSUME IInv, NEW steps, Window(steps)
  PROVE  IInv'
<1>1. /\ server' = "stopped" /\ advice' = <<>> /\ query' = 0 /\ late' = <<>> /\ keys' = FALSE
      /\ UNCHANGED <<catalogue, stored, activated>>
  BY DEF Window
<1>2. TypeOK
  BY DEF IInv
<1>3. TypeOK'
  <2>1. /\ catalogue' \in Catalogues /\ activated' \in BOOLEAN /\ keys' \in BOOLEAN
        /\ stored' \subseteq {"metadata revision", "forget revision", "recaptured text"}
    BY <1>1, <1>2 DEF TypeOK
  <2>2. server' \in Servers /\ query' \in 0..7 /\ late' \in Lates /\ advice' \in Advices
    BY <1>1, NothingToDo DEF Servers
  <2> QED BY <1>1, <2>1, <2>2, Typed
<1>4. Sound(catalogue)' /\ Fits(catalogue)'
  BY <1>1 DEF IInv, Sound, Fits
<1>5. Pending'
  BY <1>1 DEF Pending
<1>6. Passed'
  <2>1. Reached' = 0
    BY <1>1 DEF Reached
  <2>2. \A i \in DOMAIN LaterQueries : ~(0 > i)
    BY TheChecks
  <2> QED BY <1>1, <2>1, <2>2 DEF Passed
<1> QED BY <1>3, <1>4, <1>5, <1>6 DEF IInv

LEMMA FollowKeeps ==
  ASSUME IInv, Follow
  PROVE  IInv'
<1>1. CASE Window(advice)
  BY <1>1, WindowKeeps
<1>2. CASE /\ server # "stopped" /\ Last(advice) # "backfill" /\ todo' = advice /\ advice' = <<>>
           /\ UNCHANGED <<catalogue, stored, activated, server, query, late, keys>>
  <2>1. TypeOK
    BY DEF IInv
  <2>2. advice \in Beside
    <3>1. advice # <<"15", "backfill">>
      BY <1>2 DEF Last
    <3> QED BY <2>1, <3>1 DEF TypeOK, Advices
  <2>3. TypeOK'
    BY <1>2, <2>1, <2>2, NothingToDo, Typed DEF TypeOK
  <2>4. Sound(catalogue)' /\ Fits(catalogue)'
    BY <1>2 DEF IInv, Sound, Fits
  <2>5. Pending'
    <3>1. advice = <<"10">> => MoveUnfiltered(catalogue)
      BY <1>2 DEF IInv, Pending, Sound, MoveUnfiltered
    <3>2. late = <<"10">> => "revisions" \notin catalogue.facts
      BY <1>2 DEF IInv, Pending, Follow
    <3>3. Due(advice, catalogue)
      BY <1>2 DEF IInv, Pending
    <3> QED BY <1>2, <3>1, <3>2, <3>3, NothingToDo DEF Pending
  <2>6. Passed'
    <3>1. Reached' = Reached
      BY <1>2 DEF Reached
    <3> QED BY <1>2, <3>1 DEF IInv, Passed
  <2> QED BY <2>3, <2>4, <2>5, <2>6 DEF IInv
<1> QED BY <1>1, <1>2 DEF Follow

LEMMA AbandonKeeps ==
  ASSUME IInv, Abandon
  PROVE  IInv'
<1>1. /\ todo # <<>> /\ todo' = <<>>
      /\ UNCHANGED <<catalogue, stored, activated, server, query, late, keys, advice>>
  BY DEF Abandon
<1>2. TypeOK'
  <2>1. TypeOK
    BY DEF IInv
  <2> QED BY <1>1, <2>1, NothingToDo, Typed DEF TypeOK
<1>3. Sound(catalogue)' /\ Fits(catalogue)'
  BY <1>1 DEF IInv, Sound, Fits
<1>4. Pending'
  <2>1. <<>> # <<"10">>
    OBVIOUS
  <2> QED BY <1>1, <2>1, NothingToDo DEF IInv, Pending
<1>5. Passed'
  <2>1. Reached' = Reached
    BY <1>1 DEF Reached
  <2> QED BY <1>1, <2>1 DEF IInv, Passed
<1> QED BY <1>2, <1>3, <1>4, <1>5 DEF IInv

\* With the server stopped nothing is pending and nothing has been passed.
LEMMA StoppedKeeps ==
  ASSUME IInv, server = "stopped", UNCHANGED <<stored, server, query, late, keys, advice>>, activated' \in BOOLEAN,
         catalogue' \in Catalogues, Sound(catalogue'), Fits(catalogue')
  PROVE  IInv'
<1>1. TypeOK
  BY DEF IInv
<1>2. TypeOK'
  BY <1>1, Typed DEF TypeOK
<1>3. Pending'
  BY DEF Pending
<1>4. Passed'
  <2>1. query = 0 /\ late = <<>>
    BY DEF IInv, Passed
  <2>2. Reached = 0
    BY <2>1 DEF Reached
  <2> QED BY <2>1, <2>2, NothingPassed DEF IInv
<1>5. Sound(catalogue)' /\ Fits(catalogue)'
  BY DEF Fits
<1> QED BY <1>2, <1>3, <1>4, <1>5 DEF IInv

LEMMA DriftKeeps ==
  ASSUME IInv, NEW g \in {"principal readable", "oauth readable", "audit grants", "narrow sessions"}, Drift(g)
  PROVE  IInv'
<1>1. catalogue \in Catalogues /\ {g} \in SUBSET Facts
  BY DEF IInv, TypeOK, Facts
<1>2. PICK d \in Catalogues : /\ d = Lacking(catalogue, {g}) /\ d.facts = catalogue.facts \ {g}
                              /\ d.index = catalogue.index /\ d.kinds = catalogue.kinds /\ d.helper = catalogue.helper
  BY <1>1, Removing
<1>3. /\ server = "stopped" /\ catalogue' = d
      /\ UNCHANGED <<stored, activated, server, query, late, keys, advice>>
  BY <1>2 DEF Drift
<1>4. Sound(d)
  BY <1>2 DEF IInv, Sound
<1>5. Fits(d)
  BY <1>2 DEF IInv, Fits
<1> QED BY <1>3, <1>4, <1>5, StoppedKeeps DEF IInv, TypeOK

LEMMA TroubleKeeps ==
  ASSUME IInv, (\E o \in Outages : Fail(o)) \/ Recover \/ UNCHANGED vars
  PROVE  IInv'
<1>1. UNCHANGED <<catalogue, stored, activated, server, query, late, keys, advice, todo>>
  BY DEF Fail, Recover, vars
<1>2. TypeOK'
  <2>1. TypeOK
    BY DEF IInv
  <2> QED BY <1>1, <2>1, Typed DEF TypeOK
<1>3. Sound(catalogue)' /\ Fits(catalogue)'
  BY <1>1 DEF IInv, Sound, Fits
<1>4. Pending'
  BY <1>1 DEF IInv, Pending
<1>5. Passed'
  <2>1. Reached' = Reached
    BY <1>1 DEF Reached
  <2> QED BY <1>1, <2>1 DEF IInv, Passed
<1> QED BY <1>2, <1>3, <1>4, <1>5 DEF IInv

\* Beside a running server, with what was asked for done or given up.
LEMMA LastStepBeside ==
  ASSUME IInv, server # "stopped", todo # <<>>, todo' = <<>>, advice' = <<>>, Keeps(catalogue, catalogue'), Sound(catalogue'),
         Grows(catalogue, catalogue') \/ (Reached = 0 /\ late = <<>>),
         UNCHANGED <<stored, activated, server, query, late, keys>>
  PROVE  IInv'
<1>1. TypeOK
  BY DEF IInv
<1>2. catalogue' \in Catalogues
  BY DEF Keeps
<1>3. TypeOK'
  BY <1>1, <1>2, NothingToDo, Typed DEF TypeOK
<1>4. Fits(catalogue)'
  <2>1. Fits(catalogue')
    BY RowsStillFit DEF IInv
  <2> QED BY <2>1 DEF Fits
<1>5. Passed'
  <2>1. CASE Grows(catalogue, catalogue')
    BY <2>1, PassedStaysSo DEF IInv
  <2>2. CASE Reached = 0
    BY <2>2, NothingPassed DEF IInv
  <2> QED BY <2>1, <2>2
<1>6. Pending'
  <2>1. late = <<"10">> => "revisions" \notin catalogue.facts
    BY DEF IInv, Pending
  <2>2. late = <<"10">> => MoveUnfiltered(catalogue')
    BY <2>1 DEF Keeps, MoveUnfiltered
  <2>3. <<>> # <<"10">>
    OBVIOUS
  <2> QED BY <2>2, <2>3, NothingToDo DEF Pending
<1> QED BY <1>3, <1>4, <1>5, <1>6 DEF IInv

\* The first of two steps asked for beside a running server.
LEMMA FirstStepBeside ==
  ASSUME IInv, server # "stopped", todo # <<>>, todo' \in {<<"14">>, <<"12">>}, advice' = advice,
         Keeps(catalogue, catalogue'), Sound(catalogue'),
         Grows(catalogue, catalogue') \/ (Reached = 0 /\ late = <<>>),
         catalogue'.index = catalogue.index, catalogue'.helper = catalogue.helper,
         \A f \in {"spaces", "passages", "revisions"} : f \in catalogue'.facts <=> f \in catalogue.facts,
         ~NativeAccessTokenSchema(catalogue) => ~NativeAccessTokenSchema(catalogue'),
         UNCHANGED <<stored, activated, server, query, late, keys>>
  PROVE  IInv'
<1>1. TypeOK
  BY DEF IInv
<1>2. catalogue' \in Catalogues
  BY DEF Keeps
<1>3. TypeOK'
  <2>1. todo' \in Beside
    BY DEF Beside
  <2> QED BY <1>1, <1>2, <2>1, Typed DEF TypeOK
<1>4. Fits(catalogue)'
  <2>1. Fits(catalogue')
    BY RowsStillFit DEF IInv
  <2> QED BY <2>1 DEF Fits
<1>5. Passed'
  <2>1. CASE Grows(catalogue, catalogue')
    BY <2>1, PassedStaysSo DEF IInv
  <2>2. CASE Reached = 0
    BY <2>2, NothingPassed DEF IInv
  <2> QED BY <2>1, <2>2
<1>6. Pending'
  <2>1. Due(todo', catalogue') /\ todo' # <<"10">>
    BY DEF Due
  <2>2. Due(advice, catalogue')
    <3>1. Due(advice, catalogue)
      BY DEF IInv, Pending
    <3>2. ~SpacesSchema(catalogue) => ~SpacesSchema(catalogue')
      BY DEF SpacesSchema, Has
    <3>3. ~PassageSearchSchema(catalogue) => ~PassageSearchSchema(catalogue')
      BY DEF PassageSearchSchema, Has
    <3> QED BY <3>1, <3>2, <3>3 DEF Due
  <2>3. advice = <<"10">> => "revisions" \notin catalogue'.facts
    BY DEF IInv, Pending
  <2>4. late = <<"10">> => "revisions" \notin catalogue'.facts
    BY DEF IInv, Pending
  <2> QED BY <2>1, <2>2, <2>3, <2>4 DEF Pending
<1> QED BY <1>3, <1>4, <1>5, <1>6 DEF IInv

\* What a step of the window does, its outcome apart.
LEMMA TheStep ==
  ASSUME Apply
  PROVE  /\ todo # <<>> /\ todo' \in {<<>>, Tail(todo)} /\ advice' = (IF todo' = <<>> THEN <<>> ELSE advice)
         /\ UNCHANGED <<stored, server, query, late, keys>>
         /\ \/ /\ Head(todo) = "role" /\ catalogue' = With(catalogue, {"rollup role"})
               /\ todo' = Tail(todo) /\ activated' = activated
            \/ /\ Head(todo) = "workspace" /\ catalogue' = With(catalogue, {"workspace"})
               /\ todo' = Tail(todo) /\ activated' = activated
            \/ Head(todo) = "backfill" /\ catalogue' = catalogue /\ activated' \in {TRUE, activated}
            \/ /\ Head(todo) \in Migrations /\ Runs(Head(todo), catalogue) /\ catalogue' = After(Head(todo), catalogue)
               /\ todo' = Tail(todo) /\ activated' = activated
            \/ /\ Head(todo) \in Migrations /\ catalogue' \in {catalogue, After02(catalogue)}
               /\ todo' = <<>> /\ activated' = activated
<1>1. todo # <<>> /\ advice' = (IF todo' = <<>> THEN <<>> ELSE advice) /\ UNCHANGED <<stored, server, query, late, keys>>
  BY DEF Apply
<1>2. CASE Head(todo) = "role"
  BY <1>1, <1>2 DEF Apply, Migrations
<1>3. CASE Head(todo) = "workspace"
  BY <1>1, <1>3 DEF Apply, Migrations
<1>4. CASE Head(todo) = "backfill"
  BY <1>1, <1>4 DEF Apply, Migrations
<1>5. CASE Head(todo) \in Migrations
  <2>1. CASE Runs(Head(todo), catalogue)
    BY <1>1, <1>5, <2>1 DEF Apply, Migrations
  <2>2. CASE ~Runs(Head(todo), catalogue)
    BY <1>1, <1>5, <2>2 DEF Apply, Migrations
  <2> QED BY <2>1, <2>2
<1> QED BY <1>2, <1>3, <1>4, <1>5 DEF Apply

LEMMA ApplyStoppedKeeps ==
  ASSUME IInv, server = "stopped", Apply
  PROVE  IInv'
<1>1. /\ catalogue \in Catalogues /\ activated \in BOOLEAN /\ advice = <<>>
      /\ Sound(catalogue) /\ Fits(catalogue)
  BY DEF IInv, TypeOK
<1>2. UNCHANGED <<stored, server, query, late, keys, advice>> /\ activated' \in BOOLEAN
  BY <1>1, TheStep
<1>3. (Keeps(catalogue, catalogue') /\ Sound(catalogue')) \/ catalogue' = catalogue
  <2>1. CASE catalogue' = With(catalogue, {"rollup role"})
    BY <1>1, <2>1, AddingFacts DEF Good, Facts
  <2>2. CASE catalogue' = With(catalogue, {"workspace"})
    BY <1>1, <2>2, AddingFacts DEF Good, Facts
  <2>3. CASE Head(todo) \in Migrations /\ Runs(Head(todo), catalogue) /\ catalogue' = After(Head(todo), catalogue)
    BY <1>1, <2>3, MigrationKeeps DEF Runs
  <2>4. CASE catalogue' = After02(catalogue)
    BY <1>1, <2>4, Good02 DEF Good
  <2> QED BY <2>1, <2>2, <2>3, <2>4, TheStep
<1>4. catalogue' \in Catalogues /\ Sound(catalogue') /\ Fits(catalogue')
  BY <1>1, <1>3, RowsStillFit DEF Keeps
<1> QED BY <1>2, <1>4, StoppedKeeps

LEMMA NothingDone ==
  ASSUME NEW c \in Catalogues, Sound(c), NEW d \in {c, After02(c)}
  PROVE  Keeps(c, d) /\ Sound(d) /\ Grows(c, d)
<1>1. CASE d = c
  BY <1>1 DEF Keeps, Sound, Grows
<1>2. CASE d = After02(c)
  BY <1>2, Good02 DEF Good
<1> QED BY <1>1, <1>2

LEMMA ApplyBesideKeeps ==
  ASSUME IInv, server # "stopped", Apply
  PROVE  IInv'
<1>1. /\ catalogue \in Catalogues /\ Sound(catalogue) /\ todo \in Beside /\ query \in 0..7 /\ Passed
      /\ Due(todo, catalogue)
      /\ todo = <<"10">> => MoveUnfiltered(catalogue)
  BY DEF IInv, TypeOK, Pending
<1>2. todo # <<>> /\ UNCHANGED <<stored, server, query, late, keys>>
  BY TheStep
<1>3. CASE /\ todo' = <<>> /\ catalogue' \in {catalogue, After02(catalogue)} /\ activated' = activated
  <2>1. Keeps(catalogue, catalogue') /\ Sound(catalogue') /\ Grows(catalogue, catalogue')
    BY <1>1, <1>3, NothingDone
  <2>2. advice' = <<>>
    BY <1>3, TheStep
  <2> QED BY <1>2, <1>3, <2>1, <2>2, LastStepBeside
<1>4. CASE todo = <<"08", "14">> /\ catalogue' = After("08", catalogue) /\ todo' = <<"14">> /\ activated' = activated
  <2>1. ~NativeAccessTokenSchema(catalogue)
    BY <1>1, <1>4 DEF Due
  <2>2. Reached = 0 /\ late = <<>>
    BY <1>1, <2>1, ShutGates
  <2>3. catalogue' = After08(catalogue)
    BY <1>4 DEF After
  <2>4. /\ Keeps(catalogue, catalogue') /\ Sound(catalogue') /\ "old register" \in catalogue'.facts
        /\ catalogue'.index = catalogue.index /\ catalogue'.helper = catalogue.helper
        /\ \A f \in {"spaces", "passages", "revisions"} : f \in catalogue'.facts <=> f \in catalogue.facts
    BY <1>1, <2>3, Keeps08
  <2>5. ~NativeAccessTokenSchema(catalogue')
    BY <2>4 DEF NativeAccessTokenSchema, Has
  <2>6. advice' = advice
    BY <1>4, TheStep
  <2>7. todo' \in {<<"14">>, <<"12">>}
    BY <1>4
  <2> QED BY <1>2, <1>4, <2>2, <2>4, <2>5, <2>6, <2>7, FirstStepBeside
<1>5. CASE /\ todo = <<"role", "12">> /\ catalogue' = With(catalogue, {"rollup role"}) /\ todo' = <<"12">>
           /\ activated' = activated
  <2>1. {"rollup role"} \in SUBSET Facts /\ "old register" \notin {"rollup role"} /\ "revisions" \notin {"rollup role"}
    BY DEF Facts
  <2>2. Good(catalogue, catalogue')
    BY <1>1, <1>5, <2>1, AddingFacts
  <2>3. /\ catalogue'.facts = catalogue.facts \cup {"rollup role"}
        /\ catalogue'.index = catalogue.index /\ catalogue'.helper = catalogue.helper
    BY <1>1, <1>5, <2>1, Adding
  <2>4. \A f \in {"spaces", "passages", "revisions"} : f \in catalogue'.facts <=> f \in catalogue.facts
    BY <2>3
  <2>5. ~NativeAccessTokenSchema(catalogue) => ~NativeAccessTokenSchema(catalogue')
    BY <2>3 DEF NativeAccessTokenSchema, Has
  <2>6. advice' = advice
    BY <1>5, TheStep
  <2>7. todo' \in {<<"14">>, <<"12">>}
    BY <1>5
  <2> QED BY <1>2, <1>5, <2>2, <2>3, <2>4, <2>5, <2>6, <2>7, FirstStepBeside DEF Good
<1>6. CASE catalogue' = With(catalogue, {"workspace"}) /\ todo' = <<>> /\ activated' = activated
  <2>1. {"workspace"} \in SUBSET Facts /\ "old register" \notin {"workspace"} /\ "revisions" \notin {"workspace"}
    BY DEF Facts
  <2>2. Good(catalogue, catalogue')
    BY <1>1, <1>6, <2>1, AddingFacts
  <2>3. advice' = <<>>
    BY <1>6, TheStep
  <2> QED BY <1>2, <1>6, <2>2, <2>3, LastStepBeside DEF Good
<1>7. ASSUME NEW m \in {"02", "05", "06", "07", "10", "11", "12", "13", "14", "15", "17"}, todo = <<m>>, Runs(m, catalogue),
             catalogue' = After(m, catalogue), todo' = <<>>, activated' = activated
      PROVE  IInv'
  <2>1. m \in Migrations /\ Has(catalogue, Needs(m))
    BY <1>7 DEF Runs, Migrations
  <2>2. Keeps(catalogue, catalogue') /\ Sound(catalogue')
    BY <1>1, <1>7, <2>1, MigrationKeeps
  <2>3. Grows(catalogue, catalogue') \/ (Reached = 0 /\ late = <<>>)
    <3>1. CASE m \in {"06", "15"}
      <4>1. ~SpacesSchema(catalogue) \/ ~PassageSearchSchema(catalogue)
        BY <1>1, <1>7, <3>1 DEF Due
      <4> QED BY <1>1, <4>1, ShutGates
    <3>2. CASE m \notin {"06", "15"}
      <4>1. m \in Migrations \ {"06", "08", "15"}
        BY <2>1, <3>2
      <4>2. m = "10" => catalogue.helper["move"] # "filtered"
        BY <1>1, <1>7 DEF MoveUnfiltered
      <4> QED BY <1>1, <1>7, <2>1, <4>1, <4>2, MigrationGrows
    <3> QED BY <3>1, <3>2
  <2>4. advice' = <<>>
    BY <1>7, TheStep
  <2> QED BY <1>2, <1>7, <2>2, <2>3, <2>4, LastStepBeside
<1>8. CASE todo = <<"08", "14">> /\ Head(todo) = "08" /\ Tail(todo) = <<"14">>
  <2>1. Head(todo) # "role" /\ Head(todo) # "workspace" /\ Head(todo) # "backfill"
    BY <1>8
  <2> QED BY <1>3, <1>4, <1>8, <2>1, TheStep
<1>9. CASE todo = <<"role", "12">> /\ Head(todo) = "role" /\ Tail(todo) = <<"12">>
  <2>1. Head(todo) \notin Migrations /\ Head(todo) # "workspace" /\ Head(todo) # "backfill"
    BY <1>9 DEF Migrations
  <2> QED BY <1>5, <1>9, <2>1, TheStep
<1>10. CASE todo = <<"workspace">> /\ Head(todo) = "workspace" /\ Tail(todo) = <<>>
  <2>1. Head(todo) \notin Migrations /\ Head(todo) # "role" /\ Head(todo) # "backfill"
    BY <1>10 DEF Migrations
  <2> QED BY <1>6, <1>10, <2>1, TheStep
<1>11. ASSUME NEW m \in {"02", "05", "06", "07", "10", "11", "12", "13", "14", "15", "17"},
              todo = <<m>>, Head(todo) = m, Tail(todo) = <<>>
       PROVE  IInv'
  <2>1. Head(todo) # "role" /\ Head(todo) # "workspace" /\ Head(todo) # "backfill"
    BY <1>11
  <2> QED BY <1>3, <1>7, <1>11, <2>1, TheStep
<1>12. CASE /\ Head(todo) \in {"02", "05", "06", "07", "10", "11", "12", "13", "14", "15", "17", "workspace"}
            /\ todo = <<Head(todo)>> /\ Tail(todo) = <<>>
  <2>1. CASE Head(todo) = "workspace"
    BY <1>10, <1>12, <2>1
  <2>2. CASE Head(todo) # "workspace"
    BY <1>11, <1>12, <2>2
  <2> QED BY <2>1, <2>2
<1>13. \/ todo = <<"08", "14">> /\ Head(todo) = "08" /\ Tail(todo) = <<"14">>
       \/ todo = <<"role", "12">> /\ Head(todo) = "role" /\ Tail(todo) = <<"12">>
       \/ /\ Head(todo) \in {"02", "05", "06", "07", "10", "11", "12", "13", "14", "15", "17", "workspace"}
          /\ todo = <<Head(todo)>> /\ Tail(todo) = <<>>
  BY <1>1, <1>2, BesideSteps
<1> QED BY <1>8, <1>9, <1>12, <1>13
-----------------------------------------------------------------------------
(* The catalogues of the releases. *)

LEMMA ReleasesKeep ==
  ASSUME NEW own \in BOOLEAN, NEW n \in DOMAIN Releases(own)
  PROVE  /\ n \in 1..14 /\ Releases(own)[n] \in Catalogues /\ Sound(Releases(own)[n])
         /\ n >= 13 => Releases(own)[n].kinds \in {"three", "five"}
         /\ n >= 14 => Releases(own)[n].kinds = "five" /\ Releases(own)[n].index = "live"
<1> DEFINE c00 == First(own)     c05 == After05(c00)  c06 == After06(c05)  c07 == After07(c06)  c08 == After08(c07)
           c02 == After02(c08)   c10 == After10(c02)  c11 == After11(c10)
           crr == With(c11, {"rollup role"})          c12 == After12(crr)
           c13 == After13(c12)   c14 == After14(c13)  c15 == After15(c14)
           c16 == After16(c15)   c17 == After17(c16)
<1>1. c00 \in Catalogues /\ Sound(c00)
  <2>1. c00.facts \in SUBSET Facts
    BY DEF First, Facts
  <2>2. c00 \in Catalogues
    BY <2>1 DEF First, Catalogues, Indexes, Kinds
  <2>3. "move" \in Helpers
    BY DEF Helpers
  <2>4. c00.helper["move"] = "absent" /\ "revisions" \notin c00.facts
    BY <2>3 DEF First
  <2> QED BY <2>2, <2>4 DEF Sound
<1>2. Releases(own) = <<c00, c05, c06, c07, c08, c02, c10, c11, c12, c13, c14, c15, c16, c17>>
  BY DEF Releases
<1>3. \A c \in Catalogues : Sound(c) =>
        /\ After("05", c) = After05(c) /\ After("07", c) = After07(c) /\ After("11", c) = After11(c)
        /\ After("12", c) = After12(c) /\ After("13", c) = After13(c)
  BY DEF After
<1> HIDE DEF c00
<1>4. c05 \in Catalogues /\ Sound(c05)
  BY <1>1, <1>3, AddingMigrations DEF Good, Keeps
<1> HIDE DEF c05
<1>5. c06 \in Catalogues /\ Sound(c06)
  BY <1>4, Keeps06 DEF Keeps
<1> HIDE DEF c06
<1>6. c07 \in Catalogues /\ Sound(c07)
  BY <1>3, <1>5, AddingMigrations DEF Good, Keeps
<1> HIDE DEF c07
<1>7. c08 \in Catalogues /\ Sound(c08)
  BY <1>6, Keeps08 DEF Keeps
<1> HIDE DEF c08
<1>8. c02 \in Catalogues /\ Sound(c02)
  BY <1>7, Good02 DEF Good, Keeps
<1> HIDE DEF c02
<1>9. c10 \in Catalogues /\ Sound(c10) /\ "revisions" \in c10.facts
  BY <1>8, Keeps10 DEF Keeps
<1> HIDE DEF c10
<1>10. c11 \in Catalogues /\ Sound(c11) /\ "revisions" \in c11.facts
  BY <1>3, <1>9, AddingMigrations DEF Good, Keeps
<1> HIDE DEF c11
<1>11. crr \in Catalogues /\ Sound(crr) /\ "revisions" \in crr.facts
  <2>1. {"rollup role"} \in SUBSET Facts /\ "old register" \notin {"rollup role"} /\ "revisions" \notin {"rollup role"}
    BY DEF Facts
  <2> QED BY <1>10, <2>1, AddingFacts DEF Good, Keeps
<1> HIDE DEF crr
<1>12. c12 \in Catalogues /\ Sound(c12) /\ "revisions" \in c12.facts
  BY <1>3, <1>11, AddingMigrations DEF Good, Keeps
<1> HIDE DEF c12
<1>13. c13 \in Catalogues /\ Sound(c13) /\ "revisions" \in c13.facts
  BY <1>3, <1>12, AddingMigrations DEF Good, Keeps
<1> HIDE DEF c13
<1>14. c14 \in Catalogues /\ Sound(c14) /\ "revisions" \in c14.facts
  BY <1>13, Good14 DEF Good, Keeps
<1> HIDE DEF c14
<1>15. c15 \in Catalogues /\ Sound(c15) /\ "revisions" \in c15.facts
  BY <1>14, Keeps15 DEF Keeps
<1> HIDE DEF c15
<1>16. c16 \in Catalogues /\ Sound(c16) /\ "revisions" \in c16.facts /\ c16.kinds \in {"three", "five"}
  BY <1>15, Good16 DEF Good, Keeps
<1> HIDE DEF c16
<1>17. c17 \in Catalogues /\ Sound(c17) /\ c17.kinds = "five" /\ c17.index = "live"
  BY <1>16, Good17 DEF Good, Keeps
<1> HIDE DEF c17
<1>18. DOMAIN Releases(own) = 1..14
  BY <1>2
<1>19. CASE n = 13
  BY <1>2, <1>16, <1>19
<1>20. CASE n = 14
  BY <1>2, <1>17, <1>20
<1>21. CASE n \in 1..12
  <2>1. Releases(own)[n] \in {c00, c05, c06, c07, c08, c02, c10, c11, c12, c13, c14, c15}
    BY <1>2, <1>21
  <2>2. Releases(own)[n] \in Catalogues /\ Sound(Releases(own)[n])
    BY <1>1, <1>4, <1>5, <1>6, <1>7, <1>8, <1>9, <1>10, <1>12, <1>13, <1>14, <1>15, <2>1
  <2> QED BY <1>21, <2>2
<1> QED BY <1>18, <1>19, <1>20, <1>21

LEMMA InitHolds == Init => IInv
<1> SUFFICES ASSUME Init
             PROVE  IInv
  OBVIOUS
<1>1. PICK own \in BOOLEAN : \E n \in DOMAIN Releases(own) : /\ catalogue = Releases(own)[n]
                                                            /\ stored \in Holdings(n) /\ activated \in {FALSE, n >= 12}
  BY DEF Init
<1>2. PICK n \in DOMAIN Releases(own) : /\ catalogue = Releases(own)[n]
                                        /\ stored \in Holdings(n) /\ activated \in {FALSE, n >= 12}
  BY <1>1
<1>3. /\ n \in 1..14 /\ catalogue \in Catalogues /\ Sound(catalogue)
      /\ n >= 13 => catalogue.kinds \in {"three", "five"}
      /\ n >= 14 => catalogue.kinds = "five" /\ catalogue.index = "live"
  BY <1>2, ReleasesKeep
<1>4. /\ server = "stopped" /\ query = 0 /\ late = <<>> /\ keys = FALSE /\ advice = <<>>
  BY DEF Init
<1>5. Fits(catalogue)
  BY <1>2, <1>3 DEF Holdings, Fits
<1>6. TypeOK
  <2>1. stored \subseteq {"metadata revision", "forget revision", "recaptured text"}
    BY <1>2 DEF Holdings
  <2>2. (n >= 12) \in BOOLEAN
    BY <1>3
  <2>3. activated \in BOOLEAN
    BY <1>2, <2>2
  <2>4. server \in Servers /\ query \in 0..7
    BY <1>4 DEF Servers
  <2>5. keys \in BOOLEAN
    BY <1>4
  <2>6. late \in Lates /\ advice \in Advices
    BY <1>4, NothingToDo
  <2> QED BY <1>3, <1>4, <2>1, <2>3, <2>4, <2>5, <2>6 DEF TypeOK
<1>7. Pending
  BY <1>4 DEF Pending
<1>8. Passed
  <2>1. Reached = 0
    BY <1>4 DEF Reached
  <2>2. \A i \in DOMAIN LaterQueries : ~(0 > i)
    BY TheChecks
  <2> QED BY <1>4, <2>1, <2>2 DEF Passed
<1> QED BY <1>3, <1>5, <1>6, <1>7, <1>8 DEF IInv
-----------------------------------------------------------------------------
(* The theorems. *)

LEMMA StepKeeps ==
  ASSUME IInv, [Next]_vars
  PROVE  IInv'
<1>1. CASE Start
  BY <1>1, StartKeeps
<1>2. CASE Boot
  <2>1. CASE CatalogueQuery
    BY <2>1, CatalogueQueryKeeps
  <2>2. CASE LaterQuery
    BY <2>2, LaterQueryKeeps
  <2>3. CASE Rejected \/ Deadline
    BY <2>3, ProbeKeeps
  <2>4. CASE Hang
    BY <2>4, HangKeeps
  <2>5. CASE JwksProbe
    <3>1. CASE Refuse(<<>>)
      BY <2>5, <3>1, ProbeKeeps
    <3>2. CASE keys' = TRUE /\ UNCHANGED <<catalogue, stored, activated, server, query, late, advice, todo>>
      BY <2>5, <3>2, HangKeeps
    <3> QED BY <2>5, <3>1, <3>2 DEF JwksProbe
  <2>6. CASE Probed
    BY <2>6, ProbedKeeps
  <2>7. CASE EmbeddingGate
    BY <2>7, EmbeddingGateKeeps
  <2> QED BY <1>2, <2>1, <2>2, <2>3, <2>4, <2>5, <2>6, <2>7 DEF Boot
<1>3. ASSUME NEW what \in {"metadata revision", "forget revision", "recaptured text"}, Record(what)
      PROVE  IInv'
  BY <1>3, RecordKeeps
<1>4. CASE Follow
  BY <1>4, FollowKeeps
<1>5. CASE Upgrade
  BY <1>5, WindowKeeps DEF Upgrade
<1>6. CASE Apply
  BY <1>6, ApplyStoppedKeeps, ApplyBesideKeeps
<1>7. ASSUME NEW steps, Replay(steps)
      PROVE  IInv'
  BY <1>7, WindowKeeps DEF Replay
<1>8. CASE (\E o \in Outages : Fail(o)) \/ Recover \/ UNCHANGED vars
  BY <1>8, TroubleKeeps
<1>9. CASE Abandon
  BY <1>9, AbandonKeeps
<1>10. ASSUME NEW g \in {"principal readable", "oauth readable", "audit grants", "narrow sessions"}, Drift(g)
       PROVE  IInv'
  BY <1>10, DriftKeeps
<1> QED BY <1>1, <1>2, <1>3, <1>4, <1>5, <1>6, <1>7, <1>8, <1>9, <1>10 DEF Next

(* The invariant of the upgrade: the migrations leave the catalogue sound among themselves, the *)
(* rows fit it, what is asked for beside a running server undoes nothing the probe has passed,  *)
(* and what the probe has passed is so still.                                                   *)
THEOREM InvariantHolds == Spec => []IInv
<1>1. Init => IInv
  BY InitHolds
<1>2. IInv /\ [Next]_vars => IInv'
  BY StepKeeps
<1> QED BY <1>1, <1>2, PTL DEF Spec

(* A serving server never meets a catalogue its statements cannot use, though its checks are *)
(* made over several queries while an operator applies migrations to the same database.      *)
THEOREM ServesOnWhole == Spec => []ServingCatalogueIsWhole
<1>1. IInv => ServingCatalogueIsWhole
  <2> SUFFICES ASSUME IInv, server = "serving"
               PROVE  /\ Has(catalogue, Facts \ {"own workspace", "old register"}) /\ ~Has(catalogue, {"old register"})
                      /\ catalogue.index = "live" /\ catalogue.kinds = "five" /\ activated
                      /\ \A h \in Helpers : catalogue.helper[h] = "filtered"
    BY DEF ServingCatalogueIsWhole
  <2>1. Passed
    BY DEF IInv
  <2>2. Reached = 7
    BY DEF Reached
  <2>3. activated
    BY <2>1 DEF Passed
  <2> QED BY <2>1, <2>2, <2>3, ThroughMeansWhole DEF Has
<1> QED BY <1>1, InvariantHolds, PTL

(* Every migration can be replayed on whatever the server has stored: none restores a shape *)
(* that the rows no longer fit.                                                             *)
THEOREM ReplaysFit == Spec => []ReplaysFitTheData
<1>1. IInv => ReplaysFitTheData
  <2> SUFFICES ASSUME IInv, NEW m \in Migrations, Has(catalogue, Needs(m))
               PROVE  Fits(After(m, catalogue))
    BY DEF ReplaysFitTheData
  <2>1. catalogue \in Catalogues /\ Sound(catalogue) /\ Fits(catalogue)
    BY DEF IInv, TypeOK
  <2>2. Keeps(catalogue, After(m, catalogue))
    BY <2>1, MigrationKeeps
  <2> QED BY <2>1, <2>2, RowsStillFit
<1> QED BY <1>1, InvariantHolds, PTL

\* What no migration, replayed or asked for, ever takes away once it is there.
ShapesOnlyAdvance ==
  /\ catalogue.index = "live" => catalogue'.index = "live"
  /\ catalogue.kinds = "five" => catalogue'.kinds = "five"
  /\ catalogue.kinds = "three" => catalogue'.kinds \in {"three", "five"}
  /\ \A f \in {"spaces", "workspace", "passages", "revisions", "forget", "tokens", "oauth"} :
       f \in catalogue.facts => f \in catalogue'.facts
  /\ activated => activated'

(* A replayed migration never brings back an older index, an older CHECK or drops a table: the  *)
(* guards of 06, 10 and 16 hold on every path, whatever is applied, abandoned or lost between.  *)
THEOREM ShapesAdvance == Spec => [][ShapesOnlyAdvance]_vars
<1>1. ASSUME IInv, Next
      PROVE  ShapesOnlyAdvance
  <2>1. catalogue \in Catalogues /\ Sound(catalogue) /\ activated \in BOOLEAN
    BY <1>1 DEF IInv, TypeOK
  <2>2. ASSUME catalogue' = catalogue, activated' = activated
        PROVE  ShapesOnlyAdvance
    BY <2>2 DEF ShapesOnlyAdvance
  <2>3. ASSUME Keeps(catalogue, catalogue'), activated => activated'
        PROVE  ShapesOnlyAdvance
    BY <2>3 DEF ShapesOnlyAdvance, Keeps
  <2>4. CASE Apply
    <3>1. activated => activated'
      BY <2>4, TheStep
    <3>2. CASE catalogue' = With(catalogue, {"rollup role"})
      BY <2>1, <2>3, <3>1, <3>2, AddingFacts DEF Good, Facts
    <3>3. CASE catalogue' = With(catalogue, {"workspace"})
      BY <2>1, <2>3, <3>1, <3>3, AddingFacts DEF Good, Facts
    <3>4. CASE Head(todo) \in Migrations /\ Runs(Head(todo), catalogue) /\ catalogue' = After(Head(todo), catalogue)
      BY <2>1, <2>3, <3>1, <3>4, MigrationKeeps DEF Runs
    <3>5. CASE catalogue' \in {catalogue, After02(catalogue)}
      BY <2>1, <2>3, <3>1, <3>5, NothingDone
    <3> QED BY <2>4, <3>2, <3>3, <3>4, <3>5, TheStep
  <2>5. ASSUME NEW g \in {"principal readable", "oauth readable", "audit grants", "narrow sessions"}, Drift(g)
        PROVE  ShapesOnlyAdvance
    <3>1. {g} \in SUBSET Facts
      BY DEF Facts
    <3>2. PICK d \in Catalogues : /\ d = Lacking(catalogue, {g}) /\ d.facts = catalogue.facts \ {g}
                                  /\ d.index = catalogue.index /\ d.kinds = catalogue.kinds /\ d.helper = catalogue.helper
      BY <2>1, <3>1, Removing
    <3>3. catalogue' = d /\ activated' = activated
      BY <2>5, <3>2 DEF Drift
    <3> QED BY <3>2, <3>3 DEF ShapesOnlyAdvance
  <2>6. CASE Start \/ Boot
    BY <2>2, <2>6 DEF Start, Boot, Continue, Refuse, CatalogueQuery, LaterQuery, Rejected, Hang, Deadline, JwksProbe, Probed,
                      EmbeddingGate
  <2>7. ASSUME NEW what, Record(what)
        PROVE  ShapesOnlyAdvance
    BY <2>2, <2>7 DEF Record
  <2>8. ASSUME NEW steps, Window(steps)
        PROVE  ShapesOnlyAdvance
    BY <2>2, <2>8 DEF Window
  <2>9. CASE Follow
    BY <2>2, <2>8, <2>9 DEF Follow
  <2>10. CASE Upgrade \/ Replay(Procedure) \/ \E m \in Migrations : Replay(<<m>>)
    BY <2>8, <2>10 DEF Upgrade, Replay
  <2>11. CASE Recover \/ Abandon \/ \E o \in Outages : Fail(o)
    BY <2>2, <2>11 DEF Recover, Abandon, Fail
  <2> QED BY <1>1, <2>4, <2>5, <2>6, <2>7, <2>9, <2>10, <2>11 DEF Next
<1> QED BY <1>1, InvariantHolds, PTL DEF Spec
=============================================================================
