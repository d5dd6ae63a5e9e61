--------------------------- MODULE MCThoughtStore ---------------------------
(***************************************************************************)
(* Small stores and workloads for ThoughtStore: one shared workspace, two  *)
(* principals, two spellings a1 and a2 of one text and a text b.           *)
(***************************************************************************)
EXTENDS ThoughtStore

CONSTANTS w, p1, p2, a1, a2, b, fa, fb, t1, t2

MCWorkspace == {w}
MCDefaultVisibility == [v \in {w} |-> "workspace"]
MCProjectsOf == [v \in {w} |-> {}]
MCFingerprintOf == [x \in {a1, a2, b} |-> IF x = b THEN fb ELSE fa]

Shared == [workspace |-> w, project |-> None, visibility |-> "workspace", owner |-> None]
Own(p) == [workspace |-> w, project |-> None, visibility |-> "personal", owner |-> p]

Thought(text, stored, audience, forgotten, extraction) ==
  [content |-> text, fp |-> IF stored THEN MCFingerprintOf[text] ELSE NoFp,
   audience |-> audience, forgotten |-> forgotten,
   meta |-> [stamp |-> p1, extraction |-> extraction]]

Store(x, y) == [i \in Id |-> CASE i = t1 -> x [] i = t2 -> y [] OTHER -> NoRow]

\* A live private thought and a shared one; two old rows without fingerprints;
\* a forgotten thought beside its live copy; a forgotten old row.
MCInitialHeads ==
  {Store(Thought(a1, TRUE, Own(p1), FALSE, Stub), Thought(b, TRUE, Shared, FALSE, b)),
   Store(Thought(a1, FALSE, Shared, FALSE, Stub), Thought(b, TRUE, Own(p1), FALSE, b)),
   Store(Thought(a1, TRUE, Shared, TRUE, a1), Thought(a2, TRUE, Own(p1), FALSE, Stub)),
   Store(Thought(a1, FALSE, Shared, TRUE, Stub), Thought(a2, FALSE, Own(p1), FALSE, Stub))}

Wide(p) == ResolveReadScope([workspace |-> w, project |-> None, visibility |-> None], p)

Capture(p, text, visibility) ==
  LET input == [workspace |-> w, project |-> None, visibility |-> visibility]
  IN  [op |-> "capture", scope |-> WriteScope(input, p), id |-> None,
       content |-> text, audience |-> WriteAudience(input, p)]

Ask(op, p, id, text, audience) ==
  [op |-> op, scope |-> Wide(p), id |-> id, content |-> text, audience |-> audience]

EditsOfOne ==
  {Ask("update", p1, t1, a2, None), Ask("update", p2, t1, b, None),
   Ask("move", p1, t1, None, Own(p1)), Ask("move", p1, t1, None, Shared),
   Ask("forget", p1, t1, None, None), Ask("restore", p1, t1, None, None),
   Ask("reclassify", None, t1, None, None)}

CapturesAndOther ==
  {Capture(p1, a2, "workspace"), Capture(p2, a1, "workspace"), Capture(p1, a1, "personal"),
   Ask("move", p1, t2, None, Shared), Ask("update", p1, t2, a1, None)}

FullWorkload == EditsOfOne \cup CapturesAndOther
=============================================================================
