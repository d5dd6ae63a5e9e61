------------------------------ MODULE Outbound ------------------------------
(***************************************************************************)
(* One request to a model server: everything from the connection to the    *)
(* last byte of the body under one deadline, and what the embedder and the *)
(* classifier make of it.                                                  *)
(*                                                                         *)
(* An exchange says at which stage, if any, its deadline fires and at      *)
(* which its transport fails: 1 before the headers, 2 inside the body,     *)
(* 0 never.  The rest is what the server sends.                            *)
(***************************************************************************)
EXTENDS Integers, Sequences

CONSTANTS
  Dimension,   \* EMBED_DIM
  InFlightMost \* embedding requests at a time

ASSUME OutboundAssumption == Dimension \in Nat \ {0} /\ InFlightMost \in Nat \ {0}

\* body: "text" that is no JSON, "long" beyond the bound, "context" the error of an overlong input,
\* or the "json" of an answer.
Stage == 0..2
Body == {"text", "long", "context", "json"}

\* boundedFetch: what is thrown is a timeout if the deadline fired, whatever the error.
Interrupted(x, stage) == x.fires = stage \/ x.fails = stage
Thrown(x) == IF x.fires # 0 THEN "timeout" ELSE "transport"

-----------------------------------------------------------------------------
(* The classifier.  content is that of the first choice: absent, or a text *)
(* that is no JSON, or JSON of the schema or of another shape.             *)

Content == {"absent", "text", "other", "metadata"}

\* A status already seen outlives what happens to the body.
ClassifyOnce(x) ==
  IF Interrupted(x, 1) THEN "transport_or_timeout"
  ELSE IF ~x.ok THEN "non_2xx"
  ELSE IF Interrupted(x, 2) THEN "transport_or_timeout"
  ELSE IF x.body = "text" \/ x.content = "absent" THEN "invalid_response"
  ELSE IF x.content = "text" THEN "unparseable_output"
  ELSE IF x.content = "other" THEN "schema_rejection"
  ELSE "ok"

\* extractMetadata: the endpoints asked, the stamp of the metadata and the events of the degradation.
Extract(setup, primary, fallback) ==
  LET first == IF setup.primary THEN ClassifyOnce(primary) ELSE "disabled"
      second == IF setup.fallback /\ first # "ok" THEN ClassifyOnce(fallback) ELSE "disabled"
      failed(role, result) == IF result \in {"ok", "disabled"} THEN <<>> ELSE <<[event |-> role, reason |-> result]>>
  IN  IF ~setup.primary /\ ~setup.fallback THEN [asked |-> {}, stamp |-> "stub", events |-> <<>>]
      ELSE [asked |-> {e \in {"primary", "fallback"} :
                         (e = "primary" /\ first # "disabled") \/ (e = "fallback" /\ second # "disabled")},
            stamp |-> IF first = "ok" THEN "primary" ELSE IF second = "ok" THEN "fallback" ELSE "stub",
            events |-> failed("primary_failure", first) \o failed("fallback_failure", second)
                         \o (IF first = "ok" THEN <<>>
                             ELSE IF second = "ok" THEN <<[event |-> "fallback_used", reason |-> "none"]>>
                             ELSE <<[event |-> "stub_used", reason |-> "none"]>>)]

\* classifyWithPrimary, for the maintenance tool: no fallback and no stub.
ClassifyWithPrimary(setup, primary) == IF setup.primary THEN ClassifyOnce(primary) ELSE "primary_disabled"

-----------------------------------------------------------------------------
(* The embedder.  vectors is a sequence of vectors, each with its length,  *)
(* and whether it is finite and not zero.                                  *)

EmbedRefused(x, inFlight) == x.left <= 0 \/ inFlight >= InFlightMost

\* An error body is read for its one useful sentence and no failure to read it hides the status,
\* except the deadline.
EmbedError(x) ==
  IF x.fires = 2 THEN "timeout"
  ELSE IF x.status = 400 /\ x.fails # 2 /\ x.body = "context" THEN "context"
  ELSE "status"

EmbedVector(x) ==
  IF Interrupted(x, 2) THEN Thrown(x)
  ELSE IF x.body # "json" \/ Len(x.vectors) # 1 THEN "no vector"
  ELSE IF x.vectors[1].length # Dimension THEN "dimension"
  ELSE IF ~x.vectors[1].finite THEN "not finite"
  ELSE IF x.vectors[1].zero THEN "zero"
  ELSE "ok"

Embed(x, inFlight) ==
  IF EmbedRefused(x, inFlight) THEN "refused"
  ELSE IF Interrupted(x, 1) THEN Thrown(x)
  ELSE IF x.status # 200 THEN EmbedError(x)
  ELSE EmbedVector(x)

-----------------------------------------------------------------------------
(* What may be expected of these requests. *)

\* No part of a late or broken answer is used, no failure of the transport is taken for one of the model,
\* and a status that did arrive is the one reported.
LateAnswersAreNotUsed(x) ==
  /\ ClassifyOnce(x) \in {"invalid_response", "unparseable_output", "schema_rejection", "ok"} =>
       x.ok /\ x.fires = 0 /\ x.fails = 0
  /\ (~x.ok /\ x.fires # 1 /\ x.fails # 1) <=> ClassifyOnce(x) = "non_2xx"

\* A thought is sent to the fallback only where it is enabled and the primary did not answer; and the
\* events tell of each endpoint that was asked and of what stands in the thought.
DegradationIsTold(setup, primary, fallback) ==
  LET result == Extract(setup, primary, fallback)
      told == {result.events[i].event : i \in DOMAIN result.events}
  IN  /\ "fallback" \in result.asked => setup.fallback /\ result.stamp # "primary"
      /\ result.stamp = "primary" => told = {}
      /\ (result.stamp = "fallback") <=> ("fallback_used" \in told)
      /\ (result.stamp = "stub" /\ result.asked # {}) <=> ("stub_used" \in told)
      /\ ("primary" \in result.asked /\ result.stamp # "primary") <=> ("primary_failure" \in told)
      /\ ("fallback" \in result.asked /\ result.stamp # "fallback") <=> ("fallback_failure" \in told)
      /\ ClassifyWithPrimary(setup, primary) = "ok" <=> result.stamp = "primary"

\* Only one whole, finite, directed vector of the right length is stored, from an answer that came in
\* time; and an input is split again only if the server said that it was too long.
OnlySoundVectors(x, inFlight) ==
  /\ Embed(x, inFlight) = "ok" =>
       /\ x.status = 200 /\ x.fires = 0 /\ x.fails = 0 /\ x.left > 0 /\ inFlight < InFlightMost
       /\ x.vectors = <<[length |-> Dimension, finite |-> TRUE, zero |-> FALSE]>>
  /\ Embed(x, inFlight) = "context" => x.status = 400 /\ x.body = "context" /\ x.fires = 0 /\ x.fails = 0
=============================================================================
