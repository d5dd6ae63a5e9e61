----------------------- MODULE MCEmbeddingGeneration -----------------------
(* An instance of EmbeddingGeneration for TLC.                             *)
EXTENDS EmbeddingGeneration

CONSTANT c1
MCCallers == {c1}

\* A model under two good runtimes whose vectors differ, then under a defective
\* one, then another model.
MCBuilds == << [digest |-> "a", runtime |-> "v1", sound |-> TRUE, space |-> 1],
               [digest |-> "a", runtime |-> "v2", sound |-> TRUE, space |-> 2],
               [digest |-> "a", runtime |-> "v3", sound |-> FALSE, space |-> 3],
               [digest |-> "b", runtime |-> "v3", sound |-> TRUE, space |-> 4] >>
=============================================================================
