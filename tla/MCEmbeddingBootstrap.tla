------------------------- MODULE MCEmbeddingBootstrap -------------------------
\* Two models of one dimension and one of another.
EXTENDS EmbeddingBootstrap

CONSTANTS a, b, c

MCDim == [m \in Model |-> IF m = c THEN 2 ELSE 1]
=============================================================================
