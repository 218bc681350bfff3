---------------------------- MODULE MCEmbedding ----------------------------
(* Two editions of one chunk each, and two models of one width beside the  *)
(* null adapter: the case no error and no width would tell apart.          *)
EXTENDS Embedding, TLC

CONSTANTS v1, v2, c1, c2, minilm, mpnet, null

MCChunksOf(v) == IF v = v1 THEN {c1} ELSE {c2}
MCModelOf(e) == e
MCDimensionsOf(e) == IF e = null THEN 0 ELSE 3
=============================================================================
