---------------------------- MODULE MCChainClocks ----------------------------
(* One provider that registers at any block, every pattern of slots.        *)
EXTENDS ChainClocks

OneAccount == {"alice"}
=============================================================================
