--------------------------- MODULE MCResultCache ---------------------------
(***************************************************************************)
(* Small instances of ResultCache.  Streams are never told apart and a     *)
(* key only by the streams that use it, so both sets are symmetric.        *)
(***************************************************************************)
EXTENDS ResultCache, TLC

CONSTANTS s1, s2, s3, k1, k2, k3

MCStreams == {s1, s2, s3}

MCKeys == {k1, k2, k3}

MCBatchSizes == {1, 2}

\* One failure the code takes for stale-eligible and one it does not, and all.
MCTwoFailures == {"gateway", "decode"}

MCFailures == {"transient", "gateway", "rate_limit", "status", "decode"}

Symmetry == Permutations(MCStreams) \union Permutations(MCKeys)

=============================================================================
