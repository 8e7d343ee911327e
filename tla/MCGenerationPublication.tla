---------------------- MODULE MCGenerationPublication -----------------------
(***************************************************************************)
(* Two contexts, two connectors and two generations: enough for a load to  *)
(* race a load of the other connector, a reload of the same one, a window  *)
(* between the two commits, and Close.                                     *)
(***************************************************************************)
EXTENDS GenerationPublication

CONSTANTS c1, c2, k1, k2

MCContexts == {c1, c2}

MCConnectors == {k1, k2}
=============================================================================
