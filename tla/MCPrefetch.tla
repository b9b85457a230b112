----------------------------- MODULE MCPrefetch -----------------------------
(* Small instances of Prefetch: two manifests that share chunks, one
   with more of them than the pipeline takes. *)
EXTENDS Prefetch

SmallManifests == <<{1, 2, 3}, {2, 3}>>
=============================================================================
