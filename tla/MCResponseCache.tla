--------------------------- MODULE MCResponseCache ---------------------------
(* Three keys in a cache of two, two response values, and a time to live   *)
(* longer than the dedup window, as the defaults of NewResponseCache are.  *)
EXTENDS ResponseCacheSpec
=============================================================================
