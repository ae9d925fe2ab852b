---------------------------- MODULE MCCacheChunks -----------------------------
(***************************************************************************)
(* The commands of proxy/atem_cache.c with their real lengths, and every   *)
(* number of sources that atem_cache_init() accepts.                       *)
(***************************************************************************)
EXTENDS CacheChunks

FixedHead  == <<12, 52, 12, 12, 12, 12, 12, 12, 12, 12, 32, 44, 16, 36>>
FixedTail  == <<28, 28, 40, 12, 12, 12, 16, 12, 12, 76, 12>>
SourceData == <<44>> \o [k \in 1..17 |-> 32]

EverySourceCount == 1..254

===============================================================================
