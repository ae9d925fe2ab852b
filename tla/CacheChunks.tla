----------------------------- MODULE CacheChunks ------------------------------
(***************************************************************************)
(* How the proxy divides its cache into packets (atem_cache_init() and     *)
(* atem_cache_dump() in proxy/atem_cache.c).                               *)
(*                                                                         *)
(* The cache is one row of commands: a fixed head, the same commands for   *)
(* each source, a fixed tail.  As many whole commands as fit make a chunk. *)
(* The length of a chunk is not kept in an array but in the padding of its *)
(* first command's header, so that dumping walks from chunk to chunk by    *)
(* the lengths it finds there.  Commands are their lengths here: what is   *)
(* in them is CameraControl's, and what is done with the packets           *)
(* AtemCache's, whose Chunks are what this module dumps.                   *)
(***************************************************************************)
EXTENDS Integers, SequencesExt

CONSTANTS
    HeadLengths,      \* bytes of each command in fixed_head
    SourceLengths,    \* and in struct source_data
    TailLengths,      \* and in fixed_tail
    SourceCounts,     \* source_count: what atem_cache_init() accepts
    LenMax,           \* ATEM_PACKET_LEN_MAX_SOFT - ATEM_LEN_HEADER
    IdLow             \* values of remote_id_low (256 of them)

Sum(lengths) == FoldLeft(+, 0, lengths)

ASSUME CacheChunksAssumption ==
    /\ {HeadLengths, SourceLengths, TailLengths} \subseteq Seq(1..LenMax)
    /\ HeadLengths # <<>>
    /\ SourceCounts \subseteq Nat
    /\ LenMax \in Nat /\ IdLow \in Nat \ {0}

VARIABLES
    source_count,
    command,          \* the command cmd_ptr points to, by its number
    cmd_ptr,          \* and where it is in the data
    data_remaining,
    chunk,            \* where the current chunk is in the data
    lens,             \* chunk->len of every chunk, by where the chunk is
    chunks_count,
    dumped            \* packets that were made from the cache

vars == <<source_count, command, cmd_ptr, data_remaining, chunk, lens, chunks_count, dumped>>

FixedLen  == Sum(HeadLengths) + Sum(TailLengths)
SourceLen == Sum(SourceLengths)

CommandCount == Len(HeadLengths) + source_count * Len(SourceLengths) + Len(TailLengths)
DataLen      == FixedLen + source_count * SourceLen

\* The length in the header of the command, which is not what is behind the last one.
CommandLength(k) ==
    LET behind == k - Len(HeadLengths)
        source == source_count * Len(SourceLengths)
    IN  IF k \in DOMAIN HeadLengths THEN HeadLengths[k]
        ELSE IF behind <= source THEN SourceLengths[((behind - 1) % Len(SourceLengths)) + 1]
        ELSE IF behind - source \in DOMAIN TailLengths THEN TailLengths[behind - source]
        ELSE 0

\* A packet made from a chunk; the ids of a session that is dumped to start at one.
Packet(remote_id, start) ==
    [remote_id |-> remote_id, slot_id |-> remote_id % IdLow, start |-> start, len |-> lens[start]]

Init ==
    /\ source_count \in SourceCounts
    /\ command = 1
    /\ cmd_ptr = 0
    /\ data_remaining = DataLen
    /\ chunk = 0
    /\ lens = 0 :> 0
    /\ chunks_count = 1
    /\ dumped = <<>>

Marked == lens[chunk] >= data_remaining

\* Mutation: commands are added to a chunk that is not full yet.
FitsFilling == lens[chunk] < LenMax

Fits == lens[chunk] + CommandLength(command) <= LenMax

Advance ==
    /\ ~ Marked
    /\ command' = command + 1
    /\ cmd_ptr' = cmd_ptr + CommandLength(command)
    /\ UNCHANGED <<source_count, dumped>>

\* One round of the loop in atem_cache_init(): the command fits the chunk,
AddCommand ==
    /\ Advance
    /\ Fits
    /\ lens' = [lens EXCEPT ![chunk] = @ + CommandLength(command)]
    /\ UNCHANGED <<data_remaining, chunk, chunks_count>>

\* Mutation: what the last chunk took stays in data_remaining.
StartChunkRemaining ==
    /\ Advance
    /\ ~ Fits
    /\ chunk' = cmd_ptr
    /\ lens' = cmd_ptr :> CommandLength(command) @@ lens
    /\ chunks_count' = chunks_count + 1
    /\ UNCHANGED data_remaining

\* or it starts the next one.
StartChunk ==
    /\ Advance
    /\ ~ Fits
    /\ data_remaining' = data_remaining - lens[chunk]
    /\ chunk' = cmd_ptr
    /\ lens' = cmd_ptr :> CommandLength(command) @@ lens
    /\ chunks_count' = chunks_count + 1

\* One packet of atem_cache_dump(): the first chunk, or the one behind the last packet's.
Dump ==
    /\ Marked
    /\ Len(dumped) < chunks_count
    /\ dumped' = Append(dumped,
         IF dumped = <<>> THEN Packet(1, 0)
         ELSE Packet(Len(dumped) + 1, Last(dumped).start + Last(dumped).len))
    /\ UNCHANGED <<source_count, command, cmd_ptr, data_remaining, chunk, lens, chunks_count>>

Next == AddCommand \/ StartChunk \/ Dump

Spec == Init /\ [][Next]_vars

-------------------------------------------------------------------------------
TypeOK ==
    /\ source_count \in SourceCounts
    /\ command \in 1..CommandCount + 1
    /\ cmd_ptr \in 0..DataLen
    /\ data_remaining \in 0..DataLen
    /\ chunk \in DOMAIN lens
    /\ DOMAIN lens \subseteq 0..DataLen /\ lens \in [DOMAIN lens -> 0..LenMax]
    /\ chunks_count \in 1..CommandCount
    /\ Len(dumped) <= chunks_count

\* The packets of a dump, made by walking over lengths in padding bytes, are the whole
\* cache from its first to its last byte, in packets that a datagram can hold; a
\* session's first ids, of which the packet keeps the low byte only, are theirs in order
\* (atem_cache_init() and atem_cache_dump(), with the assertion between them).
DumpsWholeCache ==
    /\ \A k \in DOMAIN dumped :
          /\ dumped[k].len \in 1..LenMax
          /\ dumped[k].remote_id = k /\ dumped[k].slot_id = k
          /\ dumped[k].start = IF k = 1 THEN 0 ELSE dumped[k - 1].start + dumped[k - 1].len
    /\ Marked =>
          /\ data_remaining = lens[chunk]
          /\ Len(dumped) = chunks_count => Last(dumped).start + Last(dumped).len = DataLen

===============================================================================
