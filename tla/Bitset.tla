-------------------------------- MODULE Bitset --------------------------------
(***************************************************************************)
(* bitset<Count>: Count bits in chunks of ChunkBits, the last of them      *)
(* partly used if Count is not a multiple.  A chunk is the set of its bits *)
(* that are one.                                                           *)
(***************************************************************************)
EXTENDS Naturals, FiniteSetsExt

CONSTANTS Counts,            \* the sizes of the bitsets
          ChunkBits

VARIABLES count,             \* Count
          chunks             \* chunks_

vars == <<count, chunks>>

chunk_count == (count + ChunkBits - 1) \div ChunkBits
whole_chunk_count == count \div ChunkBits
HasPartialChunk == whole_chunk_count # chunk_count
last_chunk_mask == {b \in 0..ChunkBits - 1 : b < count % ChunkBits}
all_ones_chunk == 0..ChunkBits - 1

Init == /\ count \in Counts
        /\ chunks = [i \in 0..chunk_count - 1 |-> {}]

reset(index) == chunks' = [chunks EXCEPT ![index \div ChunkBits] = @ \ {index % ChunkBits}]
set(index) == chunks' = [chunks EXCEPT ![index \div ChunkBits] = @ \cup {index % ChunkBits}]

set_all == chunks' = [i \in DOMAIN chunks |->
                        IF i < whole_chunk_count THEN all_ones_chunk ELSE last_chunk_mask]
reset_all == chunks' = [i \in DOMAIN chunks |-> {}]

Next == /\ \/ \E index \in 0..count - 1 : reset(index) \/ set(index)
           \/ set_all \/ reset_all
        /\ UNCHANGED count

Spec == Init /\ [][Next]_vars

-----------------------------------------------------------------------------
(* std::countr_zero is the number of bits if none is one.                  *)
CountrZero(chunk) == Min(chunk \cup {ChunkBits})

(* The unused bits of the last chunk are set, for the scan to end there.   *)
countr_zero ==
    LET last == chunk_count - 1
        before == {i \in 0..last - 1 : chunks[i] # {}}
        first == IF before # {} THEN Min(before) ELSE last
        padding == IF first = last /\ HasPartialChunk
                   THEN all_ones_chunk \ last_chunk_mask ELSE {}
    IN  IF count = 0 THEN 0
        ELSE first * ChunkBits + CountrZero(chunks[first] \cup padding)

all == \A i \in DOMAIN chunks :
          chunks[i] = IF i < whole_chunk_count THEN all_ones_chunk ELSE last_chunk_mask
none == \A i \in DOMAIN chunks : chunks[i] = {}

-----------------------------------------------------------------------------
(* Properties *)

Ones == {index \in 0..count - 1 : index % ChunkBits \in chunks[index \div ChunkBits]}

(* The bits of the last chunk that are not used stay zero. *)
TypeOk == \A i \in DOMAIN chunks : \A b \in chunks[i] : i * ChunkBits + b < count

(* The scan finds the first bit that is one, or the size if there is none, *)
(* in a last chunk that is whole or not, and so do all() and none().       *)
FindsFirst == /\ countr_zero = Min(Ones \cup {count})
              /\ all <=> Ones = 0..count - 1
              /\ none <=> Ones = {}
=============================================================================
