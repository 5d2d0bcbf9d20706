------------------------------- MODULE Bitset -------------------------------
(***************************************************************************)
(* The bit sets of the linearizability checker (porcupine/bitset.go): a    *)
(* sequence of chunks, each the set of the one-bits of a number of         *)
(* ChunkBits bits, 64 in the code.  Chunks are counted from 1 here and     *)
(* from 0 there.  A bitset is a value, so clone is the identity and the    *)
(* other operations work on a copy.                                        *)
(***************************************************************************)
EXTENDS Naturals, Sequences, FiniteSets, FiniteSetsExt

CONSTANT ChunkBits

ASSUME ChunkBitsAssumption == ChunkBits \in Nat \ {0}

Bits == 0..(ChunkBits - 1)

newBitset(bits) ==
    LET extra == IF bits % ChunkBits # 0 THEN 1 ELSE 0
    IN  [i \in 1..(bits \div ChunkBits + extra) |-> {}]

bitsetIndex(pos) == [major |-> pos \div ChunkBits + 1, minor |-> pos % ChunkBits]

(* 1 << minor, of which only ChunkBits bits are kept *)
Mask(minor) == {minor} \cap Bits

set(b, pos) ==
    LET i == bitsetIndex(pos) IN [b EXCEPT ![i.major] = @ \cup Mask(i.minor)]

clear(b, pos) ==
    LET i == bitsetIndex(pos) IN [b EXCEPT ![i.major] = @ \ Mask(i.minor)]

get(b, pos) ==
    LET i == bitsetIndex(pos) IN b[i.major] \cap Mask(i.minor) # {}

popcnt(b) == MapThenSumSet(LAMBDA i : Cardinality(b[i]), DOMAIN b)

(* the exclusive or of the chunks and the number of bits set *)
hash(b) ==
    {k \in Bits : (popcnt(b) \div 2^k + Cardinality({i \in DOMAIN b : k \in b[i]})) % 2 = 1}

equals(b, b2) == Len(b) = Len(b2) /\ \A i \in DOMAIN b : b[i] = b2[i]
=============================================================================
