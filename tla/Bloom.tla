------------------------------- MODULE Bloom -------------------------------
(***************************************************************************)
(* The filter of bloom/bloom.go.  A filter is the set of its bits that are *)
(* set.  Hashes have HashBits bits (64 in the code).                       *)
(***************************************************************************)
EXTENDS Naturals, FiniteSets

CONSTANTS
  HashBits,    \* width of a hash
  NumBits,     \* numBits
  NumHashes,   \* numHashes
  Multiplier,  \* derivedHashMultiplier
  Hash(_)      \* xxh3 of a key

ASSUME BloomAssumption ==
  HashBits \in Nat /\ HashBits > 5 /\ NumBits \in Nat \ {0} /\ NumHashes \in Nat \ {0}

Word == 2^HashBits

\* bits.RotateLeft64(h, 5)
RotateLeft5(h) == ((h * 32) % Word) + (h \div 2^(HashBits - 5))

\* The high word of hash * numBits.
Index(h) == (h * NumBits) \div Word

\* The hash of the i-th turn of the loop.
Probe(hash) ==
  LET h1[i \in 0..NumHashes - 1] ==
        IF i = 0 THEN hash ELSE (RotateLeft5(h1[i - 1]) + hash * Multiplier) % Word
  IN  h1

\* Add, AddHash
AddHash(filter, k) == filter \cup {Index(Probe(Hash(k))[i]) : i \in 0..NumHashes - 1}

\* Contains, ContainsHash
ContainsHash(filter, k) == \A i \in 0..NumHashes - 1 : Index(Probe(Hash(k))[i]) \in filter

=============================================================================
