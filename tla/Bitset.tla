------------------------------ MODULE Bitset ------------------------------
(***************************************************************************)
(* The bitset of the linearizability checker (src/unnamed/part_002): a     *)
(* slice of W-bit words (W = 64 in the code), bit pos in word pos / W at   *)
(* position pos % W. Words are naturals below 2^W; Bitwise gives ^^.       *)
(* A bitset is a value here: clone is the copy a value already is, and     *)
(* set and clear return the changed bitset. checkSingle (Linearizability)  *)
(* is the only user, and it takes these operators as they are.            *)
(***************************************************************************)
EXTENDS Naturals, Sequences, Bitwise, SequencesExt

CONSTANT W   \* bits per word

newBitset(bits) ==
    LET extra == IF bits % W # 0 THEN 1 ELSE 0
    IN [i \in 1..(bits \div W + extra) |-> 0]

\* bitsetIndex: <<major, minor>>; word major is b[major + 1].
bitsetIndex(pos) == <<pos \div W, pos % W>>

\* Bit i of word v; v | 1<<i and v &^ 1<<i, by what they do to that bit.
bit(v, i) == (v \div 2^i) % 2
orBit(v, i) == IF bit(v, i) = 1 THEN v ELSE v + 2^i
andNotBit(v, i) == IF bit(v, i) = 1 THEN v - 2^i ELSE v

set(b, pos) ==
    LET ix == bitsetIndex(pos) IN [b EXCEPT ![ix[1] + 1] = orBit(@, ix[2])]

clear(b, pos) ==
    LET ix == bitsetIndex(pos) IN [b EXCEPT ![ix[1] + 1] = andNotBit(@, ix[2])]

get(b, pos) ==
    LET ix == bitsetIndex(pos) IN bit(b[ix[1] + 1], ix[2]) # 0

\* popcnt: the Hamming weight of each word, summed over the words.
RECURSIVE Ones(_)
Ones(v) == IF v = 0 THEN 0 ELSE (v % 2) + Ones(v \div 2)

popcnt(b) == FoldLeft(LAMBDA t, v : t + Ones(v), 0, b)

hash(b) == FoldLeft(LAMBDA h, v : h ^^ v, popcnt(b), b)

\* Slip: the loop over the words stopping after the first.
equalsFirstWord(b, b2) == Len(b) = Len(b2) /\ b[1] = b2[1]

equals(b, b2) == Len(b) = Len(b2) /\ \A i \in DOMAIN b : b[i] = b2[i]

=============================================================================
