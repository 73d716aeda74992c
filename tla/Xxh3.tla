-------------------------------- MODULE Xxh3 --------------------------------
(* XXH3 of the library xxHash, in 64 and 128 bits, and fasthash: which      *)
(* bytes of an input of n bytes they read, and which bytes of the key they  *)
(* mix them with, and how XXH3 multiplies and accumulates on the different  *)
(* processors it is compiled for.                                           *)
(*                                                                          *)
(* A definition right above another with the same parameters is a faulty    *)
(* variant of it: PROJECT.json names the property that rules it out.        *)
EXTENDS Integers, Sequences, FiniteSetsExt

Bytes(at, n) == at .. at + n - 1

(* n bytes of the input from at on, and as many of the key from key on.     *)
Piece(at, key, n) == [data |-> Bytes(at, n), key |-> Bytes(key, n)]

KeySize == 48    \* KEYSET_DEFAULT_SIZE, words of 4 bytes
StripeLen == 64
StripeElts == 16
AccNb == 8

-----------------------------------------------------------------------------
(* Inputs of up to 16 bytes.                                                *)

Len1to3(n) == {[data |-> {0, n \div 2}, key |-> Bytes(0, 4)],
               [data |-> {n - 1}, key |-> Bytes(4, 4)]}
Len4to8(n) == {Piece(0, 0, 4), Piece(n - 4, 4, 4)}
Len9to16(n) == {Piece(0, 0, 8), Piece(n - 8, 8, 8)}

Len0to16(n) ==
  CASE n > 8       -> Len9to16(n)
    [] n \in 4 .. 8 -> Len4to8(n)
    [] n \in 1 .. 3 -> Len1to3(n)
    [] OTHER       -> {}

(* The second half of a 128-bit hash reads the same with the next keys.     *)
Shifted(pieces, by) == {[p EXCEPT !.key = {k + by : k \in @}] : p \in pieces}
Len0to16Wide(n) == Len0to16(n) \cup Shifted(Len0to16(n), IF n > 8 THEN 16 ELSE 8)

-----------------------------------------------------------------------------
(* Inputs of up to 128 bytes, in pieces of 16 from both ends.               *)

Pair(n, k) ==
  <<Piece(16 * k, 32 * k, 16), Piece(n - 16 * (k + 1), 32 * k + 16, 16)>>

PairsHalved(n) == 0 .. n \div 32 - 1
Pairs(n) == 0 .. (n - 1) \div 32

Mixed(n) == UNION {{Pair(n, k)[1], Pair(n, k)[2]} : k \in Pairs(n)}

(* In 128 bits the two ends go into an accumulator each.                    *)
MixedWide(n) == [acc \in 1 .. 2 |-> {Pair(n, k)[acc] : k \in Pairs(n)}]

-----------------------------------------------------------------------------
(* Longer inputs, in stripes.                                               *)

NbKeysToTheEnd == KeySize \div 2
NbKeys == (KeySize - StripeElts) \div 2
BlockLen == StripeLen * NbKeys

Accumulate(at, stripes) ==
  [i \in 1 .. stripes |-> Piece(at + (i - 1) * StripeLen, 8 * (i - 1), StripeLen)]

Blocks(n) == [b \in 1 .. n \div BlockLen |-> Accumulate((b - 1) * BlockLen, NbKeys)]

(* The last stripe ends with the input, and overlaps the one before it.     *)
LastBlock(n) ==
  LET stripes == (n % BlockLen) \div StripeLen
  IN  Accumulate(BlockLen * (n \div BlockLen), stripes)
      \o IF n % StripeLen # 0 THEN <<Piece(n - StripeLen, 8 * stripes, StripeLen)>>
         ELSE <<>>

(* A full block is scrambled with the end of the key before the next.       *)
HashLong(n) == Append(Blocks(n), LastBlock(n))
ScrambleKey == Bytes(4 * (KeySize - StripeElts), StripeLen)

-----------------------------------------------------------------------------
(* XXH3_accumulate_512 and XXH3_scrambleAcc, on words of the stripe or of   *)
(* the accumulators, numbered from 0; the key has one for each.  A lane     *)
(* holds which words are multiplied with one another.                       *)

Scalar == [lane \in 0 .. AccNb - 1 |-> {2 * lane, 2 * lane + 1}]

(* shuffle_epi32 by 0x31, two bits for each word of a group of four.        *)
Shuffled(j) == 4 * (j \div 4) + <<1, 0, 3, 0>>[1 + (j % 4)]

(* mul_epu32 takes the low word of each lane.                               *)
Shuffling == [lane \in 0 .. AccNb - 1 |-> {2 * lane, Shuffled(2 * lane)}]

(* NEON: the even and the odd words of four are zipped apart.               *)
Zipped(g) == <<4 * g, 4 * g + 2, 4 * g + 1, 4 * g + 3>>
Zipping == [lane \in 0 .. AccNb - 1 |->
              LET z == Zipped(lane \div 2) IN {z[1 + (lane % 2)], z[3 + (lane % 2)]}]

(* The accumulators after a stripe: in each lane the product of its words,  *)
(* with the key added, and the lane of the input.                           *)
Accumulated(lanes, piece) ==
  LET at == Min(piece.data)
      key == Min(piece.key)
  IN  [lane \in DOMAIN lanes |->
         [times |-> {<<at + 4 * w, key + 4 * w>> : w \in lanes[lane]},
          plus |-> at + 8 * lane]]

(* Scrambled, each word is multiplied with its word of the key.             *)
Scrambled(lanes) ==
  [lane \in DOMAIN lanes |-> {<<w, Min(ScrambleKey) + 4 * w>> : w \in lanes[lane]}]

-----------------------------------------------------------------------------
(* XXH3_mul128: the two halves of a double product, added.  The halves of a *)
(* word are below h, 2 ^ 32 in the code.                                    *)

High(x, h) == x \div h
Low(x, h) == x % h
FoldedWithoutCarry(x, y, h) ==
  LET W == h * h
      mid1 == Low(x, h) * High(y, h)
      mid2 == High(x, h) * Low(y, h)
      low  == (Low(x, h) * Low(y, h) + (mid1 + mid2) * h) % W
  IN  (High(x, h) * High(y, h) + High(mid1, h) + High(mid2, h) + low) % W
(* Folded by hand, with the carries of the low half.                        *)
Folded(x, y, h) ==
  LET W == h * h
      mid1 == Low(x, h) * High(y, h)
      mid2 == High(x, h) * Low(y, h)
      low  == Low(x, h) * Low(y, h)
      t    == (low + mid1 * h) % W
      l    == (t + mid2 * h) % W
      carry == (IF t < low THEN 1 ELSE 0) + (IF l < t THEN 1 ELSE 0)
  IN  (High(x, h) * High(y, h) + High(mid1, h) + High(mid2, h) + carry + l) % W

(* Folded with umaal, which multiplies and adds two words.                  *)
FoldedOnArm(x, y, h) ==
  LET umaal(w, k, a, b) == a * b + w + k
      t1 == Low(x, h) * Low(y, h)
      t2 == umaal(0, High(t1, h), High(x, h), Low(y, h))
      t3 == umaal(Low(t2, h), 0, Low(x, h), High(y, h))
      t4 == umaal(High(t2, h), High(t3, h), High(x, h), High(y, h))
  IN  (t4 + Low(t1, h) + h * Low(t3, h)) % (h * h)

-----------------------------------------------------------------------------
(* fasthash64: words, then the bytes that are left in one.                  *)
FastHash(n) ==
  {Bytes(8 * k, 8) : k \in 0 .. n \div 8 - 1}
  \cup IF n % 8 = 0 THEN {} ELSE {Bytes(n - (n % 8), n % 8)}

=============================================================================
