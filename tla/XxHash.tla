------------------------------- MODULE XxHash -------------------------------
(* XXH32 and XXH64 of the library xxHash, which eoslib hashes with: in one  *)
(* call, and in a stream that is fed piece by piece.  The arithmetic is     *)
(* symbolic.  A hash is the stripes the accumulators have taken in, the     *)
(* length that is added, and the words and bytes that finalize mixes in;    *)
(* byte k of the input is the number k, and a zeroed byte is 0.             *)
(*                                                                          *)
(* A definition right above another with the same parameters is a faulty    *)
(* variant of it: PROJECT.json names the property that rules it out.        *)
EXTENDS Integers, Sequences, SequencesExt

CONSTANTS
  LengthWrap,  \* what total_len_32, 2 ^ 32 in the code, is scaled to
  Pieces,      \* the lengths a stream is fed by
  MaxFed       \* bound on what it is fed

ASSUME XxHashAssumption ==
  LengthWrap \in Nat \ {0} /\ Pieces \subseteq Nat /\ MaxFed \in Nat

VARIABLES
  hash,  \* the state of the stream
  fed    \* the number of bytes fed since the last reset

hashVars == <<hash, fed>>

XXH32 == [word |-> 4, flag |-> TRUE]
XXH64 == [word |-> 8, flag |-> FALSE]
Algorithms == {XXH32, XXH64}

StripeOf(a) == 4 * a.word

(* XXH64 counts in 64 bits, more than any stream has bytes.                 *)
Counted(a, n) == IF a.flag THEN n % LengthWrap ELSE n

-----------------------------------------------------------------------------
(* What both ways of hashing share.                                         *)

(* n reads of some width, one behind the other, from p[at + 1] on.          *)
Reads(p, at, width, n) ==
  [i \in 1 .. n |-> SubSeq(p, at + width * (i - 1) + 1, at + width * i)]

WholeStripes(a, s) == Reads(s, 0, StripeOf(a), Len(s) \div StripeOf(a))
LeftOver(a, s) == SubSeq(s, Len(s) - (Len(s) % StripeOf(a)) + 1, Len(s))

(* finalize: words, for XXH64 half a word, then bytes, of the memory p,     *)
(* whatever it holds behind them.                                           *)
Finalize(a, p, len) ==
  LET n == len % StripeOf(a)
  IN  Reads(p, 0, a.word, n \div a.word)
      \o Reads(p, n - (n % a.word), 4, (n % a.word) \div 4)
      \o Reads(p, n - (n % 4), 1, n % 4)

Merged(rounds) == [merged |-> TRUE, rounds |-> rounds]
Unmerged(rounds) == [merged |-> FALSE, rounds |-> rounds]

(* XXH32 and XXH64 of the bytes s.                                          *)
OneShot(a, s) ==
  [start  |-> IF Len(s) >= StripeOf(a) THEN Merged(WholeStripes(a, s))
              ELSE Unmerged(<<>>),
   length |-> Counted(a, Len(s)),
   tail   |-> Finalize(a, LeftOver(a, s), Len(s))]

-----------------------------------------------------------------------------
(* The stream.                                                              *)

Fresh(a) ==
  [alg |-> a, total |-> 0, large |-> FALSE, rounds |-> <<>>,
   mem |-> [i \in 1 .. StripeOf(a) |-> 0], memsize |-> 0]

(* memcpy of s into the buffer, behind its first n bytes.                   *)
Copied(mem, n, s) ==
  [i \in DOMAIN mem |-> IF i \in n + 1 .. n + Len(s) THEN s[i - n] ELSE mem[i]]

LargeNow(h, n) ==
  [h EXCEPT !.total = Counted(h.alg, @ + n),
            !.large = h.alg.flag /\ Counted(h.alg, h.total + n) >= StripeOf(h.alg)]
(* Only XXH32 keeps a flag: its length wraps.                               *)
Lengthened(h, n) ==
  LET total == Counted(h.alg, h.total + n)
  IN  [h EXCEPT !.total = total,
                !.large = @ \/ (h.alg.flag /\ (n >= StripeOf(h.alg)
                                               \/ total >= StripeOf(h.alg)))]

Updated(h, s) ==
  LET a    == h.alg
      g    == Lengthened(h, Len(s))
      need == IF h.memsize > 0 THEN StripeOf(a) - h.memsize ELSE 0
      full == Copied(h.mem, h.memsize, SubSeq(s, 1, need))
      rest == SubSeq(s, need + 1, Len(s))
  IN  IF h.memsize + Len(s) < StripeOf(a)
      THEN [g EXCEPT !.mem = Copied(@, h.memsize, s), !.memsize = @ + Len(s)]
      ELSE [g EXCEPT !.rounds = @ \o (IF need > 0 THEN <<full>> ELSE <<>>)
                                  \o WholeStripes(a, rest),
                     !.mem = Copied(full, 0, LeftOver(a, rest)),
                     !.memsize = Len(LeftOver(a, rest))]

(* Without a merge, the third accumulator is taken for the seed.            *)
Digest(h) ==
  LET a == h.alg
      large == IF a.flag THEN h.large ELSE h.total >= StripeOf(a)
  IN  [start  |-> IF large THEN Merged(h.rounds) ELSE Unmerged(h.rounds),
       length |-> h.total,
       tail   |-> Finalize(a, h.mem, IF a.flag THEN h.memsize ELSE h.total)]

Reset(a) == hash' = Fresh(a) /\ fed' = 0

Update(n) ==
  /\ fed + n <= MaxFed
  /\ hash' = Updated(hash, [i \in 1 .. n |-> fed + i])
  /\ fed' = fed + n

HashInit == fed = 0 /\ \E a \in Algorithms : hash = Fresh(a)
HashNext == \/ \E n \in Pieces : Update(n)
            \/ \E a \in Algorithms : Reset(a)

=============================================================================
