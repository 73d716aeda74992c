--------------------------- MODULE LibrariesProofs ---------------------------
(* What the libraries promise, proved for every value of the constants: a   *)
(* stream of XXH32 or XXH64 that is fed piece by piece ends in the hash of  *)
(* the whole, find_invalid accepts exactly the texts that the Unicode       *)
(* standard calls well-formed, walks over such a text agree in either       *)
(* direction, gxc.account takes of such nicknames just those whose every    *)
(* character is allowed, every hash reads each byte of its input, XXH3      *)
(* mixes no two pieces with the same part of its key, and its forms for     *)
(* different processors compute the same.                                   *)
(*                                                                          *)
(* The invariant of the streams says what the state is after n bytes.  A    *)
(* piece either stays in the buffer or completes it; what the accumulators  *)
(* take in is then two runs of stripes, one behind the other, and what is   *)
(* left of the piece is the beginning of the next stripe.  finalize reads   *)
(* no more of the buffer than that.                                         *)
(*                                                                          *)
(* One step of validate_next takes the one sequence of Table 3-7 that       *)
(* begins there, if there is one: the arithmetic of the lead octet, of the  *)
(* code point and of its least length draws the same lines as the table.    *)
(* The walk of find_invalid then stays on boundaries and misses none, and   *)
(* the unchecked reading of a nickname goes from one to the next.  No       *)
(* sequence begins with a trail octet, so that the step back from a         *)
(* boundary ends at the one before.                                         *)
(*                                                                          *)
(* Pieces that follow on one another, as the stripes and the tail of XXH32  *)
(* and XXH64 do, are the input when joined.  What the branches of XXH3 read *)
(* are intervals of the input and of the key, and the division that counts  *)
(* the pieces says which of them holds a byte.                              *)
(*                                                                          *)
(* A product of two words is the sum of four products of their halves.  A   *)
(* carry is 1 if and only if a sum, once cut to a word, is below its first  *)
(* part, and umaal, which adds two halves to a product of halves, leaves    *)
(* none: either way of adding up yields both words of the product.          *)
EXTENDS Libraries, SequenceTheorems, FiniteSetTheorems, WellFoundedInduction,
        NaturalsInduction, TLAPS

-----------------------------------------------------------------------------
(* The streams of XXH32 and XXH64.                                          *)

(* The length of XXH32 wraps, but not within two stripes.                   *)
LengthIsWide == LengthWrap >= 32

Fed(n) == [i \in 1 .. n |-> i]

(* The invariant: what the stream keeps is what of the whole input does not *)
(* fill a stripe, whatever else the buffer holds.                           *)
HasSeen(h, n) ==
  LET a == h.alg
      S == StripeOf(a)
  IN  /\ n \in Nat /\ a \in Algorithms /\ h.mem \in [1 .. S -> Nat]
      /\ h = [alg |-> a, total |-> Counted(a, n), large |-> a.flag /\ n >= S,
              rounds |-> WholeStripes(a, Fed(n)), mem |-> h.mem, memsize |-> n % S]
      /\ \A i \in 1 .. n % S : h.mem[i] = n - (n % S) + i

Streamed == HasSeen(hash, fed)

LEMMA Stripes ==
  ASSUME NEW a \in Algorithms
  PROVE  \/ a = XXH32 /\ a.word = 4 /\ a.flag = TRUE /\ StripeOf(a) = 16
         \/ a = XXH64 /\ a.word = 8 /\ a.flag = FALSE /\ StripeOf(a) = 32
BY DEF Algorithms, XXH32, XXH64, StripeOf

LEMMA QuotientIsUnique ==
  ASSUME NEW L \in Nat \ {0}, NEW q \in Int, NEW r \in 0 .. L - 1, NEW x \in Int,
         x = L * q + r
  PROVE  x \div L = q /\ x % L = r
<1> DEFINE p == x \div L
           t == x % L
<1>1. p \in Int /\ t \in 0 .. L - 1 /\ x = L * p + t
  OBVIOUS
<1> HIDE DEF p, t
<1>2. L * (p - q) = L * p - L * q /\ L * p \in Int /\ L * q \in Int
  BY <1>1
<1>3. L * (p - q) = r - t
  BY <1>1, <1>2
<1> DEFINE d == p - q
<1>4. d \in Int /\ L * d = r - t
  BY <1>1, <1>3
<1> HIDE DEF d
<1>5. (d >= 1 => L * d >= L) /\ (d <= -1 => L * d <= - L)
  BY <1>4
<1>6. r - t < L /\ r - t > - L
  BY <1>1
<1>7. d = 0
  BY <1>4, <1>5, <1>6
<1>8. p = q
  BY <1>1, <1>7 DEF d
<1>9. t = r
  BY <1>1, <1>8
<1> QED BY <1>8, <1>9 DEF p, t

(* Adding before or after the length wraps gives the same.                  *)
LEMMA WrapAdds ==
  ASSUME NEW L \in Nat \ {0}, NEW x \in Nat, NEW n \in Nat
  PROVE  ((x % L) + n) % L = (x + n) % L
<1> DEFINE q == x \div L
           r == x % L
<1>1. /\ q \in Int /\ r \in 0 .. L - 1 /\ x = L * q + r
  OBVIOUS
<1> HIDE DEF q, r
<1> DEFINE p == (r + n) \div L
           t == (r + n) % L
<1>2. p \in Int /\ t \in 0 .. L - 1 /\ r + n = L * p + t
  BY <1>1
<1> HIDE DEF p, t
<1>3. x + n = L * (q + p) + t
  <2>1. L * (q + p) = L * q + L * p
    BY <1>1, <1>2
  <2>2. L * q \in Int /\ L * p \in Int
    BY <1>1, <1>2
  <2> QED BY <1>1, <1>2, <2>1, <2>2
<1> DEFINE m == q + p
<1>4. m \in Int /\ x + n = L * m + t
  BY <1>1, <1>2, <1>3
<1> HIDE DEF m
<1>5. (x + n) % L = t
  <2> DEFINE y == x + n
  <2>1. y \in Int /\ y = L * m + t
    BY <1>4
  <2> HIDE DEF y
  <2>2. y % L = t
    BY <1>2, <1>4, <2>1, QuotientIsUnique
  <2> QED BY <2>2 DEF y
<1> QED BY <1>5 DEF t, r

LEMMA WrapKeeps ==
  ASSUME NEW L \in Nat \ {0}, NEW x \in Nat
  PROVE  /\ x % L \in Nat /\ x % L <= x
         /\ x < L => x % L = x
<1>1. x = L * (x \div L) + (x % L) /\ x % L \in 0 .. L - 1 /\ x \div L \in Nat
  OBVIOUS
<1>2. \A q \in Nat : L * q \in Nat /\ (q > 0 => L * q >= L)
  OBVIOUS
<1> QED BY <1>1, <1>2

LEMMA CountedAdds ==
  ASSUME LengthIsWide, NEW a \in Algorithms, NEW x \in Nat, NEW n \in Nat
  PROVE  /\ Counted(a, Counted(a, x) + n) = Counted(a, x + n)
         /\ Counted(a, x) \in Nat /\ Counted(a, x) <= x
         /\ x < 32 => Counted(a, x) = x
<1>1. LengthWrap \in Nat \ {0} /\ LengthWrap >= 32
  BY XxHashAssumption DEF LengthIsWide
<1>2. CASE a.flag
  <2>1. x % LengthWrap \in Nat /\ x % LengthWrap <= x
        /\ (x < 32 => x % LengthWrap = x)
    BY <1>1, WrapKeeps
  <2>2. ((x % LengthWrap) + n) % LengthWrap = (x + n) % LengthWrap
    BY <1>1, WrapAdds
  <2> QED BY <1>2, <2>1, <2>2 DEF Counted
<1>3. CASE ~ a.flag
  BY <1>3 DEF Counted
<1> QED BY <1>2, <1>3

(* Reads of what two memories have in common are the same.                  *)
LEMMA SameReads ==
  ASSUME NEW p \in Seq(Nat), NEW q \in Seq(Nat),
         NEW at \in Nat, NEW width \in Nat, NEW n \in Nat,
         at + width * n <= Len(p), at + width * n <= Len(q),
         \A i \in 1 .. at + width * n : p[i] = q[i]
  PROVE  Reads(p, at, width, n) = Reads(q, at, width, n)
<1> DEFINE m == at + width * n
<1>0. m \in Int /\ m <= Len(p) /\ m <= Len(q) /\ \A i \in 1 .. m : p[i] = q[i]
  OBVIOUS
<1> SUFFICES ASSUME NEW i \in 1 .. n
             PROVE  SubSeq(p, at + width * (i - 1) + 1, at + width * i)
                    = SubSeq(q, at + width * (i - 1) + 1, at + width * i)
  BY DEF Reads
<1> DEFINE lo == at + width * (i - 1) + 1
           hi == at + width * i
<1>1. lo \in Nat /\ lo >= 1 /\ hi \in Nat /\ hi <= m
  <2>1. width * n = width * i + width * (n - i) /\ n - i \in Nat /\ i - 1 \in Nat
    OBVIOUS
  <2>2. /\ width * (n - i) \in Nat /\ width * (i - 1) \in Nat
        /\ width * i \in Nat
    BY <2>1
  <2> DEFINE A == width * (i - 1)
             B == width * i
             C == width * (n - i)
             D == width * n
  <2>3. A \in Nat /\ B \in Nat /\ C \in Nat /\ D = B + C /\ at + D = m
    BY <2>1, <2>2
  <2>4. lo = at + A + 1 /\ hi = at + B
    OBVIOUS
  <2> HIDE DEF A, B, C, D, lo, hi, m
  <2> QED BY <2>3, <2>4
<1> HIDE DEF lo, hi, m
<1>2. SubSeq(p, lo, hi) = SubSeq(q, lo, hi)
  BY <1>0, <1>1
<1> QED BY <1>2 DEF lo, hi

LEMMA Parts ==
  ASSUME NEW n \in Nat, NEW w \in {4, 8}
  PROVE  /\ n \div w \in Nat /\ w * (n \div w) <= n
         /\ n - (n % w) \in Nat /\ (n % w) \div 4 \in Nat
         /\ n - (n % w) + 4 * ((n % w) \div 4) <= n
         /\ n - (n % 4) \in Nat /\ n % 4 \in Nat /\ n - (n % 4) + (n % 4) <= n
<1>1. CASE w = 4
  BY <1>1
<1>2. CASE w = 8
  BY <1>2
<1> QED BY <1>1, <1>2

LEMMA SameTail ==
  ASSUME NEW w \in {4, 8}, NEW n \in Nat, NEW p \in Seq(Nat), NEW q \in Seq(Nat),
         n <= Len(p), n <= Len(q), \A i \in 1 .. n : p[i] = q[i]
  PROVE  /\ Reads(p, 0, w, n \div w) = Reads(q, 0, w, n \div w)
         /\ Reads(p, n - (n % w), 4, (n % w) \div 4)
              = Reads(q, n - (n % w), 4, (n % w) \div 4)
         /\ Reads(p, n - (n % 4), 1, n % 4) = Reads(q, n - (n % 4), 1, n % 4)
<1>1. ASSUME NEW at \in Nat, NEW width \in Nat, NEW k \in Nat, at + width * k <= n
      PROVE  Reads(p, at, width, k) = Reads(q, at, width, k)
  <2>1. width * k \in Nat
    OBVIOUS
  <2>2. \A i \in 1 .. at + width * k : i \in 1 .. n
    BY <1>1, <2>1
  <2>3. at + width * k <= Len(p) /\ at + width * k <= Len(q)
    BY <1>1, <2>1
  <2>4. \A i \in 1 .. at + width * k : p[i] = q[i]
    BY <2>2
  <2> QED BY <2>3, <2>4, SameReads
<1> DEFINE words == n \div w
           rest == n - (n % w)
           halves == (n % w) \div 4
           last == n - (n % 4)
           bytes == n % 4
           none == 0
           one == 1
<1>2. /\ words \in Nat /\ w * words <= n /\ w \in Nat
      /\ rest \in Nat /\ halves \in Nat /\ rest + 4 * halves <= n
      /\ last \in Nat /\ bytes \in Nat /\ last + bytes <= n
  BY Parts
<1>3. none + w * words <= n /\ none \in Nat /\ last + one * bytes <= n /\ one \in Nat
  BY <1>2
<1> HIDE DEF words, rest, halves, last, bytes, none, one
<1>4. Reads(p, none, w, words) = Reads(q, none, w, words)
  BY <1>1, <1>2, <1>3
<1>5. Reads(p, rest, 4, halves) = Reads(q, rest, 4, halves)
  BY <1>1, <1>2
<1>6. Reads(p, last, one, bytes) = Reads(q, last, one, bytes)
  BY <1>1, <1>2, <1>3
<1> QED BY <1>4, <1>5, <1>6 DEF words, rest, halves, last, bytes, none, one

(* finalize reads only what is left over.                                   *)
LEMMA SameFinal ==
  ASSUME NEW a \in Algorithms, NEW p \in Seq(Nat), NEW q \in Seq(Nat),
         NEW len, NEW other, NEW n \in Nat,
         len % StripeOf(a) = n, other % StripeOf(a) = n,
         n <= Len(p), n <= Len(q), \A i \in 1 .. n : p[i] = q[i]
  PROVE  Finalize(a, p, len) = Finalize(a, q, other)
<1> DEFINE w == a.word
           F(m) == Reads(m, 0, w, n \div w) \o Reads(m, n - (n % w), 4, (n % w) \div 4)
                     \o Reads(m, n - (n % 4), 1, n % 4)
<1>1. w \in {4, 8}
  BY Stripes
<1>2. Finalize(a, p, len) = F(p) /\ Finalize(a, q, other) = F(q)
  BY Zenon DEF Finalize
<1> HIDE DEF w
<1>3. F(p) = F(q)
  BY <1>1, SameTail, Zenon
<1> QED BY <1>2, <1>3

LEMMA DigestIsOneShot == LengthIsWide /\ Streamed => StreamIsOneShot
<1> SUFFICES ASSUME LengthIsWide, Streamed PROVE StreamIsOneShot
  OBVIOUS
<1> DEFINE a == hash.alg
           S == StripeOf(a)
           s == Fed(fed)
<1>1. /\ fed \in Nat /\ a \in Algorithms /\ hash.total = Counted(a, fed)
      /\ hash.large = (a.flag /\ fed >= S) /\ hash.rounds = WholeStripes(a, s)
      /\ hash.memsize = fed % S /\ hash.mem \in [1 .. S -> Nat]
      /\ \A i \in 1 .. fed % S : hash.mem[i] = fed - (fed % S) + i
  <2>1. /\ fed \in Nat /\ a \in Algorithms /\ hash.mem \in [1 .. S -> Nat]
        /\ \A i \in 1 .. fed % S : hash.mem[i] = fed - (fed % S) + i
        /\ hash = [alg |-> a, total |-> Counted(a, fed), large |-> a.flag /\ fed >= S,
                   rounds |-> WholeStripes(a, s), mem |-> hash.mem,
                   memsize |-> fed % S]
    BY Zenon DEF Streamed, HasSeen
  <2> HIDE DEF a, S, s
  <2> QED BY <2>1
<1>2. S \in {16, 32} /\ (~ a.flag => Counted(a, fed) = fed) /\ a.flag \in BOOLEAN
  BY <1>1, Stripes DEF Counted
<1>3. s \in Seq(Nat) /\ Len(s) = fed /\ \A i \in 1 .. fed : s[i] = i
  BY <1>1 DEF Fed
<1> HIDE DEF a, S, s
<1>4. /\ LeftOver(a, s) \in Seq(Nat) /\ Len(LeftOver(a, s)) = fed % S
      /\ \A i \in 1 .. fed % S : LeftOver(a, s)[i] = fed - (fed % S) + i
  <2> DEFINE r == fed % S
  <2>1. r \in 0 .. fed
    BY <1>1, <1>2
  <2> HIDE DEF r
  <2>2. /\ SubSeq(s, fed - r + 1, fed) \in Seq(Nat)
        /\ Len(SubSeq(s, fed - r + 1, fed)) = r
        /\ \A i \in 1 .. r : SubSeq(s, fed - r + 1, fed)[i] = fed - r + i
    BY <1>1, <1>3, <2>1
  <2> QED BY <1>3, <2>2 DEF LeftOver, r, S
<1>5. Finalize(a, hash.mem, IF a.flag THEN hash.memsize ELSE hash.total)
        = Finalize(a, LeftOver(a, s), fed)
  <2> DEFINE len == IF a.flag THEN hash.memsize ELSE hash.total
             r == fed % S
  <2>1. len \in Nat /\ len % S = r /\ r \in Nat /\ r < S
    BY <1>1, <1>2
  <2>2. hash.mem \in Seq(Nat) /\ Len(hash.mem) = S
    BY <1>1, <1>2
  <2>3. \A i \in 1 .. r : hash.mem[i] = LeftOver(a, s)[i]
    BY <1>1, <1>4
  <2> HIDE DEF len, r
  <2>4. fed % StripeOf(a) = r /\ len % StripeOf(a) = r
    BY <2>1 DEF r, S
  <2>5. r <= Len(hash.mem) /\ r <= Len(LeftOver(a, s))
    BY <1>2, <1>4, <2>1, <2>2 DEF r
  <2>6. Finalize(a, hash.mem, len) = Finalize(a, LeftOver(a, s), fed)
    <3> DEFINE m == hash.mem
               l == LeftOver(a, s)
    <3>1. /\ a \in Algorithms /\ m \in Seq(Nat) /\ l \in Seq(Nat) /\ r \in Nat
          /\ len % StripeOf(a) = r /\ fed % StripeOf(a) = r
          /\ r <= Len(m) /\ r <= Len(l) /\ \A i \in 1 .. r : m[i] = l[i]
      BY <1>1, <1>4, <2>1, <2>2, <2>3, <2>4, <2>5
    <3> HIDE DEF m, l
    <3>2. Finalize(a, m, len) = Finalize(a, l, fed)
      BY <3>1, SameFinal
    <3> QED BY <3>2 DEF m, l
  <2> QED BY <2>6 DEF len
<1>6. (IF a.flag THEN hash.large ELSE hash.total >= S) = (fed >= S)
  BY <1>1, <1>2
<1>7. Digest(hash) =
        [start  |-> IF fed >= S THEN Merged(hash.rounds) ELSE Unmerged(hash.rounds),
         length |-> hash.total,
         tail   |-> Finalize(a, hash.mem, IF a.flag THEN hash.memsize ELSE hash.total)]
  BY <1>6, Zenon DEF Digest, a, S
<1>8. OneShot(a, s) =
        [start  |-> IF fed >= S THEN Merged(WholeStripes(a, s)) ELSE Unmerged(<<>>),
         length |-> Counted(a, fed), tail |-> Finalize(a, LeftOver(a, s), fed)]
  BY <1>3, Zenon DEF OneShot, S
<1>9. fed < S => WholeStripes(a, s) = <<>>
  BY <1>1, <1>2, <1>3 DEF WholeStripes, Reads, S
<1>10. Digest(hash) = OneShot(a, s)
  BY <1>1, <1>2, <1>5, <1>7, <1>8, <1>9
<1> QED BY <1>10 DEF StreamIsOneShot, Fed, a, s

(* The bytes of n stripes of an input, from the k-th stripe on.             *)
StripesFrom(S, k, n) == [i \in 1 .. n |-> [j \in 1 .. S |-> S * (k + i - 1) + j]]

(* Their concatenation has a name, for the provers to leave it whole.       *)
Joined(s, t) == s \o t

LEMMA StripesJoin ==
  ASSUME NEW S \in Nat, NEW k \in Nat, NEW n \in Nat, NEW m \in Nat, NEW l, l = k + n,
         NEW c, c = n + m
  PROVE  Joined(StripesFrom(S, k, n), StripesFrom(S, l, m)) = StripesFrom(S, k, c)
<1> DEFINE B(i) == [j \in 1 .. S |-> S * (i - 1) + j]
<1> HIDE DEF B
<1>1. \A x \in Nat, y \in Nat : StripesFrom(S, x, y) = [i \in 1 .. y |-> B(x + i)]
  BY DEF StripesFrom, B
<1>2. [i \in 1 .. n |-> B(k + i)] \o [i \in 1 .. m |-> B(k + n + i)]
        = [i \in 1 .. n + m |-> B(k + i)]
  <2> DEFINE f == [i \in 1 .. n |-> B(k + i)]
             g == [i \in 1 .. m |-> B(k + n + i)]
             r == [i \in 1 .. n + m |-> B(k + i)]
             V == {B(i) : i \in Nat}
  <2>1. f \in Seq(V) /\ g \in Seq(V) /\ Len(f) = n /\ Len(g) = m
    OBVIOUS
  <2>2. r \in Seq(V) /\ Len(r) = n + m
    OBVIOUS
  <2>3. f \o g \in Seq(V) /\ Len(f \o g) = n + m
    BY <2>1
  <2>4. \A i \in 1 .. n + m : (f \o g)[i] = r[i]
    <3> TAKE i \in 1 .. n + m
    <3>1. CASE i <= n
      BY <2>1, <3>1
    <3>2. CASE i > n
      <4>1. (f \o g)[i] = g[i - n] /\ i - n \in 1 .. m
        BY <2>1, <3>2
      <4>2. k + n + (i - n) = k + i
        OBVIOUS
      <4> QED BY <4>1, <4>2
    <3> QED BY <3>1, <3>2
  <2> HIDE DEF f, g, r, V
  <2>5. f \o g = r
    BY <2>2, <2>3, <2>4, SeqEqual
  <2> QED BY <2>5 DEF f, g, r
<1>3. k + n \in Nat /\ n + m \in Nat
  OBVIOUS
<1>4. /\ StripesFrom(S, k, n) = [i \in 1 .. n |-> B(k + i)]
      /\ StripesFrom(S, k + n, m) = [i \in 1 .. m |-> B(k + n + i)]
      /\ StripesFrom(S, k, n + m) = [i \in 1 .. n + m |-> B(k + i)]
  BY <1>1, <1>3, Zenon
<1> QED BY <1>2, <1>4, Zenon DEF Joined

LEMMA RunCut ==
  ASSUME NEW b \in Nat, NEW m \in Nat, NEW lo \in Nat, NEW n \in Nat, lo + n <= m
  PROVE  SubSeq([i \in 1 .. m |-> b + i], lo + 1, lo + n) = [j \in 1 .. n |-> b + lo + j]
<1> DEFINE s == [i \in 1 .. m |-> b + i]
           f == [j \in 1 .. n |-> b + lo + j]
           t == SubSeq(s, lo + 1, lo + n)
<1>1. f \in Seq(Nat) /\ Len(f) = n /\ \A j \in 1 .. n : f[j] = b + lo + j
  OBVIOUS
<1>2. \A i \in lo + 1 .. lo + n : s[i] \in Nat /\ s[i] = b + i
  OBVIOUS
<1> HIDE DEF s, f
<1>3. /\ t \in Seq(Nat) /\ Len(t) = IF lo + 1 <= lo + n THEN lo + n - (lo + 1) + 1 ELSE 0
      /\ \A i \in 1 .. lo + n - (lo + 1) + 1 : t[i] = s[lo + 1 + i - 1]
  BY <1>2, SubSeqProperties
<1> HIDE DEF t
<1>4. Len(t) = n /\ \A i \in 1 .. n : t[i] = f[i]
  BY <1>1, <1>2, <1>3
<1>5. t = f
  BY <1>1, <1>3, <1>4, SeqEqual
<1> QED BY <1>5 DEF t, f, s

(* What is cut from a run of bytes that begins with a stripe.               *)
LEMMA CutFrom ==
  ASSUME NEW a \in Algorithms, NEW q \in Nat, NEW m \in Nat
  PROVE  LET S == StripeOf(a)
             s == [i \in 1 .. m |-> S * q + i]
         IN  /\ WholeStripes(a, s) = StripesFrom(S, q, m \div S)
             /\ LeftOver(a, s) = [i \in 1 .. m % S |-> S * q + m - (m % S) + i]
<1> DEFINE S == StripeOf(a)
           b == S * q
           s == [i \in 1 .. m |-> b + i]
           c == m \div S
           r == m % S
<1>1. S \in {16, 32}
  BY Stripes
<1>2. b \in Nat /\ c \in Nat /\ r \in Nat /\ r < S /\ m = S * c + r
  BY <1>1
<1>3. s \in Seq(Nat) /\ Len(s) = m
  BY <1>2
<1> HIDE DEF b, c, r
<1>4. ASSUME NEW i \in 1 .. c
      PROVE  SubSeq(s, 0 + S * (i - 1) + 1, 0 + S * i) = [j \in 1 .. S |-> S * (q + i - 1) + j]
  <2> DEFINE lo == S * (i - 1)
  <2>1. lo \in Nat /\ lo + S <= m /\ S * i = lo + S /\ S * (q + i - 1) = b + lo
    BY <1>1, <1>2 DEF b
  <2> HIDE DEF lo
  <2>2. SubSeq(s, lo + 1, lo + S) = [j \in 1 .. S |-> b + lo + j]
    <3>1. S \in Nat /\ lo \in Nat /\ lo + S <= m /\ b \in Nat
      BY <1>1, <1>2, <2>1
    <3> HIDE DEF S
    <3> QED BY <3>1, RunCut
  <2> DEFINE hi == S * i
  <2>3. hi = lo + S
    BY <2>1
  <2> HIDE DEF hi, S
  <2>4. 0 + lo + 1 = lo + 1 /\ 0 + hi = lo + S
    BY <1>1, <2>1, <2>3
  <2> QED BY <2>1, <2>2, <2>4 DEF lo, hi
<1>5. WholeStripes(a, s) = StripesFrom(S, q, c)
  BY <1>3, <1>4 DEF WholeStripes, Reads, StripesFrom, c
<1>6. LeftOver(a, s) = [i \in 1 .. r |-> b + m - r + i]
  <2> DEFINE lo == m - r
  <2>1. lo \in Nat /\ lo + r = m /\ lo + r <= m /\ \A i \in Int : b + lo + i = b + m - r + i
    BY <1>1, <1>2
  <2> HIDE DEF lo
  <2>2. SubSeq(s, lo + 1, lo + r) = [i \in 1 .. r |-> b + lo + i]
    <3>1. r \in Nat /\ lo \in Nat /\ lo + r <= m /\ b \in Nat
      BY <1>2, <2>1
    <3> QED BY <3>1, RunCut
  <2>3. [i \in 1 .. r |-> b + lo + i] = [i \in 1 .. r |-> b + m - r + i]
    BY <2>1
  <2>4. LeftOver(a, s) = SubSeq(s, lo + 1, m)
    BY <1>3, Zenon DEF LeftOver, r, lo
  <2> QED BY <2>1, <2>2, <2>3, <2>4
<1> QED BY <1>5, <1>6 DEF b, c, r

LEMMA SeenFacts ==
  ASSUME NEW h, NEW f, HasSeen(h, f)
  PROVE  /\ f \in Nat /\ h.alg \in Algorithms /\ h.mem \in [1 .. StripeOf(h.alg) -> Nat]
         /\ h = [alg |-> h.alg, total |-> h.total, large |-> h.large,
                 rounds |-> h.rounds, mem |-> h.mem, memsize |-> h.memsize]
         /\ h.total = Counted(h.alg, f)
         /\ h.large = (h.alg.flag /\ f >= StripeOf(h.alg))
         /\ h.rounds = WholeStripes(h.alg, Fed(f))
         /\ h.memsize = f % StripeOf(h.alg)
         /\ \A i \in 1 .. f % StripeOf(h.alg) : h.mem[i] = f - (f % StripeOf(h.alg)) + i
<1> DEFINE a == h.alg
           S == StripeOf(a)
           r == WholeStripes(a, Fed(f))
           c == Counted(a, f)
<1>1. /\ f \in Nat /\ a \in Algorithms /\ h.mem \in [1 .. S -> Nat]
      /\ h = [alg |-> a, total |-> c, large |-> a.flag /\ f >= S,
              rounds |-> r, mem |-> h.mem, memsize |-> f % S]
      /\ \A i \in 1 .. f % S : h.mem[i] = f - (f % S) + i
  BY Zenon DEF HasSeen
<1> HIDE DEF S, r, c
<1>2. /\ h.total = c /\ h.large = (a.flag /\ f >= S) /\ h.rounds = r
      /\ h.memsize = f % S
  BY <1>1
<1>3. h = [alg |-> h.alg, total |-> h.total, large |-> h.large,
           rounds |-> h.rounds, mem |-> h.mem, memsize |-> h.memsize]
  BY <1>1
<1> QED BY <1>1, <1>2, <1>3 DEF S, r, c

StateOf(a, total, large, rounds, mem, size) ==
  [alg |-> a, total |-> total, large |-> large, rounds |-> rounds,
   mem |-> mem, memsize |-> size]

(* The state that has seen n bytes, with the buffer mem.                     *)
Held(a, n, mem) ==
  StateOf(a, Counted(a, n), a.flag /\ n >= StripeOf(a), WholeStripes(a, Fed(n)), mem,
          n % StripeOf(a))

LEMMA HeldIsSeen ==
  ASSUME NEW a \in Algorithms, NEW n \in Nat, NEW mem \in [1 .. StripeOf(a) -> Nat],
         \A i \in 1 .. n % StripeOf(a) : mem[i] = n - (n % StripeOf(a)) + i
  PROVE  HasSeen(Held(a, n, mem), n)
<1> DEFINE h == Held(a, n, mem)
           large == a.flag /\ n >= StripeOf(a)
           total == Counted(a, n)
           rounds == WholeStripes(a, Fed(n))
           size == n % StripeOf(a)
<1>1. h = StateOf(a, total, large, rounds, mem, size)
  BY Zenon DEF Held
<1> HIDE DEF h, large, total, rounds, size
<1>2. h.alg = a /\ h.mem = mem
        /\ h = [alg |-> a, total |-> total, large |-> large, rounds |-> rounds,
                mem |-> mem, memsize |-> size]
  BY <1>1 DEF StateOf
<1>3. HasSeen(h, n)
  BY <1>2, Zenon DEF HasSeen, large, total, rounds, size
<1> QED BY <1>3, Zenon DEF h

(* The length and the flag.                                                 *)
LEMMA LengthenedOK ==
  ASSUME LengthIsWide, NEW h, NEW f \in Nat, NEW n \in Nat, HasSeen(h, f)
  PROVE  Lengthened(h, n) =
           [alg |-> h.alg, total |-> Counted(h.alg, f + n),
            large |-> h.alg.flag /\ f + n >= StripeOf(h.alg),
            rounds |-> h.rounds, mem |-> h.mem, memsize |-> h.memsize]
<1> DEFINE a == h.alg
           S == StripeOf(a)
           total == Counted(a, h.total + n)
           large == h.large \/ (a.flag /\ (n >= S \/ total >= S))
<1>1. /\ a \in Algorithms /\ h.total = Counted(a, f) /\ h.large = (a.flag /\ f >= S)
      /\ h = [alg |-> a, total |-> h.total, large |-> h.large,
              rounds |-> h.rounds, mem |-> h.mem, memsize |-> h.memsize]
  BY SeenFacts, Zenon
<1>2. Lengthened(h, n) = [h EXCEPT !.total = total, !.large = large]
  BY Zenon DEF Lengthened
<1>3. total = Counted(a, f + n)
  BY <1>1, CountedAdds
<1>4. /\ Counted(a, f + n) \in Nat /\ Counted(a, f + n) <= f + n
      /\ (f + n < 32 => Counted(a, f + n) = f + n)
  <2>1. f + n \in Nat
    OBVIOUS
  <2> QED BY <1>1, <2>1, CountedAdds
<1>5. (a.flag => S = 16) /\ a.flag \in BOOLEAN
  BY <1>1, Stripes
<1>6. large = (a.flag /\ f + n >= S)
  <2> HIDE DEF total, S, a
  <2>1. ASSUME a.flag, f + n >= S
        PROVE  n >= S \/ total >= S \/ f >= S
    BY <1>3, <1>4, <1>5, <2>1
  <2>2. ASSUME a.flag, n >= S \/ total >= S \/ f >= S
        PROVE  f + n >= S
    BY <1>3, <1>4, <1>5, <2>2
  <2> QED BY <1>1, <1>5, <2>1, <2>2, Zenon
<1>7. h = StateOf(a, h.total, h.large, h.rounds, h.mem, h.memsize)
  BY <1>1, Zenon DEF StateOf
<1> DEFINE g == [h EXCEPT !.total = total]
<1>8. [h EXCEPT !.total = total, !.large = large] = [g EXCEPT !.large = large]
  BY Zenon
<1> HIDE DEF total, large
<1>9. g = StateOf(a, total, h.large, h.rounds, h.mem, h.memsize)
  BY <1>7 DEF StateOf
<1> HIDE DEF g
<1>10. [g EXCEPT !.large = large] = StateOf(a, total, large, h.rounds, h.mem, h.memsize)
  BY <1>9 DEF StateOf
<1> QED BY <1>2, <1>3, <1>6, <1>8, <1>10 DEF StateOf

LEMMA FedCut ==
  ASSUME NEW a \in Algorithms, NEW n \in Nat
  PROVE  WholeStripes(a, Fed(n)) = StripesFrom(StripeOf(a), 0, n \div StripeOf(a))
<1> DEFINE S == StripeOf(a)
           z == 0
           s == [i \in 1 .. n |-> S * z + i]
<1>1. S \in {16, 32} /\ z \in Nat
  BY Stripes
<1>2. Fed(n) = s
  BY <1>1 DEF Fed
<1> HIDE DEF z
<1>3. WholeStripes(a, s) = StripesFrom(S, z, n \div S)
  BY <1>1, CutFrom, Zenon
<1> QED BY <1>2, <1>3 DEF z

LEMMA CopiedOK ==
  ASSUME NEW S \in Nat, NEW mem \in [1 .. S -> Nat], NEW n \in Nat, NEW s \in Seq(Nat)
  PROVE  /\ Copied(mem, n, s) \in [1 .. S -> Nat]
         /\ \A i \in 1 .. S : Copied(mem, n, s)[i] =
              IF i > n /\ i <= n + Len(s) THEN s[i - n] ELSE mem[i]
BY DEF Copied

(* A piece that does not fill the buffer.                                   *)
LEMMA PieceBuffered ==
  ASSUME LengthIsWide, NEW h, NEW f \in Nat, NEW n \in Nat, HasSeen(h, f),
         h.memsize + n < StripeOf(h.alg)
  PROVE  HasSeen(Updated(h, [i \in 1 .. n |-> f + i]), f + n)
<1> DEFINE a == h.alg
           S == StripeOf(a)
           x == [i \in 1 .. n |-> f + i]
           r == f % S
           q == f \div S
           g == Lengthened(h, n)
           total == Counted(a, f + n)
           large == a.flag /\ f + n >= S
           m == Copied(h.mem, h.memsize, x)
           u == Updated(h, x)
<1>1. /\ a \in Algorithms /\ h.mem \in [1 .. S -> Nat]
      /\ h.rounds = WholeStripes(a, Fed(f)) /\ h.memsize = r
      /\ \A i \in 1 .. r : h.mem[i] = f - r + i
  BY SeenFacts, Zenon
<1>2. S \in {16, 32}
  BY <1>1, Stripes
<1>3. /\ q \in Nat /\ r \in Nat /\ f = S * q + r /\ r + n < S
  BY <1>1, <1>2
<1>4. x \in Seq(Nat) /\ Len(x) = n /\ \A i \in 1 .. n : x[i] = f + i
  OBVIOUS
<1>5. g = StateOf(a, total, large, h.rounds, h.mem, h.memsize)
  BY LengthenedOK, Zenon DEF StateOf
<1>6. u = [g EXCEPT !.mem = Copied(@, h.memsize, x), !.memsize = @ + Len(x)]
  BY <1>4, Zenon DEF Updated
<1> HIDE DEF S, g, total, large, x, r, q, u, a
<1>7. g.mem = h.mem /\ g.memsize = r
  BY <1>1, <1>5 DEF StateOf
<1>8. u = [g EXCEPT !.mem = m, !.memsize = r + n]
  <2>1. u = [g EXCEPT !.mem = Copied(g.mem, h.memsize, x), !.memsize = g.memsize + Len(x)]
    BY <1>6
  <2> QED BY <1>4, <1>7, <2>1
<1>9. u = StateOf(a, total, large, h.rounds, m, r + n)
  <2> DEFINE p == [g EXCEPT !.mem = m]
  <2>1. u = [p EXCEPT !.memsize = r + n]
    BY <1>8, Zenon
  <2> HIDE DEF m
  <2>2. p = StateOf(a, total, large, h.rounds, m, h.memsize)
    BY <1>5 DEF StateOf
  <2> HIDE DEF p
  <2>3. [p EXCEPT !.memsize = r + n] = StateOf(a, total, large, h.rounds, m, r + n)
    BY <2>2 DEF StateOf
  <2> QED BY <2>1, <2>3
<1>10. (f + n) \div S = q /\ (f + n) % S = r + n
  BY <1>2, <1>3
<1>11. h.rounds = WholeStripes(a, Fed(f + n))
  <2>1. h.rounds = StripesFrom(S, 0, q)
    BY <1>1, FedCut, Zenon DEF S, q
  <2>2. WholeStripes(a, Fed(f + n)) = StripesFrom(S, 0, (f + n) \div S)
    BY <1>1, FedCut DEF S
  <2> QED BY <1>10, <2>1, <2>2
<1>12. m \in [1 .. S -> Nat] /\ \A i \in 1 .. r + n : m[i] = f + n - (r + n) + i
  <2>1. /\ m \in [1 .. S -> Nat]
        /\ \A i \in 1 .. S : m[i] = IF i > r /\ i <= r + n THEN x[i - r] ELSE h.mem[i]
    <3> DEFINE b == h.mem
    <3>1. b \in [1 .. S -> Nat] /\ S \in Nat /\ m = Copied(b, r, x)
      BY <1>1, <1>2
    <3> HIDE DEF b, m
    <3>2. /\ Copied(b, r, x) \in [1 .. S -> Nat]
          /\ \A i \in 1 .. S : Copied(b, r, x)[i] =
               IF i > r /\ i <= r + n THEN x[i - r] ELSE b[i]
      <4>3. S \in Nat /\ b \in [1 .. S -> Nat] /\ r \in Nat /\ x \in Seq(Nat)
        BY <1>3, <1>4, <3>1
      <4>1. \A i \in 1 .. S : Copied(b, r, x)[i] =
              IF i > r /\ i <= r + Len(x) THEN x[i - r] ELSE b[i]
        BY <4>3, CopiedOK
      <4>2. Copied(b, r, x) \in [1 .. S -> Nat]
        BY <4>3, CopiedOK
      <4> QED BY <1>4, <4>1, <4>2
    <3> QED BY <3>1, <3>2 DEF b
  <2> HIDE DEF m
  <2>2. \A i \in 1 .. r + n : m[i] = f + n - (r + n) + i
    <3> TAKE i \in 1 .. r + n
    <3>1. i \in 1 .. S
      BY <1>2, <1>3
    <3>2. CASE i <= r
      BY <1>1, <1>3, <2>1, <3>1, <3>2
    <3>3. CASE i > r
      <4>1. m[i] = x[i - r] /\ i - r \in 1 .. n
        BY <1>3, <2>1, <3>1, <3>3
      <4> QED BY <1>3, <1>4, <4>1
    <3> QED BY <1>3, <3>2, <3>3
  <2> QED BY <2>1, <2>2
<1> HIDE DEF m
<1>13. HasSeen(u, f + n)
  <2> DEFINE N == f + n
  <2>1. u = Held(a, N, m)
    <3>1. N % S = r + n /\ h.rounds = WholeStripes(a, Fed(N))
      BY <1>10, <1>11
    <3> QED BY <1>9, <3>1, Zenon DEF Held, S, total, large
  <2> DEFINE size == N % S
  <2>2. N \in Nat /\ size = r + n /\ N = f + n
    BY <1>10
  <2> HIDE DEF N, size
  <2>4. m \in [1 .. S -> Nat] /\ \A i \in 1 .. size : m[i] = N - size + i
    BY <1>12, <2>2
  <2>3. HasSeen(Held(a, N, m), N)
    BY <1>1, <2>2, <2>4, HeldIsSeen, Zenon DEF S, size
  <2> QED BY <2>1, <2>3, Zenon DEF N
<1> QED BY <1>13 DEF u, x

(* The stripe that is under way is complete after so many bytes, and as     *)
(* many stripes are then behind it.                                         *)
Needed(S, r) == IF r > 0 THEN S - r ELSE 0
Begun(r) == IF r > 0 THEN 1 ELSE 0

(* The buffer, filled up, is the stripe that was under way.                 *)
LEMMA BufferFills ==
  ASSUME NEW S \in {16, 32}, NEW q \in Nat, NEW r \in Nat, r < S, NEW mem \in [1 .. S -> Nat],
         \A i \in 1 .. r : mem[i] = S * q + i
  PROVE  LET full == Copied(mem, r, [j \in 1 .. Needed(S, r) |-> S * q + r + j])
         IN  /\ full \in [1 .. S -> Nat]
             /\ (IF Needed(S, r) > 0 THEN <<full>> ELSE <<>>) = StripesFrom(S, q, Begun(r))
<1> DEFINE s == [j \in 1 .. Needed(S, r) |-> S * q + r + j]
           full == Copied(mem, r, s)
<1>1. s \in Seq(Nat) /\ Len(s) = Needed(S, r) /\ S \in Nat
      /\ \A j \in 1 .. Needed(S, r) : s[j] = S * q + r + j
  BY DEF Needed
<1> HIDE DEF s
<1>2. /\ full \in [1 .. S -> Nat]
      /\ \A i \in 1 .. S : full[i] = IF i > r /\ i <= r + Len(s) THEN s[i - r] ELSE mem[i]
  <2>1. full \in [1 .. S -> Nat]
    BY <1>1, CopiedOK
  <2>2. \A i \in 1 .. S : full[i] = IF i > r /\ i <= r + Len(s) THEN s[i - r] ELSE mem[i]
    BY <1>1 DEF full, Copied
  <2> QED BY <2>1, <2>2
<1> HIDE DEF full
<1>3. CASE r > 0
  <2>1. Needed(S, r) = S - r /\ Needed(S, r) > 0 /\ Begun(r) = 1
    BY <1>3 DEF Needed, Begun
  <2>2. \A i \in 1 .. S : full[i] = S * q + i
    <3> TAKE i \in 1 .. S
    <3> DEFINE b == S * q
    <3>0. b \in Nat
      OBVIOUS
    <3>1. CASE i > r
      <4>1. full[i] = s[i - r] /\ i - r \in 1 .. Needed(S, r)
        <5>1. i > r /\ i <= r + Len(s) /\ i - r \in 1 .. Needed(S, r)
          BY <1>1, <2>1, <3>1
        <5>2. full[i] = IF i > r /\ i <= r + Len(s) THEN s[i - r] ELSE mem[i]
          BY <1>2, Zenon
        <5> QED BY <5>1, <5>2, Zenon
      <4>2. s[i - r] = b + r + (i - r)
        BY <1>1, <4>1
      <4> HIDE DEF b
      <4>3. b + r + (i - r) = b + i
        BY <3>0
      <4> QED BY <4>1, <4>2, <4>3 DEF b
    <3>2. CASE i <= r
      BY <1>1, <1>2, <3>2
    <3> QED BY <3>1, <3>2
  <2>3. full = [j \in 1 .. S |-> S * q + j]
    BY <1>2, <2>2
  <2>4. StripesFrom(S, q, 1) = <<[j \in 1 .. S |-> S * q + j]>>
    <3>1. StripesFrom(S, q, 1) = [i \in 1 .. 1 |-> [j \in 1 .. S |-> S * (q + i - 1) + j]]
      BY DEF StripesFrom
    <3>2. \A i \in 1 .. 1 : q + i - 1 = q
      OBVIOUS
    <3>3. [i \in 1 .. 1 |-> [j \in 1 .. S |-> S * (q + i - 1) + j]]
            = [i \in 1 .. 1 |-> [j \in 1 .. S |-> S * q + j]]
      BY <3>2
    <3> DEFINE v == [j \in 1 .. S |-> S * q + j]
    <3> HIDE DEF v
    <3>4. [i \in 1 .. 1 |-> v] = <<v>>
      OBVIOUS
    <3> QED BY <3>1, <3>3, <3>4 DEF v
  <2> QED BY <1>2, <2>1, <2>3, <2>4 DEF full, s
<1>4. CASE r = 0
  <2>1. Needed(S, r) = 0 /\ Begun(r) = 0
    BY <1>4 DEF Needed, Begun
  <2>2. StripesFrom(S, q, 0) = <<>>
    BY DEF StripesFrom
  <2> QED BY <1>2, <2>1, <2>2 DEF full, s
<1> QED BY <1>3, <1>4

(* The stripes behind the piece, and what is left of it.                    *)
LEMMA PieceCut ==
  ASSUME NEW a \in Algorithms, NEW f \in Nat, NEW n \in Nat, NEW need \in Nat, NEW k \in Nat,
         NEW m \in Nat, n = need + m, f + need = StripeOf(a) * k
  PROVE  LET S == StripeOf(a)
             x == [i \in 1 .. n |-> f + i]
             rest == SubSeq(x, need + 1, Len(x))
         IN  /\ SubSeq(x, 1, need) = [j \in 1 .. need |-> f + j]
             /\ WholeStripes(a, rest) = StripesFrom(S, k, m \div S)
             /\ LeftOver(a, rest) = [i \in 1 .. m % S |-> S * k + m - (m % S) + i]
<1> DEFINE S == StripeOf(a)
           x == [i \in 1 .. n |-> f + i]
           z == 0
<1>1. x \in Seq(Nat) /\ Len(x) = n
  OBVIOUS
<1>2. SubSeq(x, z + 1, z + need) = [j \in 1 .. need |-> f + z + j]
  <2>1. z \in Nat /\ z + need <= n
    OBVIOUS
  <2> HIDE DEF z
  <2> QED BY <2>1, RunCut
<1>3. [j \in 1 .. need |-> f + z + j] = [j \in 1 .. need |-> f + j]
  OBVIOUS
<1>4. SubSeq(x, need + 1, need + m) = [j \in 1 .. m |-> f + need + j]
  BY RunCut
<1>5. [j \in 1 .. m |-> f + need + j] = [j \in 1 .. m |-> S * k + j]
  OBVIOUS
<1>6. /\ WholeStripes(a, [j \in 1 .. m |-> S * k + j]) = StripesFrom(S, k, m \div S)
      /\ LeftOver(a, [j \in 1 .. m |-> S * k + j])
           = [i \in 1 .. m % S |-> S * k + m - (m % S) + i]
  BY CutFrom, Zenon
<1>7. SubSeq(x, need + 1, Len(x)) = [j \in 1 .. m |-> S * k + j]
  BY <1>1, <1>4, <1>5
<1>8. z + 1 = 1 /\ z + need = need
  OBVIOUS
<1> HIDE DEF x, S, z
<1>9. SubSeq(x, 1, need) = [j \in 1 .. need |-> f + j]
  BY <1>2, <1>3, <1>8
<1> QED BY <1>6, <1>7, <1>9, Zenon DEF x, S

(* A piece that fills the buffer.                                           *)
LEMMA PieceFills ==
  ASSUME LengthIsWide, NEW h, NEW f \in Nat, NEW n \in Nat, HasSeen(h, f),
         h.memsize + n >= StripeOf(h.alg)
  PROVE  HasSeen(Updated(h, [i \in 1 .. n |-> f + i]), f + n)
<1> DEFINE a == h.alg
           S == StripeOf(a)
           x == [i \in 1 .. n |-> f + i]
           r == f % S
           q == f \div S
           need == Needed(S, r)
           e == Begun(r)
           k == q + e
           m == n - need
           c == m \div S
           t == m % S
           N == f + n
           g == Lengthened(h, n)
           total == Counted(a, N)
           large == a.flag /\ N >= S
           full == Copied(h.mem, r, SubSeq(x, 1, need))
           rest == SubSeq(x, need + 1, Len(x))
           begun == IF need > 0 THEN <<full>> ELSE <<>>
           left == LeftOver(a, rest)
           mem == Copied(full, 0, left)
           rounds == h.rounds \o begun \o WholeStripes(a, rest)
           u == Updated(h, x)
<1>1. /\ a \in Algorithms /\ h.mem \in [1 .. S -> Nat]
      /\ h.rounds = WholeStripes(a, Fed(f)) /\ h.memsize = r
      /\ \A i \in 1 .. r : h.mem[i] = f - r + i
  BY SeenFacts, Zenon
<1>2. S \in {16, 32}
  BY <1>1, Stripes
<1>3. /\ r \in Nat /\ r < S /\ q \in Nat /\ f = S * q + r
      /\ need \in Nat /\ e \in Nat /\ k \in Nat /\ m \in Nat /\ f + need = S * k
      /\ t \in Nat /\ c \in Nat /\ t < S /\ t <= m
      /\ N \div S = k + c /\ N % S = t
  <2>1. r + n >= S
    BY <1>1
  <2> HIDE DEF S, a
  <2>2. CASE S = 16
    BY <2>1, <2>2 DEF Needed, Begun
  <2>3. CASE S = 32
    BY <2>1, <2>3 DEF Needed, Begun
  <2> QED BY <1>2, <2>2, <2>3
<1>4. /\ SubSeq(x, 1, need) = [j \in 1 .. need |-> f + j]
      /\ WholeStripes(a, rest) = StripesFrom(S, k, c)
      /\ left = [i \in 1 .. t |-> S * k + m - t + i]
  <2>1. n = need + m
    BY <1>3
  <2>2. f + need = StripeOf(a) * k /\ a \in Algorithms
        /\ need \in Nat /\ k \in Nat /\ m \in Nat
    BY <1>1, <1>3
  <2> HIDE DEF m, k, need, a, r, q
  <2>3. LET s == StripeOf(a)
            y == [i \in 1 .. n |-> f + i]
            behind == SubSeq(y, need + 1, Len(y))
        IN  /\ SubSeq(y, 1, need) = [j \in 1 .. need |-> f + j]
            /\ WholeStripes(a, behind) = StripesFrom(s, k, m \div s)
            /\ LeftOver(a, behind) = [i \in 1 .. m % s |-> s * k + m - (m % s) + i]
    BY <2>1, <2>2, PieceCut
  <2> QED BY <2>3, Zenon
<1>5. full \in [1 .. S -> Nat] /\ begun = StripesFrom(S, q, e)
  <2> DEFINE b == S * q
             mm == h.mem
  <2>1. b \in Nat /\ f = b + r /\ \A i \in 1 .. r : mm[i] = b + i
    <3>1. b \in Nat /\ f = b + r
      BY <1>2, <1>3
    <3>2. \A i \in 1 .. r : mm[i] = f - r + i
      BY <1>1
    <3>3. r \in Nat
      BY <1>3
    <3> HIDE DEF b, r, mm
    <3>4. \A i \in 1 .. r : f - r + i = b + i
      BY <3>1, <3>3
    <3> QED BY <3>1, <3>2, <3>4
  <2>2. [j \in 1 .. need |-> f + j] = [j \in 1 .. need |-> b + r + j]
    BY <2>1
  <2> HIDE DEF S, r, q, need, x
  <2>3. full = Copied(mm, r, [j \in 1 .. need |-> b + r + j])
    BY <1>4, <2>2, Zenon
  <2>4. LET w == Copied(mm, r, [j \in 1 .. Needed(S, r) |-> S * q + r + j])
        IN  /\ w \in [1 .. S -> Nat]
            /\ (IF Needed(S, r) > 0 THEN <<w>> ELSE <<>>) = StripesFrom(S, q, Begun(r))
    <3>1. mm \in [1 .. S -> Nat] /\ \A i \in 1 .. r : mm[i] = S * q + i
      BY <1>1, <2>1
    <3> HIDE DEF mm
    <3> QED BY <1>2, <1>3, <3>1, BufferFills, Zenon
  <2> QED BY <2>3, <2>4, Zenon DEF need
<1>6. g = StateOf(a, total, large, h.rounds, h.mem, h.memsize)
  BY LengthenedOK, Zenon DEF StateOf
<1>7. u = [g EXCEPT !.rounds = @ \o begun \o WholeStripes(a, rest),
                    !.mem = Copied(full, 0, LeftOver(a, rest)),
                    !.memsize = Len(LeftOver(a, rest))]
  <2>1. ~ (h.memsize + Len(x) < StripeOf(h.alg)) /\ Len(x) = n
        /\ need = IF h.memsize > 0 THEN StripeOf(h.alg) - h.memsize ELSE 0
    <3>1. Len(x) = n
      OBVIOUS
    <3>2. h.memsize = r /\ h.memsize + n >= S /\ S = StripeOf(h.alg)
      BY <1>1
    <3> HIDE DEF x, S, r
    <3>3. ~ (h.memsize + n < S)
      BY <1>2, <1>3, <3>2
    <3>4. need = IF h.memsize > 0 THEN S - h.memsize ELSE 0
      BY <3>2, Zenon DEF Needed
    <3> QED BY <3>1, <3>2, <3>3, <3>4, Zenon
  <2> HIDE DEF x, need
  <2> QED BY <1>1, <2>1, Zenon DEF Updated
<1> HIDE DEF S, x, r, q, need, e, k, m, c, t, g, total, large, full, rest, begun, u, a
<1>8. u = StateOf(a, total, large, rounds, mem, Len(left))
  <2> DEFINE p == [g EXCEPT !.rounds = rounds]
             o == [p EXCEPT !.mem = mem]
             size == Len(left)
  <2>1. g.rounds = h.rounds
    BY <1>6 DEF StateOf
  <2>2. u = [g EXCEPT !.rounds = g.rounds \o begun \o WholeStripes(a, rest),
                      !.mem = mem, !.memsize = size]
    BY <1>7, Zenon
  <2>3. u = [o EXCEPT !.memsize = size]
    BY <2>1, <2>2, Zenon
  <2> HIDE DEF size, rounds, mem
  <2>4. p = StateOf(a, total, large, rounds, h.mem, h.memsize)
    BY <1>6 DEF StateOf
  <2> HIDE DEF p
  <2>5. o = StateOf(a, total, large, rounds, mem, h.memsize)
    BY <2>4 DEF StateOf
  <2> HIDE DEF o
  <2>6. [o EXCEPT !.memsize = size] = StateOf(a, total, large, rounds, mem, size)
    BY <2>5 DEF StateOf
  <2> QED BY <2>3, <2>6 DEF size
<1>9. rounds = WholeStripes(a, Fed(N))
  <2> DEFINE z == 0
             d == k + c
  <2>1. h.rounds = StripesFrom(S, z, q)
    BY <1>1, FedCut, Zenon DEF S, q
  <2>2. N \in Nat
    BY <1>3
  <2>3. WholeStripes(a, Fed(N)) = StripesFrom(S, z, N \div S)
    <3> HIDE DEF N
    <3> QED BY <1>1, <2>2, FedCut, Zenon DEF S
  <2>4. /\ S \in Nat /\ z \in Nat /\ q \in Nat /\ e \in Nat /\ k \in Nat /\ c \in Nat
        /\ q = z + q /\ k = q + e /\ k = z + k /\ d = k + c
    BY <1>2, <1>3 DEF k
  <2> HIDE DEF N, z, d
  <2>5. Joined(StripesFrom(S, z, q), StripesFrom(S, q, e)) = StripesFrom(S, z, k)
    BY <2>4, StripesJoin
  <2>6. Joined(StripesFrom(S, z, k), StripesFrom(S, k, c)) = StripesFrom(S, z, d)
    BY <2>4, StripesJoin
  <2>7. rounds = Joined(Joined(StripesFrom(S, z, q), StripesFrom(S, q, e)),
                        StripesFrom(S, k, c))
    BY <1>4, <1>5, <2>1, Zenon DEF Joined
  <2>8. N \div S = d
    BY <1>3 DEF d
  <2> QED BY <2>3, <2>5, <2>6, <2>7, <2>8, Zenon
<1>10. left \in Seq(Nat) /\ Len(left) = t /\ \A i \in 1 .. t : left[i] = N - t + i
  <2> DEFINE b == S * k
  <2>1. b \in Nat /\ b + m = N
    <3>1. f + need = b /\ m = n - need
      BY <1>3 DEF m
    <3> HIDE DEF b
    <3> QED BY <1>3, <3>1
  <2> HIDE DEF b, N
  <2>2. left = [i \in 1 .. t |-> b + m - t + i]
    BY <1>4, Zenon DEF b
  <2> HIDE DEF left
  <2> QED BY <1>3, <2>1, <2>2
<1>11. mem \in [1 .. S -> Nat] /\ \A i \in 1 .. t : mem[i] = N - t + i
  <2>1. S \in Nat
    BY <1>2
  <2> HIDE DEF left, N
  <2>2. mem \in [1 .. S -> Nat]
    BY <1>3, <1>5, <1>10, <2>1 DEF Copied
  <2>3. \A i \in 1 .. t : mem[i] = left[i]
    BY <1>3, <1>5, <1>10, <2>1 DEF Copied
  <2> QED BY <1>10, <2>2, <2>3
<1> HIDE DEF mem, rounds, left
<1>12. HasSeen(u, N)
  <2>1. N \in Nat
    BY <1>3
  <2> HIDE DEF N
  <2> DEFINE size == N % S
  <2>2. size = t
    BY <1>3
  <2>3. u = Held(a, N, mem)
    BY <1>8, <1>9, <1>10, <2>2, Zenon DEF Held, S, total, large, size
  <2>4. \A i \in 1 .. size : mem[i] = N - size + i
    <3> HIDE DEF size
    <3> QED BY <1>11, <2>2
  <2>5. HasSeen(Held(a, N, mem), N)
    BY <1>1, <1>11, <2>1, <2>4, HeldIsSeen, Zenon DEF S, size
  <2> QED BY <2>3, <2>5
<1> QED BY <1>12, Zenon DEF u, x

LEMMA FreshIsSeen == ASSUME LengthIsWide, NEW a \in Algorithms PROVE HasSeen(Fresh(a), 0)
<1> DEFINE S == StripeOf(a)
           n == 0
           mem == [i \in 1 .. S |-> 0]
<1>1. S \in {16, 32} /\ a.flag \in BOOLEAN
  BY Stripes
<1>2. n \in Nat /\ n % S = 0 /\ n \div S = 0 /\ ~ (n >= S)
  BY <1>1
<1>3. Counted(a, n) = n
  <2>1. n < 32
    OBVIOUS
  <2> HIDE DEF n
  <2> QED BY <1>2, <2>1, CountedAdds
<1>4. WholeStripes(a, Fed(n)) = <<>>
  <2>1. WholeStripes(a, Fed(n)) = StripesFrom(S, 0, n \div S)
    <3> HIDE DEF n
    <3> QED BY <1>2, FedCut, Zenon DEF S
  <2> QED BY <1>2, <2>1 DEF StripesFrom
<1>5. mem \in [1 .. S -> Nat]
  OBVIOUS
<1>6. Fresh(a) = StateOf(a, 0, FALSE, <<>>, mem, 0)
  BY Zenon DEF Fresh, StateOf, S
<1> HIDE DEF S, mem
<1>7. Fresh(a) = Held(a, n, mem)
  <2>1. (a.flag /\ n >= S) = FALSE /\ n % S = n /\ Counted(a, n) = 0
    BY <1>1, <1>2, <1>3
  <2>2. Held(a, n, mem) = StateOf(a, Counted(a, n), a.flag /\ n >= S,
                                  WholeStripes(a, Fed(n)), mem, n % S)
    BY Zenon DEF Held, S
  <2> QED BY <1>2, <1>4, <1>6, <2>1, <2>2
<1>8. \A i \in 1 .. n % S : mem[i] = n - (n % S) + i
  BY <1>2
<1> HIDE DEF n
<1>9. HasSeen(Held(a, n, mem), n)
  BY <1>2, <1>5, <1>8, HeldIsSeen, Zenon DEF S
<1> QED BY <1>7, <1>9 DEF n

LEMMA UpdateHashes ==
  ASSUME LengthIsWide, Streamed, NEW n \in Nat, Update(n)
  PROVE  Streamed'
<1>1. /\ hash' = Updated(hash, [i \in 1 .. n |-> fed + i])
      /\ fed' = fed + n
  BY Zenon DEF Update
<1>2. HasSeen(hash, fed)
  BY Zenon DEF Streamed
<1>3. /\ fed \in Nat /\ hash.memsize = fed % StripeOf(hash.alg)
      /\ hash.alg \in Algorithms
  BY <1>2, SeenFacts, Zenon
<1>4. HasSeen(Updated(hash, [i \in 1 .. n |-> fed + i]), fed + n)
  <2>1. CASE hash.memsize + n < StripeOf(hash.alg)
    BY <1>2, <1>3, <2>1, PieceBuffered, Zenon
  <2>2. CASE hash.memsize + n >= StripeOf(hash.alg)
    BY <1>2, <1>3, <2>2, PieceFills, Zenon
  <2>3. StripeOf(hash.alg) \in {16, 32} /\ hash.memsize \in Int
    <3> DEFINE a == hash.alg
               S == StripeOf(a)
    <3>1. S \in {16, 32}
      BY <1>3, Stripes
    <3> HIDE DEF S
    <3>2. hash.memsize \in Int
      BY <1>3, <3>1 DEF S
    <3> QED BY <3>1, <3>2 DEF S
  <2>4. hash.memsize + n < StripeOf(hash.alg) \/ hash.memsize + n >= StripeOf(hash.alg)
    BY <2>3
  <2> QED BY <2>1, <2>2, <2>4
<1> QED BY <1>1, <1>4, Zenon DEF Streamed

(* XXH32 and XXH64: a stream has the hash of the whole of what it was fed,  *)
(* however that was cut, whatever the buffer held, and where the length of  *)
(* XXH32 has wrapped any number of times.                                   *)
THEOREM StreamHashes ==
  ASSUME LengthIsWide
  PROVE  LibrariesSpec => []StreamIsOneShot
<1>1. LibrariesInit => Streamed
  <2> SUFFICES ASSUME LibrariesInit PROVE Streamed
    OBVIOUS
  <2>1. fed = 0 /\ \E a \in Algorithms : hash = Fresh(a)
    BY DEF LibrariesInit, HashInit, Algorithms
  <2>2. PICK a \in Algorithms : hash = Fresh(a)
    BY <2>1
  <2> QED BY <2>1, <2>2, FreshIsSeen, Zenon DEF Streamed
<1>2. Streamed /\ [LibrariesNext]_libraryVars => Streamed'
  <2> SUFFICES ASSUME Streamed, [LibrariesNext]_libraryVars PROVE Streamed'
    OBVIOUS
  <2>1. ASSUME UNCHANGED hashVars PROVE Streamed'
    BY <2>1 DEF hashVars, Streamed
  <2>2. ASSUME NEW n \in Pieces, Update(n) PROVE Streamed'
    BY <2>2, XxHashAssumption, UpdateHashes
  <2>3. ASSUME NEW a \in Algorithms, Reset(a) PROVE Streamed'
    BY <2>3, FreshIsSeen, Zenon DEF Reset, Streamed
  <2>4. CASE HashNext
    BY <2>2, <2>3, <2>4 DEF HashNext
  <2>5. CASE LibrariesNext
    BY <2>1, <2>4, <2>5 DEF LibrariesNext, Typed, Lengthen
  <2>6. CASE UNCHANGED libraryVars
    BY <2>1, <2>6 DEF libraryVars
  <2> QED BY <2>5, <2>6
<1>3. Streamed => StreamIsOneShot
  BY DigestIsOneShot
<1> QED BY <1>1, <1>2, <1>3, PTL DEF LibrariesSpec

-----------------------------------------------------------------------------
(* Validation of UTF-8.                                                     *)

Octet == 0 .. 255
TrailsBehind(s, i, n) == \A k \in i + 1 .. i + n - 1 : s[k] \in 128 .. 191

(* Table 3-7 again, by the length of the sequence.                          *)
Formed(s, i, n) ==
  \/ n = 1 /\ s[i] \in 0 .. 127
  \/ n = 2 /\ s[i] \in 194 .. 223
  \/ /\ n = 3
     /\ \/ s[i] = 224 /\ s[i + 1] \in 160 .. 191
        \/ s[i] \in 225 .. 236
        \/ s[i] = 237 /\ s[i + 1] \in 128 .. 159
        \/ s[i] \in 238 .. 239
  \/ /\ n = 4
     /\ \/ s[i] = 240 /\ s[i + 1] \in 144 .. 191
        \/ s[i] \in 241 .. 243
        \/ s[i] = 244 /\ s[i + 1] \in 128 .. 143

(* The n octets from s[i] on are as q has them.                             *)
Fits(n, s, i, q) ==
  n = Len(q) /\ n <= EndOf(s) - i /\ \A k \in DOMAIN q : s[i + k - 1] \in q[k]

LEMMA Fits1 ==
  ASSUME NEW n, NEW s, NEW i \in Nat, NEW A
  PROVE  Fits(n, s, i, <<A>>) <=> n = 1 /\ 1 <= EndOf(s) - i /\ s[i] \in A
<1>1. i + 1 - 1 = i
  OBVIOUS
<1>2. /\ DOMAIN <<A>> = {1} /\ Len(<<A>>) = 1
      /\ <<A>>[1] = A
  OBVIOUS
<1> QED BY <1>1, <1>2 DEF Fits

LEMMA Fits2 ==
  ASSUME NEW n, NEW s, NEW i \in Nat, NEW A, NEW B
  PROVE  Fits(n, s, i, <<A, B>>) <=>
           n = 2 /\ 2 <= EndOf(s) - i /\ s[i] \in A /\ s[i + 1] \in B
<1>1. i + 1 - 1 = i /\ i + 2 - 1 = i + 1
  OBVIOUS
<1>2. /\ DOMAIN <<A, B>> = {1, 2} /\ Len(<<A, B>>) = 2
      /\ <<A, B>>[1] = A /\ <<A, B>>[2] = B
  OBVIOUS
<1> QED BY <1>1, <1>2 DEF Fits

LEMMA Fits3 ==
  ASSUME NEW n, NEW s, NEW i \in Nat, NEW A, NEW B, NEW C
  PROVE  Fits(n, s, i, <<A, B, C>>) <=>
           n = 3 /\ 3 <= EndOf(s) - i /\ s[i] \in A /\ s[i + 1] \in B /\ s[i + 2] \in C
<1>1. i + 1 - 1 = i /\ i + 2 - 1 = i + 1 /\ i + 3 - 1 = i + 2
  OBVIOUS
<1>2. /\ DOMAIN <<A, B, C>> = {1, 2, 3} /\ Len(<<A, B, C>>) = 3
      /\ <<A, B, C>>[1] = A /\ <<A, B, C>>[2] = B /\ <<A, B, C>>[3] = C
  OBVIOUS
<1> QED BY <1>1, <1>2 DEF Fits

LEMMA Fits4 ==
  ASSUME NEW n, NEW s, NEW i \in Nat, NEW A, NEW B, NEW C, NEW D
  PROVE  Fits(n, s, i, <<A, B, C, D>>) <=>
           /\ n = 4 /\ 4 <= EndOf(s) - i
           /\ s[i] \in A /\ s[i + 1] \in B /\ s[i + 2] \in C /\ s[i + 3] \in D
<1>1. i + 1 - 1 = i /\ i + 2 - 1 = i + 1 /\ i + 3 - 1 = i + 2 /\ i + 4 - 1 = i + 3
  OBVIOUS
<1>2. /\ DOMAIN <<A, B, C, D>> = {1, 2, 3, 4} /\ Len(<<A, B, C, D>>) = 4
      /\ <<A, B, C, D>>[1] = A /\ <<A, B, C, D>>[2] = B
      /\ <<A, B, C, D>>[3] = C /\ <<A, B, C, D>>[4] = D
  OBVIOUS
<1> QED BY <1>1, <1>2 DEF Fits

LEMMA OctetInt == ASSUME NEW b \in Octet PROVE b \in Int
BY DEF Octet

(* Table 3-7, one length after the other.                                   *)
LEMMA WellFormedAtIs ==
  ASSUME NEW s \in Seq(Octet), NEW i \in 1 .. Len(s), NEW n \in Int
  PROVE  n \in WellFormedAt(s, i) <=>
           n \in 1 .. 4 /\ i + n <= EndOf(s) /\ TrailsBehind(s, i, n) /\ Formed(s, i, n)
<1> DEFINE T == \h80 .. \hBF
           a == <<\h00 .. \h7F>>
           b == <<\hC2 .. \hDF, T>>
           c == <<{\hE0}, \hA0 .. \hBF, T>>
           d == <<\hE1 .. \hEC, T, T>>
           e == <<{\hED}, \h80 .. \h9F, T>>
           f == <<\hEE .. \hEF, T, T>>
           g == <<{\hF0}, \h90 .. \hBF, T, T>>
           h == <<\hF1 .. \hF3, T, T, T>>
           j == <<{\hF4}, \h80 .. \h8F, T, T>>
           P(q) == Fits(n, s, i, q)
<1>1. n \in WellFormedAt(s, i) <=> \E q \in WellFormedSequences : P(q)
  BY Zenon DEF WellFormedAt, Fits
<1>2. WellFormedSequences = {a, b, c, d, e, f, g, h, j}
  BY Zenon DEF WellFormedSequences, Trails
<1>4. i \in Nat /\ EndOf(s) \in Int
  BY DEF EndOf
<1> HIDE DEF T
<1>5. P(a) <=> n = 1 /\ 1 <= EndOf(s) - i
             /\ s[i] \in \h00 .. \h7F
  BY <1>4, Fits1
<1>6. P(b) <=> n = 2 /\ 2 <= EndOf(s) - i
             /\ s[i] \in \hC2 .. \hDF /\ s[i + 1] \in T
  BY <1>4, Fits2
<1>7. P(c) <=> n = 3 /\ 3 <= EndOf(s) - i
             /\ s[i] \in {\hE0} /\ s[i + 1] \in \hA0 .. \hBF /\ s[i + 2] \in T
  BY <1>4, Fits3
<1>8. P(d) <=> n = 3 /\ 3 <= EndOf(s) - i
             /\ s[i] \in \hE1 .. \hEC /\ s[i + 1] \in T /\ s[i + 2] \in T
  BY <1>4, Fits3
<1>9. P(e) <=> n = 3 /\ 3 <= EndOf(s) - i
             /\ s[i] \in {\hED} /\ s[i + 1] \in \h80 .. \h9F /\ s[i + 2] \in T
  BY <1>4, Fits3
<1>10. P(f) <=> n = 3 /\ 3 <= EndOf(s) - i
             /\ s[i] \in \hEE .. \hEF /\ s[i + 1] \in T /\ s[i + 2] \in T
  BY <1>4, Fits3
<1>11. P(g) <=> n = 4 /\ 4 <= EndOf(s) - i
             /\ s[i] \in {\hF0} /\ s[i + 1] \in \h90 .. \hBF /\ s[i + 2] \in T /\ s[i + 3] \in T
  <2> DEFINE A == {\hF0}
             B == \h90 .. \hBF
  <2> HIDE DEF A, B
  <2>1. Fits(n, s, i, <<A, B, T, T>>) <=> n = 4 /\ 4 <= EndOf(s) - i
          /\ s[i] \in A /\ s[i + 1] \in B /\ s[i + 2] \in T /\ s[i + 3] \in T
    BY <1>4, Fits4
  <2> QED BY <2>1, Zenon DEF A, B
<1>12. P(h) <=> n = 4 /\ 4 <= EndOf(s) - i
             /\ s[i] \in \hF1 .. \hF3 /\ s[i + 1] \in T /\ s[i + 2] \in T /\ s[i + 3] \in T
  BY <1>4, Fits4
<1>13. P(j) <=> n = 4 /\ 4 <= EndOf(s) - i
             /\ s[i] \in {\hF4} /\ s[i + 1] \in \h80 .. \h8F /\ s[i + 2] \in T /\ s[i + 3] \in T
  BY <1>4, Fits4
<1> HIDE DEF a, b, c, d, e, f, g, h, j, P
<1>14. n \in WellFormedAt(s, i) <=>
         P(a) \/ P(b) \/ P(c) \/ P(d) \/ P(e) \/ P(f) \/ P(g) \/ P(h) \/ P(j)
  BY <1>1, <1>2, Zenon
<1> DEFINE x == s[i + 1]
           y == s[i + 2]
           z == s[i + 3]
<1>15. /\ TrailsBehind(s, i, 1)
       /\ TrailsBehind(s, i, 2) <=> x \in 128 .. 191
       /\ TrailsBehind(s, i, 3) <=> x \in 128 .. 191 /\ y \in 128 .. 191
       /\ TrailsBehind(s, i, 4) <=> x \in 128 .. 191 /\ y \in 128 .. 191 /\ z \in 128 .. 191
  <2>1. /\ i + 1 .. i + 1 - 1 = {} /\ i + 1 .. i + 2 - 1 = {i + 1}
        /\ i + 1 .. i + 3 - 1 = {i + 1, i + 2}
        /\ i + 1 .. i + 4 - 1 = {i + 1, i + 2, i + 3}
    OBVIOUS
  <2> QED BY <2>1, Zenon DEF TrailsBehind
<1>16. T = 128 .. 191 /\ s[i] \in Int
  <2>1. s[i] \in Octet
    OBVIOUS
  <2>2. s[i] \in Int
    BY <2>1, OctetInt
  <2> QED BY <2>2 DEF T
<1>17. i + n <= EndOf(s) <=> n <= EndOf(s) - i
  BY <1>4
<1>18. CASE n = 1
  BY <1>5, <1>6, <1>7, <1>8, <1>9, <1>10, <1>11, <1>12, <1>13, <1>14, <1>15, <1>16, <1>17,
     <1>18 DEF Formed
<1>19. CASE n = 2
  BY <1>5, <1>6, <1>7, <1>8, <1>9, <1>10, <1>11, <1>12, <1>13, <1>14, <1>15, <1>16, <1>17,
     <1>19 DEF Formed
<1>20. CASE n = 3
  <2>1. n \in WellFormedAt(s, i) <=> P(c) \/ P(d) \/ P(e) \/ P(f)
    BY <1>5, <1>6, <1>11, <1>12, <1>13, <1>14, <1>20
  <2> HIDE DEF x, y, z
  <2>3. x \in 160 .. 191 \/ x \in 128 .. 159 => x \in 128 .. 191
    OBVIOUS
  <2>4. n \in WellFormedAt(s, i) <=>
          /\ 3 <= EndOf(s) - i /\ y \in 128 .. 191 /\ x \in 128 .. 191
          /\ \/ s[i] = 224 /\ x \in 160 .. 191
             \/ s[i] \in 225 .. 236
             \/ s[i] = 237 /\ x \in 128 .. 159
             \/ s[i] \in 238 .. 239
    BY <1>7, <1>8, <1>9, <1>10, <1>16, <1>20, <2>1, <2>3 DEF x, y
  <2> QED BY <1>15, <1>17, <1>20, <2>4 DEF Formed, x, y
<1>21. CASE n = 4
  <2>1. n \in WellFormedAt(s, i) <=> P(g) \/ P(h) \/ P(j)
    BY <1>5, <1>6, <1>7, <1>8, <1>9, <1>10, <1>14, <1>21
  <2> QED BY <1>11, <1>12, <1>13, <1>15, <1>16, <1>17, <1>21, <2>1 DEF Formed
<1>22. CASE n \notin 1 .. 4
  BY <1>5, <1>6, <1>7, <1>8, <1>9, <1>10, <1>11, <1>12, <1>13, <1>14, <1>22
<1> QED BY <1>18, <1>19, <1>20, <1>21, <1>22

(* The lead octets of sequences of n octets.                                *)
Leads(b, n) ==
  /\ n = 1 <=> b \in 0 .. 127
  /\ n = 2 <=> b \in 192 .. 223
  /\ n = 3 <=> b \in 224 .. 239
  /\ n = 4 <=> b \in 240 .. 247

LEMMA LengthIs ==
  ASSUME NEW b \in Octet
  PROVE  SequenceLength(b) \in 0 .. 4 /\ Leads(b, SequenceLength(b))
BY DEF SequenceLength, Octet, Leads

(* get_sequence_1 to get_sequence_4 take the octets the table calls trails. *)
LEMMA GetIs ==
  ASSUME NEW s \in Seq(Octet), NEW i \in 1 .. Len(s), NEW n \in 1 .. 4
  PROVE  GetSequence(s, i, EndOf(s), n) = Ok <=> i + n <= EndOf(s) /\ TrailsBehind(s, i, n)
<1> DEFINE end == EndOf(s)
           bad == {k \in i + 1 .. i + n - 1 : k >= end \/ ~ IsTrail(s[k])}
<1>1. GetSequence(s, i, end, n) = Ok <=> bad = {}
  <2>1. Room # Ok /\ "INCOMPLETE_SEQUENCE" # Ok
    BY DEF Room, Ok
  <2> HIDE DEF bad, end
  <2>2. GetSequence(s, i, end, n) =
          IF bad = {} THEN Ok ELSE IF Min(bad) >= end THEN Room ELSE "INCOMPLETE_SEQUENCE"
    BY Zenon DEF GetSequence, bad
  <2> QED BY <2>1, <2>2, Zenon
<1>2. \A k \in 1 .. Len(s) : IsTrail(s[k]) <=> s[k] \in 128 .. 191
  <2> TAKE k \in 1 .. Len(s)
  <2> DEFINE b == s[k]
  <2>1. b \in Octet
    OBVIOUS
  <2> HIDE DEF b
  <2>2. b \div 64 = 2 <=> b \in 128 .. 191
    BY <2>1 DEF Octet
  <2> QED BY <2>2 DEF IsTrail, b
<1>3. end = Len(s) + 1
  BY DEF EndOf
<1>4. bad = {} <=> \A k \in i + 1 .. i + n - 1 : k < end /\ s[k] \in 128 .. 191
  <2>1. bad = {} <=> \A k \in i + 1 .. i + n - 1 : ~ (k >= end) /\ IsTrail(s[k])
    OBVIOUS
  <2> HIDE DEF bad, end
  <2>2. \A k \in i + 1 .. i + n - 1 : k < end => k \in 1 .. Len(s)
    BY <1>3
  <2>3. \A k \in i + 1 .. i + n - 1 : ~ (k >= end) <=> k < end
    BY <1>3
  <2> QED BY <1>2, <2>1, <2>2, <2>3, Zenon
<1> HIDE DEF bad
<1>5. (\A k \in i + 1 .. i + n - 1 : k < end) <=> i + n <= end
  BY <1>3
<1> QED BY <1>1, <1>4, <1>5, Zenon DEF TrailsBehind

(* What a code point above n octets must be.                                *)
Sound(c, n) == IsCodePointValid(c) /\ ~ IsOverlongSequence(c, n)

LEMMA TrailBits == ASSUME NEW x \in 128 .. 191 PROVE x % 64 = x - 128
OBVIOUS

(* The bounds of the code points of n octets.                               *)
LEMMA SoundAt ==
  ASSUME NEW c \in Nat
  PROVE  /\ c < \h800 => (Sound(c, 2) <=> ~ (c < \h80))
         /\ c < \h10000 => (Sound(c, 3) <=> ~ (c < \h800) /\ c \notin \hD800 .. \hDFFF)
         /\ Sound(c, 4) <=> ~ (c < \h10000) /\ c < \h110000
<1>1. ASSUME c < \h800 PROVE Sound(c, 2) <=> ~ (c < \h80)
  <2>1. IsCodePointValid(c)
    BY <1>1, SMT DEF IsCodePointValid
  <2>2. IsOverlongSequence(c, 2) <=> c < \h80
    BY <1>1, SMT DEF IsOverlongSequence
  <2> QED BY <2>1, <2>2, SMT DEF Sound
<1>2. ASSUME c < \h10000 PROVE Sound(c, 3) <=> ~ (c < \h800) /\ c \notin \hD800 .. \hDFFF
  <2>1. IsCodePointValid(c) <=> c \notin \hD800 .. \hDFFF
    BY <1>2, SMT DEF IsCodePointValid
  <2>2. IsOverlongSequence(c, 3) <=> c < \h800
    BY <1>2, SMT DEF IsOverlongSequence
  <2> QED BY <2>1, <2>2, SMT DEF Sound
<1>3. Sound(c, 4) <=> ~ (c < \h10000) /\ c < \h110000
  <2>1. IsOverlongSequence(c, 4) <=> c < \h10000
    BY SMT DEF IsOverlongSequence
  <2>2. ASSUME ~ (c < \h10000) PROVE IsCodePointValid(c) <=> c < \h110000
    BY <2>2, SMT DEF IsCodePointValid
  <2> QED BY <2>1, <2>2, SMT DEF Sound
<1> QED BY <1>1, <1>2, <1>3, SMT

(* A code point, from the bits of its octets.                               *)
Bits2(d, p)       == 64 * d + p
Bits3(d, p, q)    == 64 * (64 * d + p) + q
Bits4(d, p, q, r) == 64 * (64 * (64 * d + p) + q) + r

LEMMA SoundOf1 == ASSUME NEW c \in Nat PROVE c < \h80 => Sound(c, 1)
<1>1. c < \h80 => IsCodePointValid(c)
  BY SMT DEF IsCodePointValid
<1>2. IsOverlongSequence(c, 1) <=> ~ (c < \h80) /\ c < \h10000
  BY SMT DEF IsOverlongSequence
<1> QED BY <1>1, <1>2, SMT DEF Sound

LEMMA SoundOf2 ==
  ASSUME NEW d \in 0 .. 31, NEW p \in 0 .. 63
  PROVE  Sound(Bits2(d, p), 2) <=> ~ (d < 2)
<1> DEFINE c == Bits2(d, p)
<1>1. c \in Nat /\ c < \h800
  BY DEF Bits2
<1>2. c < \h80 <=> d < 2
  BY DEF Bits2
<1> HIDE DEF c
<1>3. Sound(c, 2) <=> ~ (c < \h80)
  BY <1>1, SoundAt, SMT
<1> QED BY <1>2, <1>3, SMT DEF c

LEMMA SoundOf3 ==
  ASSUME NEW d \in 0 .. 15, NEW p \in 0 .. 63, NEW q \in 0 .. 63
  PROVE  Sound(Bits3(d, p, q), 3) <=> ~ (d = 0 /\ p < 32) /\ ~ (d = 13 /\ ~ (p < 32))
<1> DEFINE c == Bits3(d, p, q)
<1>1. c \in Nat /\ c < \h10000
  BY DEF Bits3
<1>2. c < \h800 <=> d = 0 /\ p < 32
  BY DEF Bits3
<1>3. c \in \hD800 .. \hDFFF <=> d = 13 /\ ~ (p < 32)
  BY DEF Bits3
<1> HIDE DEF c
<1>4. Sound(c, 3) <=> ~ (c < \h800) /\ c \notin \hD800 .. \hDFFF
  BY <1>1, SoundAt, SMT
<1> QED BY <1>2, <1>3, <1>4, SMT DEF c

LEMMA SoundOf4 ==
  ASSUME NEW d \in 0 .. 7, NEW p \in 0 .. 63, NEW q \in 0 .. 63, NEW r \in 0 .. 63
  PROVE  Sound(Bits4(d, p, q, r), 4) <=> ~ (d = 0 /\ p < 16) /\ (d < 4 \/ (d = 4 /\ p < 16))
<1> DEFINE c == Bits4(d, p, q, r)
<1>1. c \in Nat
  BY DEF Bits4
<1>2. c < \h10000 <=> d = 0 /\ p < 16
  BY DEF Bits4
<1>3. c < \h110000 <=> d < 4 \/ (d = 4 /\ p < 16)
  BY DEF Bits4
<1> HIDE DEF c
<1>4. Sound(c, 4) <=> ~ (c < \h10000) /\ c < \h110000
  BY <1>1, SoundAt, SMT
<1> QED BY <1>2, <1>3, <1>4, SMT DEF c

(* The first trail octet tells an overlong form, a surrogate and a code     *)
(* point too large from the rest, as the table does.                        *)
LEMMA DecodedIs ==
  ASSUME NEW s \in Seq(Octet), NEW i \in 1 .. Len(s), NEW n \in 1 .. 4,
         n = SequenceLength(s[i]), i + n <= EndOf(s), TrailsBehind(s, i, n)
  PROVE  Sound(Decoded(s, i, n), n) <=> Formed(s, i, n)
<1> DEFINE b == s[i]
           x == s[i + 1]
           y == s[i + 2]
           z == s[i + 3]
           p == x % 64
           q == y % 64
           r == z % 64
           c == Decoded(s, i, n)
<1>1. b \in Octet
  OBVIOUS
<1>2. /\ n = 1 => b \in 0 .. 127
      /\ n = 2 => b \in 192 .. 223
      /\ n = 3 => b \in 224 .. 239
      /\ n = 4 => b \in 240 .. 247
  <2>1. Leads(b, n)
    BY <1>1, LengthIs, Zenon
  <2> HIDE DEF b
  <2> QED BY <2>1 DEF Leads
<1>3. i \in Nat /\ i + 1 \in Int /\ i + 2 \in Int /\ i + 3 \in Int
  OBVIOUS
<1>4. /\ n >= 2 => x \in 128 .. 191
      /\ n >= 3 => y \in 128 .. 191
      /\ n >= 4 => z \in 128 .. 191
  BY <1>3 DEF TrailsBehind
<1>5. CASE n = 1
  <2>1. c = b
    BY <1>5 DEF Decoded
  <2>2. b \in 0 .. 127
    BY <1>2, <1>5
  <2>3. Formed(s, i, 1)
    BY <2>2 DEF Formed
  <2> HIDE DEF b, c
  <2>4. Sound(c, 1)
    BY <2>1, <2>2, SoundOf1, SMT
  <2> QED BY <1>5, <2>3, <2>4 DEF c
<1>6. CASE n = 2
  <2> DEFINE d == b % 32
  <2>1. c = Bits2(d, p)
    BY <1>6 DEF Decoded, Bits2
  <2>2. b \in 192 .. 223 /\ x \in 128 .. 191
    BY <1>2, <1>4, <1>6
  <2>3. Formed(s, i, 2) <=> b \in 194 .. 223
    BY DEF Formed
  <2> HIDE DEF b, x, c
  <2>4. d = b - 192 /\ p = x - 128
    BY <2>2, TrailBits
  <2> HIDE DEF d, p
  <2>5. d \in 0 .. 31 /\ p \in 0 .. 63 /\ (b \in 194 .. 223 <=> ~ (d < 2))
    BY <2>2, <2>4
  <2>6. Sound(c, 2) <=> ~ (d < 2)
    BY <2>1, <2>5, SoundOf2
  <2>7. Sound(c, 2) <=> Formed(s, i, 2)
    BY <2>3, <2>5, <2>6, Zenon
  <2> QED BY <1>6, <2>7, Zenon DEF c
<1>7. CASE n = 3
  <2> DEFINE d == b % 16
  <2>1. c = Bits3(d, p, q)
    BY <1>7 DEF Decoded, Bits3
  <2>2. b \in 224 .. 239 /\ x \in 128 .. 191 /\ y \in 128 .. 191
    BY <1>2, <1>4, <1>7
  <2>3. Formed(s, i, 3) <=>
           \/ b = 224 /\ x \in 160 .. 191
           \/ b \in 225 .. 236
           \/ b = 237 /\ x \in 128 .. 159
           \/ b \in 238 .. 239
    BY DEF Formed
  <2> HIDE DEF b, x, y, c
  <2>4. d = b - 224 /\ p = x - 128 /\ q = y - 128
    BY <2>2, TrailBits
  <2> HIDE DEF d, p, q
  <2>5. d \in 0 .. 15 /\ p \in 0 .. 63 /\ q \in 0 .. 63
    BY <2>2, <2>4
  <2>6. Sound(c, 3) <=> ~ (d = 0 /\ p < 32) /\ ~ (d = 13 /\ ~ (p < 32))
    BY <2>1, <2>5, SoundOf3
  <2>7. ~ (d = 0 /\ p < 32) /\ ~ (d = 13 /\ ~ (p < 32)) <=>
           \/ b = 224 /\ x \in 160 .. 191
           \/ b \in 225 .. 236
           \/ b = 237 /\ x \in 128 .. 159
           \/ b \in 238 .. 239
    BY <2>2, <2>4
  <2>8. Sound(c, 3) <=> Formed(s, i, 3)
    BY <2>3, <2>6, <2>7, Zenon
  <2> QED BY <1>7, <2>8, Zenon DEF c
<1>8. CASE n = 4
  <2> DEFINE d == b % 8
  <2>1. c = Bits4(d, p, q, r)
    BY <1>8 DEF Decoded, Bits4
  <2>2. b \in 240 .. 247 /\ x \in 128 .. 191 /\ y \in 128 .. 191 /\ z \in 128 .. 191
    BY <1>2, <1>4, <1>8
  <2>3. Formed(s, i, 4) <=>
           \/ b = 240 /\ x \in 144 .. 191
           \/ b \in 241 .. 243
           \/ b = 244 /\ x \in 128 .. 143
    BY DEF Formed
  <2> HIDE DEF b, x, y, z, c
  <2>4. d = b - 240 /\ p = x - 128 /\ q = y - 128 /\ r = z - 128
    BY <2>2, TrailBits
  <2> HIDE DEF d, p, q, r
  <2>5. d \in 0 .. 7 /\ p \in 0 .. 63 /\ q \in 0 .. 63 /\ r \in 0 .. 63
    BY <2>2, <2>4
  <2>6. Sound(c, 4) <=> ~ (d = 0 /\ p < 16) /\ (d < 4 \/ (d = 4 /\ p < 16))
    BY <2>1, <2>5, SoundOf4
  <2>7. ~ (d = 0 /\ p < 16) /\ (d < 4 \/ (d = 4 /\ p < 16)) <=>
           \/ b = 240 /\ x \in 144 .. 191
           \/ b \in 241 .. 243
           \/ b = 244 /\ x \in 128 .. 143
    BY <2>2, <2>4
  <2>8. Sound(c, 4) <=> Formed(s, i, 4)
    BY <2>3, <2>6, <2>7, Zenon
  <2> QED BY <1>8, <2>8, Zenon DEF c
<1> QED BY <1>5, <1>6, <1>7, <1>8

(* One step of the validation takes one well-formed sequence, the only one  *)
(* there is.                                                                *)
LEMMA ValidateIs ==
  ASSUME NEW s \in Seq(Octet), NEW i \in 1 .. Len(s), NEW n, n = SequenceLength(s[i]),
         NEW v, v = ValidateNext(s, i, EndOf(s))
  PROVE  /\ v.err = Ok <=> n \in WellFormedAt(s, i)
         /\ v.err = Ok => v.it = i + n /\ v.cp = Decoded(s, i, n) /\ Sound(v.cp, n)
         /\ v = [err |-> v.err, cp |-> v.cp, it |-> v.it]
         /\ \A m \in Int : m \in WellFormedAt(s, i) => m = n /\ m \in 1 .. 4 /\ i + m <= EndOf(s)
<1>1. s[i] \in Octet
  OBVIOUS
<1>2. n \in 0 .. 4
  BY <1>1, LengthIs
<1> DEFINE end == EndOf(s)
           got == IF n = 0 THEN "INVALID_LEAD" ELSE GetSequence(s, i, end, n)
           cp  == Decoded(s, i, n)
           err == IF got # Ok THEN got
                  ELSE IF ~ IsCodePointValid(cp) THEN "INVALID_CODE_POINT"
                  ELSE IF IsOverlongSequence(cp, n) THEN "OVERLONG_SEQUENCE"
                  ELSE Ok
<1>3. i # end
  BY DEF EndOf
<1>4. v = IF err = Ok THEN [err |-> Ok, cp |-> cp, it |-> i + n]
          ELSE [err |-> err, cp |-> 0, it |-> i]
  BY <1>3, Zenon DEF ValidateNext
<1>5. /\ v.err = Ok <=> err = Ok
      /\ v.err = Ok => v.it = i + n /\ v.cp = cp
      /\ v = [err |-> v.err, cp |-> v.cp, it |-> v.it]
  <2> HIDE DEF err, cp
  <2> QED BY <1>4
<1>6. "INVALID_LEAD" # Ok /\ "INVALID_CODE_POINT" # Ok /\ "OVERLONG_SEQUENCE" # Ok
  BY DEF Ok
<1>7. err = Ok <=> got = Ok /\ Sound(cp, n)
  <2> HIDE DEF got, cp
  <2> QED BY <1>6, Zenon DEF Sound
<1>8. got = Ok <=> n # 0 /\ i + n <= end /\ TrailsBehind(s, i, n)
  <2>1. CASE n = 0
    BY <2>1, <1>6
  <2>2. CASE n # 0
    <3>1. n \in 1 .. 4
      BY <1>2, <2>2
    <3> QED BY <2>2, <3>1, GetIs, Zenon
  <2> QED BY <2>1, <2>2
<1>9. n # 0 <=> n \in 1 .. 4
  BY <1>2
<1>10. n \in WellFormedAt(s, i) <=>
         n \in 1 .. 4 /\ i + n <= end /\ TrailsBehind(s, i, n) /\ Formed(s, i, n)
  <2>1. n \in Int
    BY <1>2
  <2> QED BY <2>1, WellFormedAtIs, Zenon
<1>11. ASSUME n \in 1 .. 4, i + n <= end, TrailsBehind(s, i, n)
       PROVE  Sound(cp, n) <=> Formed(s, i, n)
  BY <1>11, DecodedIs, Zenon
<1> HIDE DEF got, cp, end, err
<1>12. v.err = Ok <=> n \in WellFormedAt(s, i)
  BY <1>5, <1>7, <1>8, <1>9, <1>10, <1>11, Zenon
<1>13. ASSUME NEW m \in Int, m \in WellFormedAt(s, i)
       PROVE  m = n /\ m \in 1 .. 4 /\ i + m <= EndOf(s)
  <2>1. m \in 1 .. 4 /\ i + m <= EndOf(s) /\ Formed(s, i, m)
    BY <1>13, WellFormedAtIs, Zenon
  <2> DEFINE b == s[i]
  <2>2. /\ m = 1 => b \in 0 .. 127
        /\ m = 2 => b \in 192 .. 223
        /\ m = 3 => b \in 224 .. 239
        /\ m = 4 => b \in 240 .. 247
    <3>1. /\ m = 1 => b \in 0 .. 127
          /\ m = 2 => b \in 194 .. 223
          /\ m = 3 => b = 224 \/ b \in 225 .. 236 \/ b = 237 \/ b \in 238 .. 239
          /\ m = 4 => b = 240 \/ b \in 241 .. 243 \/ b = 244
      BY <2>1 DEF Formed
    <3> HIDE DEF b
    <3> QED BY <3>1
  <2>3. Leads(b, n)
    BY <1>1, LengthIs, Zenon
  <2>4. m = n
    <3> HIDE DEF b
    <3>1. m = 1 \/ m = 2 \/ m = 3 \/ m = 4
      BY <2>1
    <3> QED BY <2>2, <2>3, <3>1 DEF Leads
  <2> QED BY <2>1, <2>4
<1> QED BY <1>5, <1>7, <1>12, <1>13, Zenon DEF cp

LEMMA LeastNatural ==
  ASSUME NEW B, B \subseteq Nat, B # {}
  PROVE  \E n \in B : \A m \in B : n <= m
<1>1. \E n \in B : \A m \in B : ~ (<<m, n>> \in OpToRel(<, Nat))
  BY NatLessThanWellFounded, WFMin
<1>2. PICK n \in B : \A m \in B : ~ (<<m, n>> \in OpToRel(<, Nat))
  BY <1>1
<1>3. \A m \in B : ~ (m < n)
  BY <1>2 DEF OpToRel
<1>4. \A m \in B : n <= m
  BY <1>3
<1> QED BY <1>4

(* A recursion over the positions of a text: at stop it ends in last, and   *)
(* elsewhere it does add to what it finds at a position further on.         *)
Recurs(f, stop, last, next, add, i) ==
  f[i] = IF i \in stop THEN last[i] ELSE add[i][f[next[i]]]

LEMMA RecursionExists ==
  ASSUME NEW N \in Nat, NEW V, NEW stop, NEW last, NEW next, NEW add,
         \A i \in 1 .. N : i \in stop => last[i] \in V,
         \A i \in 1 .. N : i \notin stop => next[i] \in i + 1 .. N /\ add[i] \in [V -> V]
  PROVE  \E f \in [1 .. N -> V] : \A i \in 1 .. N : Recurs(f, stop, last, next, add, i)
<1> DEFINE R(f, a) == f \in [a .. N -> V] /\ \A i \in a .. N : Recurs(f, stop, last, next, add, i)
           B == {k \in 0 .. N : ~ \E f : R(f, N + 1 - k)}
<1>1. B = {}
  <2> SUFFICES ASSUME B # {} PROVE FALSE
    OBVIOUS
  <2>1. PICK k \in B : \A j \in B : k <= j
    <3> B \subseteq Nat
      OBVIOUS
    <3> HIDE DEF B
    <3> QED BY LeastNatural
  <2>2. k \in 0 .. N /\ ~ \E f : R(f, N + 1 - k)
    OBVIOUS
  <2>3. CASE k = 0
    <3>1. N + 1 - k = N + 1 /\ N + 1 .. N = {}
      BY <2>3
    <3> DEFINE f == [i \in N + 1 .. N |-> last[i]]
    <3>2. f \in [N + 1 .. N -> V] /\ \A i \in N + 1 .. N : Recurs(f, stop, last, next, add, i)
      BY <3>1, Zenon
    <3>3. R(f, N + 1)
      <4> HIDE DEF f
      <4> QED BY <3>2, Zenon
    <3> HIDE DEF R
    <3> QED BY <2>2, <3>1, <3>3, Zenon
  <2>4. CASE k # 0
    <3> DEFINE a == N + 1 - k
    <3>1. /\ k - 1 \in 0 .. N /\ ~ (k <= k - 1)
          /\ a \in 1 .. N /\ N + 1 - (k - 1) = a + 1
      BY <2>2, <2>4
    <3>2. PICK g : R(g, a + 1)
      <4> HIDE DEF a
      <4>1. k - 1 \notin B
        <5> HIDE DEF B
        <5> QED BY <2>1, <3>1
      <4>2. \E f : R(f, N + 1 - (k - 1))
        <5> HIDE DEF R
        <5> QED BY <3>1, <4>1
      <4> HIDE DEF R
      <4> QED BY <3>1, <4>2
    <3>3. /\ a + 1 .. N \subseteq a .. N /\ a \notin a + 1 .. N
          /\ \A i \in a .. N : i = a \/ i \in a + 1 .. N
      BY <3>1
    <3>4. \A i \in a .. N : i \in 1 .. N /\ i + 1 .. N \subseteq a + 1 .. N
      BY <3>1
    <3> HIDE DEF a
    <3> DEFINE x == IF a \in stop THEN last[a] ELSE add[a][g[next[a]]]
               f == [i \in a .. N |-> IF i = a THEN x ELSE g[i]]
    <3>5. /\ \A i \in a + 1 .. N : f[i] = g[i]
          /\ f[a] = x
      <4> HIDE DEF x
      <4> QED BY <3>1, <3>3
    <3>6. \A i \in a .. N : i \notin stop => next[i] \in a + 1 .. N
      BY <3>4, Zenon
    <3>7. x \in V
      <4>1. g \in [a + 1 .. N -> V]
        BY <3>2
      <4>2. CASE a \in stop
        BY <3>1, <4>2, Zenon
      <4>3. CASE a \notin stop
        <5>1. next[a] \in a + 1 .. N /\ add[a] \in [V -> V]
          <6>1. a \in a .. N
            BY <3>1
          <6> QED BY <3>1, <3>6, <4>3, <6>1, Zenon
        <5>2. g[next[a]] \in V
          BY <4>1, <5>1, Zenon
        <5>3. x = add[a][g[next[a]]]
          BY <4>3, Zenon
        <5> HIDE DEF x
        <5> QED BY <5>1, <5>2, <5>3
      <4> QED BY <4>2, <4>3, Zenon
    <3>8. f \in [a .. N -> V]
      <4>1. \A i \in a + 1 .. N : g[i] \in V
        BY <3>2
      <4> HIDE DEF x
      <4> QED BY <3>3, <3>7, <4>1
    <3>9. ASSUME NEW i \in a .. N PROVE Recurs(f, stop, last, next, add, i)
      <4>1. i \notin stop => f[next[i]] = g[next[i]]
        <5> HIDE DEF f
        <5> QED BY <3>5, <3>6, Zenon
      <4>2. CASE i = a
        <5> HIDE DEF f
        <5> QED BY <3>5, <4>1, <4>2, Zenon DEF Recurs
      <4>3. CASE i # a
        <5>1. i \in a + 1 .. N
          BY <3>3, <4>3, Zenon
        <5>2. Recurs(g, stop, last, next, add, i)
          BY <3>2, <5>1
        <5> HIDE DEF f, x
        <5> QED BY <3>5, <4>1, <5>1, <5>2, Zenon DEF Recurs
      <4> QED BY <4>2, <4>3
    <3>10. R(f, a)
      <4> HIDE DEF f
      <4> QED BY <3>8, <3>9
    <3> HIDE DEF R
    <3> QED BY <2>2, <3>10, Zenon DEF a
  <2> QED BY <2>3, <2>4
<1>2. N \in 0 .. N /\ N + 1 - N = 1
  OBVIOUS
<1>3. \E f : R(f, N + 1 - N)
  <2> HIDE DEF R
  <2> QED BY <1>1, <1>2
<1>4. \E f : R(f, 1)
  <2> HIDE DEF R
  <2> QED BY <1>2, <1>3
<1> QED BY <1>4, Zenon

(* The walk of find_invalid: where it stops, and where it goes on.          *)
Stuck(s, i) == i = EndOf(s) \/ ValidateNext(s, i, EndOf(s)).err # Ok
After(s, i) == ValidateNext(s, i, EndOf(s)).it

IsWalk(f, s) ==
  f = [i \in 1 .. EndOf(s) |-> IF Stuck(s, i) THEN i ELSE f[After(s, i)]]

(* A step of the walk is one well-formed sequence.                          *)
LEMMA AfterIs ==
  ASSUME NEW s \in Seq(Octet)
  PROVE  /\ \A i \in 1 .. EndOf(s) : ~ Stuck(s, i) =>
              /\ i \in 1 .. Len(s) /\ After(s, i) \in i + 1 .. EndOf(s)
              /\ After(s, i) - i \in WellFormedAt(s, i)
         /\ \A i \in 1 .. Len(s), m \in Int :
              m \in WellFormedAt(s, i) => ~ Stuck(s, i) /\ After(s, i) = i + m
<1>1. EndOf(s) = Len(s) + 1 /\ Len(s) \in Nat
  BY DEF EndOf
<1>2. ASSUME NEW i \in 1 .. Len(s)
      PROVE  /\ ~ Stuck(s, i) =>
                  /\ After(s, i) \in i + 1 .. EndOf(s)
                  /\ After(s, i) - i \in WellFormedAt(s, i)
             /\ \A m \in Int : m \in WellFormedAt(s, i) => ~ Stuck(s, i) /\ After(s, i) = i + m
  <2> DEFINE n == SequenceLength(s[i])
             v == ValidateNext(s, i, EndOf(s))
  <2>1. /\ v.err = Ok <=> n \in WellFormedAt(s, i)
        /\ v.err = Ok => v.it = i + n
        /\ \A m \in Int : m \in WellFormedAt(s, i) => m = n /\ m \in 1 .. 4 /\ i + m <= EndOf(s)
    BY ValidateIs, Zenon
  <2>2. n \in Int
    <3>1. s[i] \in Octet
      OBVIOUS
    <3>2. n \in 0 .. 4
      BY <3>1, LengthIs, Zenon
    <3> HIDE DEF n
    <3> QED BY <3>2
  <2>3. (Stuck(s, i) <=> v.err # Ok) /\ After(s, i) = v.it
    <3>1. i # EndOf(s)
      BY <1>1
    <3> QED BY <3>1, Zenon DEF Stuck, After
  <2> HIDE DEF v, n
  <2>4. ASSUME ~ Stuck(s, i)
        PROVE  /\ After(s, i) \in i + 1 .. EndOf(s)
               /\ After(s, i) - i \in WellFormedAt(s, i)
    <3>1. n \in WellFormedAt(s, i) /\ After(s, i) = i + n
      BY <2>1, <2>3, <2>4, Zenon
    <3>2. n \in 1 .. 4 /\ i + n <= EndOf(s)
      BY <2>1, <2>2, <3>1, Zenon
    <3>3. After(s, i) - i = n
      BY <2>2, <3>1
    <3> QED BY <1>1, <3>1, <3>2, <3>3
  <2>5. ASSUME NEW m \in Int, m \in WellFormedAt(s, i)
        PROVE  ~ Stuck(s, i) /\ After(s, i) = i + m
    BY <2>1, <2>3, <2>5, Zenon
  <2> QED BY <2>4, <2>5, Zenon
<1>3. \A i \in 1 .. EndOf(s) : ~ Stuck(s, i) => i \in 1 .. Len(s)
  BY <1>1 DEF Stuck
<1> QED BY <1>2, <1>3, Zenon

(* The recursion of find_invalid is sound.                                  *)
LEMMA WalkExists == ASSUME NEW s \in Seq(Octet) PROVE \E f : IsWalk(f, s)
<1> DEFINE N == EndOf(s)
           stop == {i \in 1 .. N : Stuck(s, i)}
           last == [i \in 1 .. N |-> i]
           next == [i \in 1 .. N |-> After(s, i)]
           add == [i \in 1 .. N |-> [x \in 1 .. N |-> x]]
<1>1. N \in Nat
  BY DEF EndOf
<1>2. \A i \in 1 .. N : i \notin stop => After(s, i) \in i + 1 .. N
  BY AfterIs, Zenon
<1> HIDE DEF N
<1>3. \A i \in 1 .. N : i \in stop => last[i] \in 1 .. N
  BY Zenon
<1>4. \A i \in 1 .. N : i \notin stop => next[i] \in i + 1 .. N /\ add[i] \in [1 .. N -> 1 .. N]
  BY <1>2, Zenon
<1>5. PICK f \in [1 .. N -> 1 .. N] : \A i \in 1 .. N : Recurs(f, stop, last, next, add, i)
  <2> HIDE DEF stop, last, next, add
  <2> QED BY <1>1, <1>3, <1>4, RecursionExists, Zenon
<1>6. ASSUME NEW i \in 1 .. N
      PROVE  f[i] = IF Stuck(s, i) THEN i ELSE f[After(s, i)]
  <2>1. i \in stop <=> Stuck(s, i)
    OBVIOUS
  <2>2. last[i] = i /\ next[i] = After(s, i) /\ add[i] = [x \in 1 .. N |-> x]
    BY Zenon
  <2>3. i \notin stop => f[After(s, i)] \in 1 .. N
    BY <1>1, <1>2
  <2>4. i \notin stop => add[i][f[After(s, i)]] = f[After(s, i)]
    <3> HIDE DEF add, stop
    <3> QED BY <2>2, <2>3
  <2>5. Recurs(f, stop, last, next, add, i)
    BY <1>5, Zenon
  <2> HIDE DEF stop, last, next, add
  <2> QED BY <2>1, <2>2, <2>4, <2>5, Zenon DEF Recurs
<1>7. f = [i \in 1 .. N |-> IF Stuck(s, i) THEN i ELSE f[After(s, i)]]
  BY <1>6
<1> QED BY <1>7, Zenon DEF IsWalk, N

LEMMA FindInvalidIs ==
  ASSUME NEW s \in Seq(Octet)
  PROVE  \E f : IsWalk(f, s) /\ FindInvalid(s) = f[1]
<1> DEFINE f == CHOOSE f : IsWalk(f, s)
<1>1. IsWalk(f, s)
  BY WalkExists, Zenon
<1>2. FindInvalid(s) = f[1]
  BY Zenon DEF FindInvalid, IsWalk, Stuck, After
<1> QED BY <1>1, <1>2, Zenon

(* The boundary 0, and what a well-formed sequence reaches from another.    *)
Reached(R, s, j) == j = 0 \/ \E i \in 0 .. j - 1 : i \in R /\ j - i \in WellFormedAt(s, i + 1)

(* The least set that holds 0 and is closed under well-formed sequences.    *)
LEMMA ReachExists ==
  ASSUME NEW s \in Seq(Octet)
  PROVE  \E R \in SUBSET (0 .. Len(s)) : \A j \in 0 .. Len(s) : j \in R <=> Reached(R, s, j)
<1> DEFINE D == 0 .. Len(s)
           Closed(S) == \A j \in D : Reached(S, s, j) => j \in S
           R == {j \in D : \A S \in SUBSET D : Closed(S) => j \in S}
<1>1. R \subseteq D
  OBVIOUS
<1>2. \A S \in SUBSET D : Closed(S) => R \subseteq S
  OBVIOUS
<1>3. ASSUME NEW j \in D, Reached(R, s, j) PROVE j \in R
  <2> SUFFICES ASSUME NEW S \in SUBSET D, Closed(S) PROVE j \in S
    OBVIOUS
  <2>1. R \subseteq S
    BY <1>2
  <2> HIDE DEF R
  <2>2. Reached(S, s, j)
    BY <1>3, <2>1, Zenon DEF Reached
  <2> QED BY <2>2
<1>4. ASSUME NEW j \in D, j \in R PROVE Reached(R, s, j)
  <2> SUFFICES ASSUME ~ Reached(R, s, j) PROVE FALSE
    OBVIOUS
  <2> DEFINE S == R \ {j}
  <2>1. ASSUME NEW k \in D, Reached(S, s, k) PROVE k \in S
    <3>1. Reached(R, s, k)
      <4> HIDE DEF R
      <4> QED BY <2>1, Zenon DEF Reached
    <3>2. k \in R
      BY <1>3, <3>1, Zenon
    <3>3. k # j
      <4> HIDE DEF R
      <4> QED BY <3>1, Zenon
    <3> HIDE DEF R
    <3> QED BY <3>2, <3>3
  <2>2. S \in SUBSET D
    <3> HIDE DEF R, D
    <3> QED BY <1>1
  <2>3. R \subseteq S
    <3> HIDE DEF R, S, D
    <3> QED BY <1>2, <2>1, <2>2
  <2> HIDE DEF R
  <2> QED BY <1>4, <2>3
<1> HIDE DEF R
<1> QED BY <1>1, <1>3, <1>4, Zenon

LEMMA BoundariesIs ==
  ASSUME NEW s \in Seq(Octet)
  PROVE  /\ Boundaries(s) \subseteq 0 .. Len(s)
         /\ \A j \in 0 .. Len(s) : j \in Boundaries(s) <=> Reached(Boundaries(s), s, j)
<1> DEFINE D == 0 .. Len(s)
           IsReach(r) ==
             r = [j \in D |->
                    j = 0 \/ \E i \in 0 .. j - 1 : r[i] /\ j - i \in WellFormedAt(s, i + 1)]
           h == CHOOSE r : IsReach(r)
<1>1. \E r : IsReach(r)
  <2>1. PICK R \in SUBSET D : \A j \in D : j \in R <=> Reached(R, s, j)
    BY ReachExists
  <2> DEFINE r == [j \in D |-> j \in R]
  <2>2. ASSUME NEW j \in D
        PROVE  r[j] = (j = 0 \/ \E i \in 0 .. j - 1 : r[i] /\ j - i \in WellFormedAt(s, i + 1))
    <3>1. \A i \in 0 .. j - 1 : r[i] <=> i \in R
      OBVIOUS
    <3>2. r[j] = (j \in R)
      OBVIOUS
    <3> HIDE DEF r
    <3>3. j \in R <=> (j = 0 \/ \E i \in 0 .. j - 1 : r[i] /\ j - i \in WellFormedAt(s, i + 1))
      BY <2>1, <3>1, Zenon DEF Reached
    <3>4. (j \in R) = (j = 0 \/ \E i \in 0 .. j - 1 : r[i] /\ j - i \in WellFormedAt(s, i + 1))
      BY <3>3
    <3> QED BY <3>2, <3>4, Zenon
  <2>3. r = [j \in D |-> r[j]]
    OBVIOUS
  <2> HIDE DEF r
  <2>4. IsReach(r)
    BY <2>2, <2>3, Zenon
  <2> QED BY <2>4, Zenon
<1>2. IsReach(h)
  <2> HIDE DEF IsReach
  <2> QED BY <1>1, Zenon
<1>3. Boundaries(s) = {j \in D : h[j]}
  BY Zenon DEF Boundaries
<1> HIDE DEF h
<1>4. ASSUME NEW j \in D PROVE h[j] <=> Reached(Boundaries(s), s, j)
  <2>1. \A i \in 0 .. j - 1 : i \in D
    OBVIOUS
  <2>2. \A i \in 0 .. j - 1 : h[i] <=> i \in Boundaries(s)
    BY <1>3, <2>1
  <2>3. h[j] = (j = 0 \/ \E i \in 0 .. j - 1 : h[i] /\ j - i \in WellFormedAt(s, i + 1))
    BY <1>2, Zenon
  <2> QED BY <2>2, <2>3, Zenon DEF Reached
<1> HIDE DEF IsReach
<1> QED BY <1>3, <1>4

(* The walk goes from boundary to boundary.                                 *)
LEMMA BoundaryStep ==
  ASSUME NEW s \in Seq(Octet), NEW i \in 1 .. EndOf(s), i - 1 \in Boundaries(s), ~ Stuck(s, i)
  PROVE  After(s, i) - 1 \in Boundaries(s)
<1> DEFINE a == After(s, i)
           L == Len(s)
           R == Boundaries(s)
<1>1. EndOf(s) = L + 1 /\ L \in Nat
  BY DEF EndOf
<1>2. i \in 1 .. L /\ a \in i + 1 .. EndOf(s) /\ a - i \in WellFormedAt(s, i)
  BY AfterIs, Zenon
<1> HIDE DEF a, L, R
<1>3. /\ i - 1 \in 0 .. a - 1 - 1 /\ a - 1 \in 0 .. L
      /\ a - 1 - (i - 1) = a - i /\ i - 1 + 1 = i
  BY <1>1, <1>2
<1>4. Reached(R, s, a - 1)
  BY <1>2, <1>3 DEF Reached, R
<1> QED BY <1>3, <1>4, BoundariesIs DEF R, L, a

(* find_invalid stays on boundaries, and misses none.                       *)
LEMMA FindIs ==
  ASSUME NEW s \in Seq(Octet)
  PROVE  /\ FindInvalid(s) \in 1 .. EndOf(s) /\ FindInvalid(s) - 1 \in Boundaries(s)
         /\ \A j \in Boundaries(s) :
              j + 1 <= FindInvalid(s) /\ (Stuck(s, j + 1) => FindInvalid(s) = j + 1)
<1> DEFINE L == Len(s)
           end == EndOf(s)
           R == Boundaries(s)
<1>0. end = L + 1 /\ L \in Nat
  BY DEF EndOf
<1>1. PICK f : IsWalk(f, s) /\ FindInvalid(s) = f[1]
  BY FindInvalidIs
<1>2. \A i \in 1 .. end : f[i] = IF Stuck(s, i) THEN i ELSE f[After(s, i)]
  BY <1>1, Zenon DEF IsWalk
<1>3. R \subseteq 0 .. L /\ \A j \in 0 .. L : j \in R <=> Reached(R, s, j)
  BY BoundariesIs
<1>4. 0 \in R
  BY <1>0, <1>3 DEF Reached
<1> HIDE DEF R, end, L
<1> DEFINE Good(i) == f[i] \in i .. end /\ (i - 1 \in R => f[i] - 1 \in R)
<1>5. \A i \in 1 .. end : Good(i)
  <2> DEFINE B == {k \in 0 .. L : ~ Good(end - k)}
  <2>1. B = {}
    <3> SUFFICES ASSUME B # {} PROVE FALSE
      OBVIOUS
    <3>1. PICK k \in B : \A j \in B : k <= j
      <4> B \subseteq Nat
        BY <1>0
      <4> HIDE DEF B
      <4> QED BY LeastNatural
    <3> DEFINE i == end - k
    <3>2. k \in 0 .. L /\ ~ Good(i)
      OBVIOUS
    <3>3. i \in 1 .. end
      BY <1>0, <3>2
    <3> HIDE DEF i
    <3>4. CASE Stuck(s, i)
      <4>1. f[i] = i
        BY <1>2, <3>3, <3>4
      <4> QED BY <1>0, <3>2, <3>3, <4>1
    <3>5. CASE ~ Stuck(s, i)
      <4> DEFINE a == After(s, i)
      <4>1. f[i] = f[a]
        BY <1>2, <3>3, <3>5
      <4>2. i \in 1 .. L /\ a \in i + 1 .. end /\ a - i \in WellFormedAt(s, i)
        BY <3>3, <3>5, AfterIs, Zenon DEF end, L
      <4> HIDE DEF a
      <4>3. end - a \in 0 .. L /\ ~ (k <= end - a) /\ end - (end - a) = a
        BY <1>0, <3>2, <3>3, <4>2 DEF i
      <4>4. Good(a)
        <5>1. end - a \notin B
          <6> HIDE DEF B
          <6> QED BY <3>1, <4>3
        <5>2. Good(end - (end - a))
          <6> HIDE DEF Good
          <6> QED BY <4>3, <5>1
        <5> QED BY <4>3, <5>2
      <4>5. f[i] \in i .. end
        BY <1>0, <3>3, <4>1, <4>2, <4>4
      <4>6. i - 1 \in R => a - 1 \in R
        BY <3>3, <3>5, BoundaryStep, Zenon DEF R, a, end
      <4> QED BY <3>2, <4>1, <4>4, <4>5, <4>6
    <3> QED BY <3>4, <3>5
  <2>2. ASSUME NEW i \in 1 .. end PROVE Good(i)
    <3>1. end - i \in 0 .. L /\ end - (end - i) = i
      BY <1>0
    <3>2. Good(end - (end - i))
      <4> HIDE DEF Good
      <4> QED BY <2>1, <3>1
    <3> QED BY <3>1, <3>2
  <2> QED BY <2>2
<1> HIDE DEF Good
<1>6. \A j \in R : f[j + 1] = f[1]
  <2> DEFINE B == {j \in R : f[j + 1] # f[1]}
  <2> SUFFICES ASSUME B # {} PROVE FALSE
    OBVIOUS
  <2>1. PICK j \in B : \A k \in B : j <= k
    <3>1. 0 .. L \subseteq Nat
      BY <1>0
    <3> B \subseteq Nat
      BY <1>3, <3>1
    <3> HIDE DEF B
    <3> QED BY LeastNatural
  <2>2. j \in R /\ f[j + 1] # f[1] /\ j \in 0 .. L
    BY <1>3
  <2>3. j # 0
    BY <2>2
  <2>4. PICK i \in 0 .. j - 1 : i \in R /\ j - i \in WellFormedAt(s, i + 1)
    BY <1>3, <2>2, <2>3, Zenon DEF Reached
  <2>5. /\ i + 1 \in 1 .. L /\ i + 1 \in 1 .. end /\ j - i \in Int /\ ~ (j <= i)
        /\ i + 1 + (j - i) = j + 1
    BY <1>0, <2>2, <2>4
  <2>6. ~ Stuck(s, i + 1) /\ After(s, i + 1) = i + 1 + (j - i)
    BY <2>4, <2>5, AfterIs, Zenon DEF L
  <2>7. f[i + 1] = f[j + 1]
    BY <1>2, <2>5, <2>6
  <2>8. i \notin B
    <3> HIDE DEF B
    <3> QED BY <2>1, <2>5
  <2> QED BY <2>2, <2>4, <2>7, <2>8
<1>7. ASSUME NEW j \in R PROVE j + 1 <= f[1] /\ (Stuck(s, j + 1) => f[1] = j + 1)
  <2>1. j + 1 \in 1 .. end
    BY <1>0, <1>3
  <2>2. f[j + 1] \in j + 1 .. end
    BY <1>5, <2>1 DEF Good
  <2>3. f[1] \in j + 1 .. end
    BY <1>6, <2>2
  <2>4. Stuck(s, j + 1) => f[1] = j + 1
    BY <1>2, <1>6, <2>1
  <2> QED BY <1>0, <2>1, <2>3, <2>4
<1>8. f[1] \in 1 .. end /\ f[1] - 1 \in R
  <2>1. 1 \in 1 .. end /\ 1 - 1 = 0
    BY <1>0
  <2> QED BY <1>4, <1>5, <2>1 DEF Good
<1> QED BY <1>1, <1>7, <1>8 DEF R, end

LEMMA FindsBoundary ==
  ASSUME NEW s \in Seq(Octet)
  PROVE  FindInvalid(s) = Max(Boundaries(s)) + 1
<1> DEFINE e == FindInvalid(s) - 1
           R == Boundaries(s)
           m == Max(R)
<1>1. FindInvalid(s) \in Int /\ e \in R /\ \A j \in R : j + 1 <= FindInvalid(s)
  BY FindIs
<1>2. R \subseteq Int
  BY BoundariesIs
<1> HIDE DEF R
<1>3. \A j \in R : e >= j
  BY <1>1, <1>2
<1>4. \E x \in R : \A y \in R : x >= y
  BY <1>1, <1>3, Zenon
<1>5. m \in R /\ \A y \in R : m >= y
  BY <1>4, Zenon DEF Max
<1> HIDE DEF m
<1>6. m = e
  BY <1>1, <1>2, <1>3, <1>5
<1> QED BY <1>1, <1>6 DEF m, R

(* The invariant: what has been typed is a text of octets.                  *)
Typing == input.form = "octets" => input.is \in Seq(OctetValues)

LEMMA TypingHolds == LibrariesSpec => []Typing
<1>1. LibrariesInit => Typing
  <2> SUFFICES ASSUME LibrariesInit, input.form = "octets" PROVE input.is = <<>>
    <3>1. <<>> \in Seq(OctetValues)
      OBVIOUS
    <3> QED BY <3>1, Zenon DEF Typing
  <2>1. CASE input = Given("stream", <<>>)
    BY <2>1 DEF Given
  <2>2. CASE input = Given("length", 0)
    BY <2>2 DEF Given
  <2>3. CASE input \in {Given(form, <<>>) : form \in {"octets", "units", "points"}}
    BY <2>3 DEF Given
  <2>4. CASE input \in {Given("factors", p) : p \in Factors}
    <3> HIDE DEF Factors
    <3> QED BY <2>4 DEF Given
  <2> QED BY <2>1, <2>2, <2>3, <2>4, Zenon DEF LibrariesInit
<1>2. Typing /\ [LibrariesNext]_libraryVars => Typing'
  <2> SUFFICES ASSUME Typing, [LibrariesNext]_libraryVars PROVE Typing'
    OBVIOUS
  <2>1. CASE Typed("octets", OctetValues, MaxOctets)
    BY <2>1 DEF Typed, Typing
  <2>2. CASE Typed("units", UnitValues, MaxUnits)
    BY <2>2 DEF Typed, Typing
  <2>3. CASE Typed("points", PointValues, MaxPoints)
    BY <2>3 DEF Typed, Typing
  <2>4. CASE Lengthen
    BY <2>4 DEF Lengthen, Typing
  <2>5. CASE UNCHANGED input
    BY <2>5 DEF Typing
  <2> QED BY <2>1, <2>2, <2>3, <2>4, <2>5 DEF LibrariesNext, libraryVars
<1> QED BY <1>1, <1>2, PTL DEF LibrariesSpec

LEMMA TypedIsOctets ==
  ASSUME Typing, input.form = "octets"
  PROVE  input.is \in Seq(Octet)
<1>1. OctetValues \subseteq Octet
  BY OctetsAssumption DEF Octet
<1> QED BY <1>1 DEF Typing

(* find_invalid and is_valid take exactly the well-formed texts of any      *)
(* length over any octets: the first octet that is refused is the one       *)
(* behind the longest well-formed beginning.                                *)
THEOREM ValidTextsAreWellFormed == LibrariesSpec => []ValidIsWellFormed
<1>1. LibrariesSpec => []Typing
  BY TypingHolds
<1>2. Typing => ValidIsWellFormed
  <2> SUFFICES ASSUME Typing, input.form = "octets"
               PROVE  FindInvalid(input.is) = Max(Boundaries(input.is)) + 1
    BY DEF ValidIsWellFormed
  <2>1. input.is \in Seq(Octet)
    BY TypedIsOctets, Zenon
  <2> QED BY <2>1, FindsBoundary, Zenon
<1> QED BY <1>1, <1>2, PTL

-----------------------------------------------------------------------------
(* Nicknames.                                                               *)

(* On a well-formed text the walk goes on until the end.                    *)
LEMMA WellFormedIsWalked ==
  ASSUME NEW s \in Seq(Octet), WellFormed(s), NEW i \in 1 .. Len(s), i - 1 \in Boundaries(s)
  PROVE  ~ Stuck(s, i)
<1> DEFINE e == FindInvalid(s)
           L == Len(s)
<1>1. EndOf(s) = L + 1 /\ L \in Nat
  BY DEF EndOf
<1>2. L \in Boundaries(s)
  BY DEF WellFormed
<1>3. e \in 1 .. EndOf(s) /\ L + 1 <= e
  BY <1>2, FindIs, Zenon
<1>4. Stuck(s, i - 1 + 1) => e = i - 1 + 1
  BY FindIs, Zenon
<1> HIDE DEF e, L
<1>5. i \in 1 .. L /\ i - 1 + 1 = i
  BY DEF L
<1> QED BY <1>1, <1>3, <1>4, <1>5

(* What next gives where the walk goes on, and where it does not.           *)
LEMMA NextIs ==
  ASSUME NEW s \in Seq(Octet), NEW i \in 1 .. EndOf(s)
  PROVE  /\ Stuck(s, i) <=> i = EndOf(s) \/ Next(s, i, EndOf(s)).err # Ok
         /\ Next(s, i, EndOf(s)).it = After(s, i)
<1> DEFINE v == ValidateNext(s, i, EndOf(s))
           w == Next(s, i, EndOf(s))
<1>1. w = [v EXCEPT !.err = CASE @ \in {Ok, Room}         -> @
                              [] @ = "INVALID_CODE_POINT" -> "invalid_code_point"
                              [] OTHER                    -> "invalid_utf8"]
  BY Zenon DEF Next
<1>2. EndOf(s) = Len(s) + 1 /\ Len(s) \in Nat
  BY DEF EndOf
<1>3. v = [err |-> v.err, cp |-> v.cp, it |-> v.it]
  <2>1. CASE i = EndOf(s)
    <3>1. v = [err |-> Room, cp |-> 0, it |-> i]
      BY <2>1, Zenon DEF ValidateNext
    <3> HIDE DEF v
    <3> QED BY <3>1
  <2>2. CASE i # EndOf(s)
    <3>1. i \in 1 .. Len(s)
      BY <1>2, <2>2
    <3> QED BY <3>1, ValidateIs, Zenon
  <2> QED BY <2>1, <2>2
<1>4. Room # Ok /\ "invalid_code_point" # Ok /\ "invalid_utf8" # Ok /\ "INVALID_CODE_POINT" # Ok
  BY DEF Ok, Room
<1> HIDE DEF v, w
<1>5. w.it = v.it /\ (w.err = Ok <=> v.err = Ok)
  BY <1>1, <1>3, <1>4
<1> QED BY <1>5, Zenon DEF Stuck, After, v, w

LEMMA NextGoesOn ==
  ASSUME NEW s \in Seq(Octet), NEW i \in 1 .. Len(s), ~ Stuck(s, i), NEW m, m = SequenceLength(s[i])
  PROVE  /\ m \in 1 .. 4 /\ i + m <= EndOf(s) /\ After(s, i) = i + m
         /\ Next(s, i, EndOf(s)).cp = Decoded(s, i, m) /\ Sound(Decoded(s, i, m), m)
<1> DEFINE n == SequenceLength(s[i])
           v == ValidateNext(s, i, EndOf(s))
           w == Next(s, i, EndOf(s))
<1>1. v.err = Ok /\ After(s, i) = v.it
  BY Zenon DEF Stuck, After
<1>2. n \in 0 .. 4
  <2>1. s[i] \in Octet
    OBVIOUS
  <2> QED BY <2>1, LengthIs, Zenon
<1>3. /\ n \in WellFormedAt(s, i)
      /\ v.it = i + n /\ v.cp = Decoded(s, i, n) /\ Sound(v.cp, n)
      /\ v = [err |-> v.err, cp |-> v.cp, it |-> v.it]
      /\ \A k \in Int : k \in WellFormedAt(s, i) => k = n /\ k \in 1 .. 4 /\ i + k <= EndOf(s)
  <2>1. /\ v.err = Ok <=> n \in WellFormedAt(s, i)
        /\ v.err = Ok => v.it = i + n /\ v.cp = Decoded(s, i, n) /\ Sound(v.cp, n)
        /\ v = [err |-> v.err, cp |-> v.cp, it |-> v.it]
        /\ \A k \in Int : k \in WellFormedAt(s, i) => k = n /\ k \in 1 .. 4 /\ i + k <= EndOf(s)
    BY ValidateIs, Zenon
  <2> HIDE DEF v, n
  <2> QED BY <1>1, <2>1, Zenon
<1>4. w = [v EXCEPT !.err = CASE @ \in {Ok, Room}         -> @
                              [] @ = "INVALID_CODE_POINT" -> "invalid_code_point"
                              [] OTHER                    -> "invalid_utf8"]
  BY Zenon DEF Next
<1>5. w.cp = v.cp
  <2> HIDE DEF v, w
  <2> QED BY <1>3, <1>4
<1>6. n \in Int
  BY <1>2
<1>7. n \in 1 .. 4 /\ i + n <= EndOf(s)
  BY <1>3, <1>6, Zenon
<1>8. m = n
  OBVIOUS
<1> HIDE DEF v, w, n
<1> QED BY <1>1, <1>3, <1>5, <1>7, <1>8, Zenon DEF w

(* The recursion of utf8to32 is sound.                                      *)
IsPointing(f, s) ==
  f = [i \in 1 .. EndOf(s) |->
         LET v == Next(s, i, EndOf(s))
         IN  IF i = EndOf(s) THEN Nothing
             ELSE IF v.err = Ok THEN Put(<<v.cp>>, f[v.it]) ELSE Thrown(v.err)]

LEMMA PointsExist ==
  ASSUME NEW s \in Seq(Octet)
  PROVE  \E f : IsPointing(f, s)
<1> DEFINE N == EndOf(s)
           w(i) == Next(s, i, N)
           P == {w(i).cp : i \in 1 .. N}
           E == {Ok} \cup {w(i).err : i \in 1 .. N}
           V == [out : Seq(P), err : E]
           stop == {i \in 1 .. N : Stuck(s, i)}
           last == [i \in 1 .. N |-> IF i = N THEN Nothing ELSE Thrown(w(i).err)]
           next == [i \in 1 .. N |-> After(s, i)]
           add == [i \in 1 .. N |-> [x \in V |-> Put(<<w(i).cp>>, x)]]
<1>1. N \in Nat
  BY DEF EndOf
<1>2. \A i \in 1 .. N : i \notin stop => After(s, i) \in i + 1 .. N
  BY AfterIs, Zenon
<1>3. \A i \in 1 .. N : /\ Stuck(s, i) <=> i = N \/ w(i).err # Ok
                        /\ w(i).it = After(s, i)
  BY NextIs, Zenon
<1> HIDE DEF N, w
<1>4. ASSUME NEW i \in 1 .. N PROVE last[i] \in V
  <2>1. w(i).err \in E /\ Ok \in E
    OBVIOUS
  <2>2. <<>> \in Seq(P)
    OBVIOUS
  <2> HIDE DEF E, P
  <2>3. Nothing \in V /\ Thrown(w(i).err) \in V
    BY <2>1, <2>2 DEF Nothing, Thrown
  <2> HIDE DEF V
  <2> QED BY <2>3, Zenon
<1>5. ASSUME NEW i \in 1 .. N, NEW x \in V
      PROVE  Put(<<w(i).cp>>, x) \in V
  <2> DEFINE c == w(i).cp
  <2>1. c \in P
    OBVIOUS
  <2> HIDE DEF c, P, E
  <2>2. x.out \in Seq(P) /\ <<c>> \in Seq(P)
    BY <2>1
  <2>3. <<c>> \o x.out \in Seq(P)
    BY <2>2
  <2> QED BY <2>3, Zenon DEF Put, c
<1>6. \A i \in 1 .. N : i \in stop => last[i] \in V
  BY <1>4, Zenon
<1>7. \A i \in 1 .. N : i \notin stop => next[i] \in i + 1 .. N /\ add[i] \in [V -> V]
  <2> TAKE i \in 1 .. N
  <2>1. next[i] = After(s, i) /\ add[i] = [x \in V |-> Put(<<w(i).cp>>, x)]
    BY Zenon
  <2>2. \A x \in V : Put(<<w(i).cp>>, x) \in V
    BY <1>5, Zenon
  <2> HIDE DEF V, next, add, stop
  <2> QED BY <1>2, <2>1, <2>2, Zenon
<1>8. PICK f \in [1 .. N -> V] : \A i \in 1 .. N : Recurs(f, stop, last, next, add, i)
  <2> HIDE DEF stop, last, next, add, V
  <2> QED BY <1>1, <1>6, <1>7, RecursionExists, Zenon
<1>9. ASSUME NEW i \in 1 .. N
      PROVE  f[i] = IF i = N THEN Nothing
                    ELSE IF w(i).err = Ok THEN Put(<<w(i).cp>>, f[w(i).it]) ELSE Thrown(w(i).err)
  <2>1. i \in stop <=> i = N \/ w(i).err # Ok
    BY <1>3
  <2>2. /\ last[i] = IF i = N THEN Nothing ELSE Thrown(w(i).err)
        /\ next[i] = w(i).it /\ add[i] = [x \in V |-> Put(<<w(i).cp>>, x)]
    BY <1>3, Zenon
  <2> HIDE DEF stop, last, next, add, V
  <2>3. i \notin stop => w(i).it \in 1 .. N
    BY <1>1, <1>2, <1>3
  <2>4. i \notin stop => add[i][f[w(i).it]] = Put(<<w(i).cp>>, f[w(i).it])
    BY <2>2, <2>3, Zenon
  <2>5. Recurs(f, stop, last, next, add, i)
    BY <1>8, Zenon
  <2> QED BY <2>1, <2>2, <2>4, <2>5, Zenon DEF Recurs
<1>10. f = [i \in 1 .. N |->
              IF i = N THEN Nothing
              ELSE IF w(i).err = Ok THEN Put(<<w(i).cp>>, f[w(i).it]) ELSE Thrown(w(i).err)]
  <2> HIDE DEF V, stop, last, next, add
  <2>1. f = [i \in 1 .. N |-> f[i]]
    BY <1>8
  <2> QED BY <1>9, <2>1, Zenon
<1>11. IsPointing(f, s)
  BY <1>10, Zenon DEF IsPointing, N, w
<1> QED BY <1>11, Zenon

LEMMA PointsAre ==
  ASSUME NEW s \in Seq(Octet)
  PROVE  \E f : IsPointing(f, s) /\ Utf8to32(s) = f[1]
<1> DEFINE g == CHOOSE f : IsPointing(f, s)
<1>1. IsPointing(g, s)
  BY PointsExist, Zenon
<1>2. Utf8to32(s) = g[1]
  BY Zenon DEF Utf8to32, IsPointing
<1> QED BY <1>1, <1>2, Zenon

(* Induction along the boundaries of a well-formed text, from its end.      *)
LEMMA AlongBoundaries ==
  ASSUME NEW s \in Seq(Octet), WellFormed(s), NEW G,
         EndOf(s) \in G,
         \A i \in 1 .. Len(s) : i - 1 \in Boundaries(s) /\ After(s, i) \in G => i \in G
  PROVE  \A i \in 1 .. EndOf(s) : i - 1 \in Boundaries(s) => i \in G
<1> DEFINE L == Len(s)
           N == EndOf(s)
           R == Boundaries(s)
           B == {k \in 0 .. L : N - k - 1 \in R /\ N - k \notin G}
<1>1. N = L + 1 /\ L \in Nat
  BY DEF EndOf
<1>2. B = {}
  <2> SUFFICES ASSUME B # {} PROVE FALSE
    OBVIOUS
  <2>1. PICK k \in B : \A j \in B : k <= j
    <3> B \subseteq Nat
      BY <1>1
    <3> HIDE DEF B
    <3> QED BY LeastNatural
  <2> DEFINE i == N - k
             a == After(s, i)
  <2>2. k \in 0 .. L /\ i - 1 \in R /\ i \notin G
    OBVIOUS
  <2>3. i \in 1 .. L /\ i \in 1 .. N
    BY <1>1, <2>2
  <2> HIDE DEF i
  <2>4. a \in i + 1 .. N /\ a - 1 \in R
    BY <2>2, <2>3, WellFormedIsWalked, AfterIs, BoundaryStep, Zenon
  <2>5. a \notin G
    BY <2>2, <2>3
  <2> HIDE DEF a, N, L, R
  <2>6. N - a \in 0 .. L /\ N - (N - a) = a /\ ~ (k <= N - a)
    BY <1>1, <2>2, <2>3, <2>4 DEF i
  <2>7. N - a \in B
    BY <2>4, <2>5, <2>6
  <2> HIDE DEF B
  <2> QED BY <2>1, <2>6, <2>7
<1>3. ASSUME NEW i \in 1 .. N, i - 1 \in R PROVE i \in G
  <2> HIDE DEF N, L, R
  <2>1. N - i \in 0 .. L /\ N - (N - i) = i
    BY <1>1
  <2> QED BY <1>2, <1>3, <2>1
<1> QED BY <1>3

LEMMA UncheckedLengthIs ==
  ASSUME NEW b \in Octet
  PROVE  /\ UncheckedLength(b) \in 1 .. 4
         /\ SequenceLength(b) \in 1 .. 4 => UncheckedLength(b) = SequenceLength(b)
<1> DEFINE n == SequenceLength(b)
           S == {1, n}
           m == Max(S)
<1>1. n \in 0 .. 4
  BY LengthIs, Zenon
<1> HIDE DEF n
<1>2. \E x \in S : \A y \in S : x >= y
  BY <1>1
<1> HIDE DEF S
<1>3. m \in S /\ \A y \in S : m >= y
  BY <1>2, Zenon DEF Max
<1> HIDE DEF m
<1>4. m \in 1 .. 4 /\ (n \in 1 .. 4 => m = n)
  BY <1>1, <1>3 DEF S
<1> QED BY <1>4, Zenon DEF UncheckedLength, m, S, n

LEMMA WithNul ==
  ASSUME NEW s \in Seq(Octet), NEW t, t = Append(s, 0)
  PROVE  /\ t \in Seq(Octet) /\ Len(t) = EndOf(s) /\ EndOf(t) = EndOf(s) + 1
         /\ \A k \in 1 .. Len(s) : t[k] = s[k]
         /\ t[EndOf(s)] = 0
<1>1. 0 \in Octet
  BY DEF Octet
<1>2. t \in Seq(Octet) /\ Len(t) = Len(s) + 1
  BY <1>1
<1>3. \A k \in 1 .. Len(s) : t[k] = s[k]
  OBVIOUS
<1>4. t[Len(s) + 1] = 0
  OBVIOUS
<1> QED BY <1>2, <1>3, <1>4 DEF EndOf

(* The recursion of is_valid_nickname is sound.                             *)
IsReading(f, t) ==
  f = [i \in 1 .. Len(t) + 4 |->
         IF i > Len(t) \/ i + UncheckedLength(t[i]) > EndOf(t) THEN BOOLEAN
         ELSE LET v == UncheckedNext(t, i)
              IN  IF v.cp = 0 THEN {TRUE}
                  ELSE IF IsValidChar(v.cp) THEN f[v.it] ELSE {FALSE}]

LEMMA ReadingExists ==
  ASSUME NEW t \in Seq(Octet)
  PROVE  \E f : IsReading(f, t)
<1> DEFINE N == Len(t) + 4
           v(i) == UncheckedNext(t, i)
           Out(i) == i > Len(t) \/ i + UncheckedLength(t[i]) > EndOf(t)
           Goes(i) == ~ Out(i) /\ v(i).cp # 0 /\ IsValidChar(v(i).cp)
           V == SUBSET BOOLEAN
           stop == {i \in 1 .. N : ~ Goes(i)}
           last == [i \in 1 .. N |-> IF Out(i) THEN BOOLEAN
                                     ELSE IF v(i).cp = 0 THEN {TRUE} ELSE {FALSE}]
           next == [i \in 1 .. N |-> v(i).it]
           add == [i \in 1 .. N |-> [x \in V |-> x]]
<1>1. N \in Nat /\ EndOf(t) \in 1 .. N
  BY DEF EndOf
<1>2. ASSUME NEW i \in 1 .. N, Goes(i) PROVE v(i).it \in i + 1 .. N
  <2> DEFINE n == UncheckedLength(t[i])
  <2>1. v(i).it = i + n
    BY DEF UncheckedNext
  <2>2. ~ (i > Len(t)) /\ ~ (i + n > EndOf(t))
    BY <1>2
  <2>3. n \in 1 .. 4
    <3>1. i \in 1 .. Len(t)
      BY <2>2
    <3>2. t[i] \in Octet
      BY <3>1
    <3> QED BY <3>2, UncheckedLengthIs, Zenon
  <2> HIDE DEF n, v, N
  <2> QED BY <1>1, <2>1, <2>2, <2>3
<1> HIDE DEF N, v, Out
<1>3. \A i \in 1 .. N : i \in stop => last[i] \in V
  <2> TAKE i \in 1 .. N
  <2>1. last[i] \in {BOOLEAN, {TRUE}, {FALSE}}
    BY Zenon
  <2> HIDE DEF last, stop
  <2> QED BY <2>1
<1>4. \A i \in 1 .. N : i \notin stop => next[i] \in i + 1 .. N /\ add[i] \in [V -> V]
  <2> TAKE i \in 1 .. N
  <2>1. next[i] = v(i).it /\ add[i] = [x \in V |-> x]
    BY Zenon
  <2>2. i \notin stop => Goes(i)
    BY Zenon
  <2> HIDE DEF V, next, add, stop, Goes
  <2> QED BY <1>2, <2>1, <2>2, Zenon
<1>5. PICK f \in [1 .. N -> V] : \A i \in 1 .. N : Recurs(f, stop, last, next, add, i)
  <2> HIDE DEF stop, last, next, add, V
  <2> QED BY <1>1, <1>3, <1>4, RecursionExists, Zenon
<1>6. ASSUME NEW i \in 1 .. N
      PROVE  f[i] = IF Out(i) THEN BOOLEAN
                    ELSE IF v(i).cp = 0 THEN {TRUE}
                         ELSE IF IsValidChar(v(i).cp) THEN f[v(i).it] ELSE {FALSE}
  <2>1. i \in stop <=> ~ Goes(i)
    BY Zenon
  <2>2. /\ last[i] = IF Out(i) THEN BOOLEAN ELSE IF v(i).cp = 0 THEN {TRUE} ELSE {FALSE}
        /\ next[i] = v(i).it /\ add[i] = [x \in V |-> x]
    BY Zenon
  <2>3. Goes(i) => v(i).it \in 1 .. N
    <3> HIDE DEF Goes
    <3> QED BY <1>1, <1>2
  <2> HIDE DEF stop, last, next, add, V
  <2>4. Goes(i) => add[i][f[v(i).it]] = f[v(i).it]
    BY <2>2, <2>3, Zenon
  <2>5. Recurs(f, stop, last, next, add, i)
    BY <1>5, Zenon
  <2> QED BY <2>1, <2>2, <2>4, <2>5, Zenon DEF Recurs
<1>7. f = [i \in 1 .. N |->
             IF Out(i) THEN BOOLEAN
             ELSE IF v(i).cp = 0 THEN {TRUE}
                  ELSE IF IsValidChar(v(i).cp) THEN f[v(i).it] ELSE {FALSE}]
  <2> HIDE DEF V, stop, last, next, add
  <2>1. f = [i \in 1 .. N |-> f[i]]
    BY <1>5
  <2> QED BY <1>6, <2>1, Zenon
<1> QED BY <1>7, Zenon DEF IsReading, N, v, Out

LEMMA VerdictsAre ==
  ASSUME NEW s \in Seq(Octet), s # <<>>
  PROVE  \E f : IsReading(f, Append(s, 0)) /\ NicknameVerdicts(s) = f[1]
<1> DEFINE t == Append(s, 0)
           g == CHOOSE f : IsReading(f, t)
<1>1. t \in Seq(Octet)
  BY WithNul, Zenon
<1>2. IsReading(g, t)
  <2> HIDE DEF t
  <2> QED BY <1>1, ReadingExists, Zenon
<1>3. NicknameVerdicts(s) = g[1]
  BY Zenon DEF NicknameVerdicts, IsReading
<1> QED BY <1>2, <1>3, Zenon

LEMMA SameDecoded ==
  ASSUME NEW s, NEW t, NEW i \in Nat, NEW n \in 1 .. 4, NEW e \in Int, i + n <= e,
         \A k \in i .. e - 1 : t[k] = s[k]
  PROVE  Decoded(t, i, n) = Decoded(s, i, n)
<1>1. /\ t[i] = s[i] /\ n >= 2 => t[i + 1] = s[i + 1]
      /\ n >= 3 => t[i + 2] = s[i + 2]
      /\ n >= 4 => t[i + 3] = s[i + 3]
  OBVIOUS
<1>2. CASE n = 1
  BY <1>1, <1>2 DEF Decoded
<1>3. CASE n = 2
  BY <1>1, <1>3 DEF Decoded
<1>4. CASE n = 3
  BY <1>1, <1>4 DEF Decoded
<1>5. CASE n = 4
  BY <1>1, <1>5 DEF Decoded
<1> QED BY <1>2, <1>3, <1>4, <1>5

LEMMA AllBehind ==
  ASSUME NEW c, NEW P, c \in P, NEW r \in Seq(P)
  PROVE  LET q == <<c>> \o r
         IN  /\ q \in Seq(P)
             /\ (\A j \in DOMAIN q : IsValidChar(q[j])) <=>
                  IsValidChar(c) /\ \A j \in DOMAIN r : IsValidChar(r[j])
<1> DEFINE q == <<c>> \o r
<1>1. q \in Seq(P) /\ Len(q) = Len(r) + 1 /\ q[1] = c
  OBVIOUS
<1>2. \A j \in 1 .. Len(r) : q[j + 1] = r[j]
  OBVIOUS
<1>3. DOMAIN q = 1 .. Len(r) + 1 /\ DOMAIN r = 1 .. Len(r) /\ Len(r) \in Nat
  BY <1>1
<1> HIDE DEF q
<1>4. \A j \in 1 .. Len(r) + 1 : j = 1 \/ (j - 1 \in 1 .. Len(r) /\ j = j - 1 + 1)
  BY <1>3
<1>5. 1 \in DOMAIN q /\ \A j \in 1 .. Len(r) : j + 1 \in DOMAIN q
  BY <1>3
<1>6. ASSUME IsValidChar(c), \A j \in DOMAIN r : IsValidChar(r[j]), NEW j \in DOMAIN q
      PROVE  IsValidChar(q[j])
  <2>1. CASE j = 1
    BY <1>1, <1>6, <2>1
  <2>2. CASE j # 1
    <3>1. j - 1 \in 1 .. Len(r) /\ j = j - 1 + 1
      BY <1>3, <1>4, <1>6, <2>2
    <3>2. q[j] = r[j - 1]
      BY <1>2, <3>1
    <3> QED BY <1>3, <1>6, <3>1, <3>2
  <2> QED BY <2>1, <2>2
<1>7. ASSUME \A j \in DOMAIN q : IsValidChar(q[j])
      PROVE  IsValidChar(c) /\ \A j \in DOMAIN r : IsValidChar(r[j])
  BY <1>1, <1>2, <1>3, <1>5, <1>7
<1> QED BY <1>1, <1>6, <1>7, Zenon DEF q

AllValid(q) == \A j \in DOMAIN q : IsValidChar(q[j])

(* From any boundary on, the unchecked reading sees the points the checked  *)
(* one sees, and then the NUL.                                              *)
LEMMA NicknamesAre ==
  ASSUME NEW s \in Seq(Octet), s # <<>>, WellFormed(s), ~ Contains(s, 0)
  PROVE  NicknameVerdicts(s) = {AllValid(Utf8to32(s).out)}
<1> DEFINE L == Len(s)
           N == EndOf(s)
           R == Boundaries(s)
           t == Append(s, 0)
           w(i) == Next(s, i, N)
           P == {w(i).cp : i \in 1 .. N}
<1>1. N = L + 1 /\ L \in Nat
  BY DEF EndOf
<1>2. PICK f : IsPointing(f, s) /\ Utf8to32(s) = f[1]
  BY PointsAre, Zenon
<1>3. PICK g : IsReading(g, t) /\ NicknameVerdicts(s) = g[1]
  BY VerdictsAre, Zenon
<1>4. ASSUME NEW i \in 1 .. N
      PROVE  f[i] = IF i = N THEN Nothing
                    ELSE IF w(i).err = Ok THEN Put(<<w(i).cp>>, f[w(i).it]) ELSE Thrown(w(i).err)
  BY <1>2, Zenon DEF IsPointing
<1>5. /\ Len(t) = N /\ EndOf(t) = N + 1 /\ t[N] = 0
      /\ \A k \in 1 .. L : t[k] = s[k]
  BY WithNul, Zenon
<1>6. \A k \in 1 .. L : s[k] # 0
  BY DEF Contains
<1> HIDE DEF t
<1> DEFINE v(i) == UncheckedNext(t, i)
<1>7. ASSUME NEW i \in 1 .. N
      PROVE  g[i] = IF i > N \/ i + UncheckedLength(t[i]) > N + 1 THEN BOOLEAN
                    ELSE IF v(i).cp = 0 THEN {TRUE}
                         ELSE IF IsValidChar(v(i).cp) THEN g[v(i).it] ELSE {FALSE}
  <2>1. i \in 1 .. Len(t) + 4
    <3>1. i \in 1 .. N + 4
      BY <1>1
    <3> QED BY <1>5, <3>1, Zenon
  <2>2. g[i] = IF i > Len(t) \/ i + UncheckedLength(t[i]) > EndOf(t) THEN BOOLEAN
               ELSE IF v(i).cp = 0 THEN {TRUE}
                    ELSE IF IsValidChar(v(i).cp) THEN g[v(i).it] ELSE {FALSE}
    BY <1>3, <2>1, Zenon DEF IsReading
  <2> HIDE DEF N, v
  <2> QED BY <1>5, <2>2, Zenon
<1>8. R \subseteq 0 .. L /\ 0 \in R
  <2>1. Reached(R, s, 0) /\ 0 \in 0 .. L
    BY <1>1 DEF Reached
  <2> QED BY <2>1, BoundariesIs
<1> DEFINE Good(i) == f[i] \in [out : Seq(P), err : {Ok}] /\ g[i] = {AllValid(f[i].out)}
<1>9. Good(N)
  <2>1. N \in 1 .. N /\ ~ (N > N) /\ ~ (N + 1 > N + 1)
    BY <1>1
  <2>2. f[N] = Nothing
    <3> HIDE DEF N, w
    <3> QED BY <1>4, <2>1, Zenon
  <2>3. f[N].out = <<>> /\ f[N] = [out |-> <<>>, err |-> Ok]
    BY <2>2 DEF Nothing
  <2>4. UncheckedLength(t[N]) = 1
    <3>1. 0 \in Octet /\ SequenceLength(0) = 1 /\ 1 \in 1 .. 4
      BY DEF Octet, SequenceLength
    <3>2. UncheckedLength(0) = 1
      BY <3>1, UncheckedLengthIs
    <3> QED BY <1>5, <3>2
  <2>5. v(N).cp = 0
    <3>1. v(N).cp = Decoded(t, N, 1)
      BY <2>4 DEF UncheckedNext
    <3>2. Decoded(t, N, 1) = t[N]
      BY DEF Decoded
    <3> QED BY <1>5, <3>1, <3>2
  <2>6. g[N] = {TRUE}
    <3> HIDE DEF N, v
    <3> QED BY <1>7, <2>1, <2>4, <2>5
  <2>7. AllValid(<<>>) = TRUE /\ <<>> \in Seq(P)
    <3> HIDE DEF P
    <3> QED BY DEF AllValid
  <2> HIDE DEF N, P
  <2>8. f[N] \in [out : Seq(P), err : {Ok}]
    BY <2>3, <2>7
  <2> QED BY <2>3, <2>6, <2>7, <2>8, Zenon
<1>10. ASSUME NEW i \in 1 .. L, i - 1 \in R
       PROVE  Good(After(s, i)) => Good(i)
  <2> DEFINE n == SequenceLength(s[i])
             a == After(s, i)
             c == Decoded(s, i, n)
  <2>1. ~ Stuck(s, i)
    BY <1>10, WellFormedIsWalked
  <2>2. i \in 1 .. N /\ i # N
    BY <1>1
  <2>3. a \in i + 1 .. N /\ a - 1 \in R
    BY <1>10, <2>1, <2>2, AfterIs, BoundaryStep, Zenon
  <2>4. n \in 1 .. 4 /\ i + n <= N /\ a = i + n /\ w(i).cp = c /\ Sound(c, n)
    BY <2>1, NextGoesOn, Zenon
  <2>5. w(i).err = Ok /\ w(i).it = a
    BY <2>1, <2>2, NextIs, Zenon
  <2>6. f[i] = Put(<<c>>, f[a])
    BY <1>4, <2>2, <2>4, <2>5, Zenon
  <2>7. UncheckedLength(t[i]) = n
    <3>1. t[i] = s[i] /\ s[i] \in Octet
      BY <1>5
    <3> QED BY <2>4, <3>1, UncheckedLengthIs, Zenon
  <2>8. v(i).cp = c /\ v(i).it = a
    <3>1. v(i).cp = Decoded(t, i, n) /\ v(i).it = i + n
      BY <2>7 DEF UncheckedNext
    <3>2. i \in Nat /\ N \in Int /\ i .. N - 1 \subseteq 1 .. L
      BY <1>1
    <3>3. \A k \in i .. N - 1 : t[k] = s[k]
      BY <1>5, <3>2
    <3> HIDE DEF n
    <3>4. Decoded(t, i, n) = Decoded(s, i, n)
      BY <2>4, <3>2, <3>3, SameDecoded
    <3> QED BY <2>4, <3>1, <3>4
  <2>9. c # 0
    <3>1. CASE n = 1
      <4>1. Decoded(s, i, 1) = s[i]
        BY DEF Decoded
      <4> HIDE DEF n
      <4> QED BY <1>6, <3>1, <4>1
    <3>2. CASE n # 1
      <4>1. IsOverlongSequence(0, n)
        BY <3>2 DEF IsOverlongSequence
      <4> HIDE DEF c, n
      <4> QED BY <2>4, <4>1, Zenon DEF Sound
    <3> QED BY <3>1, <3>2
  <2>10. g[i] = IF IsValidChar(c) THEN g[a] ELSE {FALSE}
    <3>1. ~ (i > N) /\ ~ (i + n > N + 1)
      <4> HIDE DEF n
      <4> QED BY <1>1, <2>4
    <3> HIDE DEF N, v, n, c, a
    <3> QED BY <1>7, <2>2, <2>7, <2>8, <2>9, <3>1, Zenon
  <2>11. ASSUME Good(a) PROVE Good(i)
    <3> DEFINE r == f[a].out
               q == <<c>> \o r
    <3>1. f[a] \in [out : Seq(P), err : {Ok}] /\ g[a] = {AllValid(r)}
      BY <2>11, Zenon
    <3>7. r \in Seq(P)
      BY <3>1, Zenon
    <3>2. c \in P
      BY <2>2, <2>4, Zenon
    <3> HIDE DEF P
    <3>3. q \in Seq(P) /\ (AllValid(q) <=> IsValidChar(c) /\ AllValid(r))
      <4> HIDE DEF c, r
      <4> QED BY <3>2, <3>7, AllBehind, Zenon DEF AllValid
    <3>4. f[i].out = q /\ f[i] \in [out : Seq(P), err : {Ok}]
      <4>1. f[i] = [f[a] EXCEPT !.out = q]
        BY <2>6, Zenon DEF Put
      <4> HIDE DEF q, a, c
      <4> QED BY <3>1, <3>3, <4>1
    <3>5. g[i] = {AllValid(q)}
      <4>1. CASE IsValidChar(c)
        <5>1. AllValid(q) = AllValid(r)
          BY <3>3, <4>1, Zenon DEF AllValid
        <5> HIDE DEF q, r, c, a
        <5> QED BY <2>10, <3>1, <4>1, <5>1, Zenon
      <4>2. CASE ~ IsValidChar(c)
        <5>1. AllValid(q) = FALSE
          BY <3>3, <4>2, Zenon DEF AllValid
        <5> HIDE DEF q, r, c, a
        <5> QED BY <2>10, <4>2, <5>1, Zenon
      <4> QED BY <4>1, <4>2
    <3> HIDE DEF q
    <3> QED BY <3>3, <3>4, <3>5, Zenon
  <2> HIDE DEF Good
  <2> QED BY <2>11, Zenon
<1> DEFINE G == {i \in 1 .. N : Good(i)}
<1>11. \A i \in 1 .. N : i - 1 \in R => i \in G
  <2> HIDE DEF Good
  <2>1. N \in G
    BY <1>1, <1>9
  <2>2. \A i \in 1 .. L : i - 1 \in R /\ After(s, i) \in G => i \in G
    BY <1>1, <1>10
  <2> HIDE DEF G
  <2> QED BY <2>1, <2>2, AlongBoundaries, Zenon
<1> HIDE DEF Good
<1>12. 1 \in 1 .. N /\ 1 - 1 \in R
  BY <1>1, <1>8
<1>13. Good(1)
  BY <1>11, <1>12
<1> QED BY <1>2, <1>3, <1>13, Zenon DEF Good

(* gxc.account takes a nickname of any length, without NUL, exactly if all  *)
(* of its code points are allowed; its verdict never depends on what lies   *)
(* behind the string.                                                       *)
THEOREM NicknamesAreDecoded == LibrariesSpec => []NicknameIsDecoded
<1>1. LibrariesSpec => []Typing
  BY TypingHolds
<1>2. Typing => NicknameIsDecoded
  <2> SUFFICES ASSUME Typing, input.form = "octets", input.is # <<>>, WellFormed(input.is),
                      ~ Contains(input.is, 0)
               PROVE  LET points == Utf8to32(input.is).out
                      IN  NicknameVerdicts(input.is) =
                            {\A i \in DOMAIN points : IsValidChar(points[i])}
    BY Zenon DEF NicknameIsDecoded
  <2>1. input.is \in Seq(Octet)
    BY TypedIsOctets, Zenon
  <2> QED BY <2>1, NicknamesAre, Zenon DEF AllValid
<1> QED BY <1>1, <1>2, PTL

-----------------------------------------------------------------------------
(* Walks.                                                                   *)

(* The lead octet of a sequence is no trail octet, and those behind it are. *)
LEMMA LeadIs ==
  ASSUME NEW s \in Seq(Octet), NEW i \in 1 .. Len(s), ~ Stuck(s, i)
  PROVE  /\ ~ IsTrail(s[i])
         /\ \A k \in i + 1 .. After(s, i) - 1 : k \in 1 .. Len(s) /\ IsTrail(s[k])
<1> DEFINE n == SequenceLength(s[i])
           v == ValidateNext(s, i, EndOf(s))
<1>1. EndOf(s) = Len(s) + 1 /\ Len(s) \in Nat
  BY DEF EndOf
<1>2. n \in 1 .. 4 /\ i + n <= EndOf(s) /\ After(s, i) = i + n
  BY NextGoesOn, Zenon
<1>3. n \in WellFormedAt(s, i)
  BY ValidateIs, Zenon DEF Stuck
<1>4. TrailsBehind(s, i, n)
  <2>1. n \in Int
    BY <1>2
  <2> QED BY <1>3, <2>1, WellFormedAtIs, Zenon
<1>5. ~ IsTrail(s[i])
  <2> DEFINE b == s[i]
  <2>1. b \in Octet
    OBVIOUS
  <2>2. Leads(b, n)
    BY <2>1, LengthIs, Zenon
  <2> HIDE DEF b, n
  <2>3. ~ (b \in 128 .. 191)
    <3>1. n = 1 \/ n = 2 \/ n = 3 \/ n = 4
      BY <1>2
    <3>2. b \in 0 .. 127 \/ b \in 192 .. 223 \/ b \in 224 .. 239 \/ b \in 240 .. 247
      BY <2>2, <3>1, Zenon DEF Leads
    <3> QED BY <2>1, <3>2 DEF Octet
  <2>4. b \div 64 = 2 => b \in 128 .. 191
    BY <2>1 DEF Octet
  <2> QED BY <2>3, <2>4 DEF IsTrail, b
<1>6. ASSUME NEW k \in i + 1 .. After(s, i) - 1 PROVE k \in 1 .. Len(s) /\ IsTrail(s[k])
  <2> HIDE DEF n
  <2>1. k \in i + 1 .. i + n - 1 /\ k \in 1 .. Len(s)
    BY <1>1, <1>2
  <2> DEFINE x == s[k]
  <2>2. x \in 128 .. 191
    BY <1>4, <2>1, Zenon DEF TrailsBehind
  <2> HIDE DEF x
  <2>3. x \div 64 = 2
    BY <2>2
  <2> QED BY <2>1, <2>3, Zenon DEF IsTrail, x
<1> QED BY <1>5, <1>6

(* No boundary lies inside a sequence.                                      *)
LEMMA NoneBetween ==
  ASSUME NEW s \in Seq(Octet), WellFormed(s), NEW i \in 1 .. Len(s), ~ Stuck(s, i),
         NEW j \in 1 .. EndOf(s), j - 1 \in Boundaries(s), j > i
  PROVE  j >= After(s, i)
<1>1. EndOf(s) = Len(s) + 1 /\ Len(s) \in Nat /\ i \in 1 .. EndOf(s)
  BY DEF EndOf
<1>2. After(s, i) \in i + 1 .. EndOf(s)
  BY <1>1, AfterIs, Zenon
<1> SUFFICES ASSUME j < After(s, i) PROVE FALSE
  BY <1>1, <1>2
<1>3. j \in i + 1 .. After(s, i) - 1 /\ j \in 1 .. Len(s)
  BY <1>1, <1>2
<1>4. ~ Stuck(s, j)
  BY <1>3, WellFormedIsWalked, Zenon
<1>5. ~ IsTrail(s[j])
  BY <1>3, <1>4, LeadIs, Zenon
<1> QED BY <1>3, <1>5, LeadIs, Zenon

(* The least of a set, and the greatest, by what makes it so.               *)
LEMMA LeastIs ==
  ASSUME NEW S, S \subseteq Int, NEW m \in S, \A x \in S : m <= x
  PROVE  Min(S) = m
<1> DEFINE k == Min(S)
<1>1. k \in S /\ \A y \in S : k =< y
  BY Zenon DEF Min
<1> HIDE DEF k
<1>2. k = m
  BY <1>1
<1> QED BY <1>2 DEF k

LEMMA GreatestIs ==
  ASSUME NEW S, S \subseteq Int, NEW m \in S, \A x \in S : m >= x
  PROVE  Max(S) = m
<1> DEFINE k == Max(S)
<1>1. k \in S /\ \A y \in S : k >= y
  BY Zenon DEF Max
<1> HIDE DEF k
<1>2. k = m
  BY <1>1
<1> QED BY <1>2 DEF k

(* prior and the step back of the unchecked half find the lead octet of the *)
(* sequence that ends here.                                                 *)
LEMMA BackIs ==
  ASSUME NEW s \in Seq(Octet), NEW i \in 1 .. Len(s), ~ Stuck(s, i),
         NEW a, a = After(s, i)
  PROVE  /\ Prior(s, a) = [Next(s, i, EndOf(s)) EXCEPT !.it = i]
         /\ UncheckedPrior(s, a) = i
         /\ UncheckedIncrement(s, i) = a
<1> DEFINE n == SequenceLength(s[i])
           J == {j \in 1 .. a - 1 : ~ IsTrail(s[j])}
<1>1. EndOf(s) = Len(s) + 1 /\ Len(s) \in Nat
  BY DEF EndOf
<1>2. n \in 1 .. 4 /\ i + n <= EndOf(s) /\ a = i + n
  BY NextGoesOn, Zenon
<1>3. ~ IsTrail(s[i]) /\ \A k \in i + 1 .. a - 1 : IsTrail(s[k])
  BY LeadIs, Zenon
<1> HIDE DEF n
<1>4. /\ i \in 1 .. a - 1 /\ 1 .. a - 1 \subseteq Nat
      /\ \A j \in 1 .. a - 1 : j > i => j \in i + 1 .. a - 1
  BY <1>1, <1>2
<1>5. J \subseteq Nat /\ i \in J /\ \A j \in J : i >= j
  <2>1. J \subseteq 1 .. a - 1 /\ i \in J
    BY <1>3, <1>4
  <2>2. \A j \in J : ~ (j > i)
    BY <1>3, <1>4
  <2> HIDE DEF J
  <2> QED BY <1>4, <2>1, <2>2
<1>6. Max(J) = i /\ Max({0} \cup J) = i
  <2> HIDE DEF J
  <2>1. J \subseteq Int /\ \A j \in J : i >= j
    BY <1>5
  <2> DEFINE K == {0} \cup J
  <2>2. K \subseteq Int /\ i \in K /\ \A j \in K : i >= j
    BY <1>5
  <2> HIDE DEF K
  <2>3. Max(K) = i
    BY <2>2, GreatestIs, Zenon
  <2> QED BY <1>5, <2>1, <2>3, GreatestIs, Zenon DEF K
<1>7. UncheckedPrior(s, a) = i
  BY <1>6, Zenon DEF UncheckedPrior
<1>8. UncheckedIncrement(s, i) = a
  BY <1>2, Zenon DEF UncheckedIncrement, n
<1>9. Prior(s, a) = [Next(s, i, a) EXCEPT !.it = i]
  <2>1. a # 1 /\ i # 0
    BY <1>2
  <2> HIDE DEF J
  <2>2. Prior(s, a) = LET lead == Max({0} \cup J)
                      IN  IF a = 1 THEN [err |-> Room, cp |-> 0, it |-> a]
                          ELSE IF lead = 0 THEN [err |-> "invalid_utf8", cp |-> 0, it |-> 1]
                          ELSE [Next(s, lead, a) EXCEPT !.it = lead]
    BY Zenon DEF Prior, J
  <2> QED BY <1>6, <2>1, <2>2, Zenon
<1>10. Next(s, i, a) = Next(s, i, EndOf(s))
  <2>1. GetSequence(s, i, a, n) = GetSequence(s, i, EndOf(s), n)
    <3>1. {k \in i + 1 .. i + n - 1 : k >= a \/ ~ IsTrail(s[k])} = {}
      BY <1>2, <1>3
    <3>2. {k \in i + 1 .. i + n - 1 : k >= EndOf(s) \/ ~ IsTrail(s[k])} = {}
      BY <1>1, <1>2, <1>3
    <3>3. GetSequence(s, i, a, n) = Ok
      BY <3>1, Zenon DEF GetSequence
    <3>4. GetSequence(s, i, EndOf(s), n) = Ok
      BY <3>2, Zenon DEF GetSequence
    <3> QED BY <3>3, <3>4
  <2>2. i # a /\ i # EndOf(s)
    BY <1>1, <1>2
  <2>3. ValidateNext(s, i, a) = ValidateNext(s, i, EndOf(s))
    BY <2>1, <2>2, Zenon DEF ValidateNext, n
  <2> QED BY <2>3, Zenon DEF Next
<1> QED BY <1>7, <1>8, <1>9, <1>10

(* The boundaries of a text, as positions, and those beyond one.            *)
Stops(s) == {i + 1 : i \in Boundaries(s)}
Ahead(s, i) == {j \in Stops(s) : j > i}

LEMMA StopsAre ==
  ASSUME NEW s \in Seq(Octet)
  PROVE  /\ Stops(s) \subseteq 1 .. EndOf(s) /\ 1 \in Stops(s)
         /\ \A i \in Int : i \in Stops(s) <=> i - 1 \in Boundaries(s)
<1> DEFINE R == Boundaries(s)
           L == Len(s)
<1>1. EndOf(s) = L + 1 /\ L \in Nat
  BY DEF EndOf
<1>2. R \subseteq 0 .. L /\ 0 \in R
  <2>1. Reached(R, s, 0) /\ 0 \in 0 .. L
    BY <1>1 DEF Reached
  <2> QED BY <2>1, BoundariesIs
<1>3. Stops(s) = {i + 1 : i \in R}
  BY DEF Stops
<1> HIDE DEF R, L
<1>4. Stops(s) \subseteq 1 .. EndOf(s) /\ 1 \in Stops(s)
  BY <1>1, <1>2, <1>3
<1>5. ASSUME NEW i \in Int PROVE i \in Stops(s) <=> i - 1 \in R
  <2>1. ASSUME i \in Stops(s) PROVE i - 1 \in R
    <3>1. PICK j \in R : i = j + 1
      BY <1>3, <2>1
    <3>2. i - 1 = j
      BY <1>2, <3>1
    <3> QED BY <3>2
  <2>2. ASSUME i - 1 \in R PROVE i \in Stops(s)
    <3>1. i = (i - 1) + 1
      OBVIOUS
    <3> QED BY <1>3, <2>2, <3>1
  <2> QED BY <2>1, <2>2
<1> QED BY <1>4, <1>5 DEF R

(* One step forward leaves one boundary less ahead.                         *)
LEMMA OneLessAhead ==
  ASSUME NEW s \in Seq(Octet), WellFormed(s), NEW i \in 1 .. Len(s), i \in Stops(s)
  PROVE  /\ After(s, i) \in i + 1 .. EndOf(s) /\ After(s, i) \in Stops(s)
         /\ Min(Ahead(s, i)) = After(s, i)
         /\ Cardinality(Ahead(s, i)) = Cardinality(Ahead(s, After(s, i))) + 1
         /\ Cardinality(Ahead(s, After(s, i))) \in Nat
<1> DEFINE a == After(s, i)
<1>1. EndOf(s) = Len(s) + 1 /\ Len(s) \in Nat /\ i \in 1 .. EndOf(s) /\ i \in Int
  BY DEF EndOf
<1>2. i - 1 \in Boundaries(s)
  BY <1>1, StopsAre, Zenon
<1>3. ~ Stuck(s, i)
  BY <1>2, WellFormedIsWalked, Zenon
<1>4. a \in i + 1 .. EndOf(s)
  BY <1>1, <1>3, AfterIs, Zenon
<1>5. a \in Stops(s)
  <2>1. a - 1 \in Boundaries(s)
    BY <1>1, <1>2, <1>3, BoundaryStep, Zenon
  <2> HIDE DEF a
  <2>2. a \in Int
    BY <1>4
  <2> QED BY <2>1, <2>2, StopsAre, Zenon
<1>6. ASSUME NEW j \in Stops(s), j > i PROVE j >= a
  <2>1. j \in 1 .. EndOf(s) /\ j \in Int
    BY <1>1, StopsAre
  <2>2. j - 1 \in Boundaries(s)
    BY <2>1, StopsAre, Zenon
  <2> QED BY <1>3, <1>6, <2>1, <2>2, NoneBetween, Zenon
<1>7. Stops(s) \subseteq 1 .. EndOf(s)
  BY StopsAre, Zenon
<1> HIDE DEF a
<1>8. Ahead(s, i) = Ahead(s, a) \cup {a} /\ a \notin Ahead(s, a)
  <2>1. a > i /\ ~ (a > a)
    BY <1>1, <1>4
  <2>2. ASSUME NEW j \in Stops(s) PROVE j > i <=> j > a \/ j = a
    <3>1. j \in Int
      BY <1>1, <1>7
    <3> QED BY <1>1, <1>4, <1>6, <3>1
  <2> QED BY <1>5, <2>1, <2>2 DEF Ahead
<1>9. Min(Ahead(s, i)) = a
  <2> DEFINE A == Ahead(s, i)
  <2>1. A \subseteq Int /\ \A x \in A : a <= x
    <3>1. \A x \in A : x \in Int /\ x >= a
      BY <1>1, <1>6, <1>7 DEF Ahead
    <3> HIDE DEF A
    <3> QED BY <1>4, <3>1
  <2>2. a \in A
    BY <1>8
  <2> HIDE DEF A
  <2>3. Min(A) = a
    BY <2>1, <2>2, LeastIs, Zenon
  <2> QED BY <2>3 DEF A
<1>10. IsFiniteSet(Ahead(s, a))
  <2>1. IsFiniteSet(1 .. EndOf(s))
    BY <1>1, FS_Interval
  <2>2. Ahead(s, a) \subseteq 1 .. EndOf(s)
    BY <1>7 DEF Ahead
  <2> QED BY <2>1, <2>2, FS_Subset, Zenon
<1>11. Cardinality(Ahead(s, a) \cup {a}) = Cardinality(Ahead(s, a)) + 1
  BY <1>8, <1>10, FS_AddElement
<1>12. Cardinality(Ahead(s, a)) \in Nat
  BY <1>10, FS_CardinalityType, Zenon
<1> QED BY <1>4, <1>5, <1>8, <1>9, <1>11, <1>12 DEF a

(* Nothing lies ahead of the end, and of nothing else.                      *)
LEMMA NothingAhead ==
  ASSUME NEW s \in Seq(Octet), WellFormed(s)
  PROVE  /\ EndOf(s) \in Stops(s)
         /\ Cardinality(Ahead(s, EndOf(s))) = 0
         /\ Cardinality(Ahead(s, 1)) = Cardinality(Stops(s)) - 1
         /\ Cardinality(Ahead(s, 1)) \in Nat
<1>1. EndOf(s) = Len(s) + 1 /\ Len(s) \in Nat
  BY DEF EndOf
<1>2. Stops(s) \subseteq 1 .. EndOf(s) /\ 1 \in Stops(s)
  BY StopsAre, Zenon
<1>3. EndOf(s) \in Stops(s)
  <2>1. EndOf(s) - 1 = Len(s) /\ EndOf(s) \in Int
    BY <1>1
  <2>2. EndOf(s) - 1 \in Boundaries(s)
    BY <2>1, Zenon DEF WellFormed
  <2> QED BY <2>1, <2>2, StopsAre, Zenon
<1>4. Ahead(s, EndOf(s)) = {}
  BY <1>1, <1>2 DEF Ahead
<1>5. Stops(s) = Ahead(s, 1) \cup {1} /\ 1 \notin Ahead(s, 1)
  BY <1>1, <1>2 DEF Ahead
<1>6. IsFiniteSet(Ahead(s, 1))
  <2>1. IsFiniteSet(1 .. EndOf(s))
    BY <1>1, FS_Interval
  <2>2. Ahead(s, 1) \subseteq 1 .. EndOf(s)
    BY <1>2 DEF Ahead
  <2> QED BY <2>1, <2>2, FS_Subset, Zenon
<1>7. Cardinality(Ahead(s, 1) \cup {1}) = Cardinality(Ahead(s, 1)) + 1
  BY <1>5, <1>6, FS_AddElement
<1>8. Cardinality(Ahead(s, 1)) \in Nat
  BY <1>6, FS_CardinalityType, Zenon
<1>9. Cardinality({}) = 0
  BY FS_EmptySet
<1> QED BY <1>3, <1>4, <1>5, <1>7, <1>8, <1>9

(* distance counts the boundaries.                                          *)
LEMMA DistanceIs ==
  ASSUME NEW s \in Seq(Octet), WellFormed(s)
  PROVE  Distance(s) = [err |-> Ok, steps |-> Cardinality(Stops(s)) - 1]
<1> DEFINE N == EndOf(s)
           w(i) == Next(s, i, N)
           P == {w(i).cp : i \in 1 .. N}
<1>1. N = Len(s) + 1 /\ Len(s) \in Nat
  BY DEF EndOf
<1>2. PICK f : IsPointing(f, s) /\ Utf8to32(s) = f[1]
  BY PointsAre, Zenon
<1>3. ASSUME NEW i \in 1 .. N
      PROVE  f[i] = IF i = N THEN Nothing
                    ELSE IF w(i).err = Ok THEN Put(<<w(i).cp>>, f[w(i).it]) ELSE Thrown(w(i).err)
  BY <1>2, Zenon DEF IsPointing
<1> DEFINE G == {i \in 1 .. N : /\ f[i] \in [out : Seq(P), err : {Ok}]
                                /\ Len(f[i].out) = Cardinality(Ahead(s, i))}
<1>4. N \in G
  <2>1. N \in 1 .. N
    BY <1>1
  <2>2. f[N] = Nothing
    <3> HIDE DEF N, w
    <3> QED BY <1>3, <2>1, Zenon
  <2>3. <<>> \in Seq(P) /\ Len(<<>>) = 0
    <3> HIDE DEF P
    <3> QED OBVIOUS
  <2>4. Cardinality(Ahead(s, N)) = 0
    BY NothingAhead, Zenon
  <2> HIDE DEF P, N
  <2>5. f[N].out = <<>> /\ f[N] \in [out : Seq(P), err : {Ok}]
    BY <2>2, <2>3 DEF Nothing
  <2> QED BY <2>1, <2>3, <2>4, <2>5
<1>5. ASSUME NEW i \in 1 .. Len(s), i - 1 \in Boundaries(s), After(s, i) \in G
      PROVE  i \in G
  <2> DEFINE a == After(s, i)
             r == f[a].out
             q == <<w(i).cp>> \o r
  <2>1. i \in 1 .. N /\ i # N /\ i \in Int
    BY <1>1
  <2>2. i \in Stops(s) /\ ~ Stuck(s, i)
    BY <1>5, <2>1, StopsAre, WellFormedIsWalked, Zenon
  <2>3. w(i).err = Ok /\ w(i).it = a
    BY <2>1, <2>2, NextIs, Zenon
  <2>4. /\ Cardinality(Ahead(s, i)) = Cardinality(Ahead(s, a)) + 1
        /\ Cardinality(Ahead(s, a)) \in Nat
    BY <2>2, OneLessAhead, Zenon
  <2>5. f[i] = Put(<<w(i).cp>>, f[a])
    <3> HIDE DEF a
    <3> QED BY <1>3, <2>1, <2>3, Zenon
  <2>6. f[a] \in [out : Seq(P), err : {Ok}] /\ Len(r) = Cardinality(Ahead(s, a))
    BY <1>5, Zenon
  <2>7. w(i).cp \in P
    BY <2>1, Zenon
  <2>8. q \in Seq(P) /\ Len(q) = Len(r) + 1
    <3>1. r \in Seq(P)
      BY <2>6, Zenon
    <3> DEFINE c == w(i).cp
    <3>2. c \in P
      BY <2>7
    <3> HIDE DEF P, r, c
    <3>3. <<c>> \o r \in Seq(P) /\ Len(<<c>> \o r) = Len(r) + 1
      BY <3>1, <3>2
    <3> QED BY <3>3 DEF c
  <2>9. f[i].out = q /\ f[i] \in [out : Seq(P), err : {Ok}]
    <3>1. f[i] = [f[a] EXCEPT !.out = q]
      BY <2>5, Zenon DEF Put
    <3> HIDE DEF q, a, P
    <3> QED BY <2>6, <2>8, <3>1
  <2> HIDE DEF q, P, r, a
  <2>10. Len(f[i].out) = Cardinality(Ahead(s, i))
    BY <2>4, <2>6, <2>8, <2>9
  <2> QED BY <2>1, <2>9, <2>10, Zenon
<1> HIDE DEF G
<1>6. 1 \in G
  <2>1. \A i \in 1 .. N : i - 1 \in Boundaries(s) => i \in G
    BY <1>4, <1>5, AlongBoundaries, Zenon
  <2>2. 1 \in 1 .. N /\ 1 \in Int
    BY <1>1
  <2>3. 1 - 1 \in Boundaries(s)
    BY <2>2, StopsAre, Zenon
  <2> QED BY <2>1, <2>2, <2>3, Zenon
<1> DEFINE r == Utf8to32(s)
<1>7. r.err = Ok /\ Len(r.out) = Cardinality(Ahead(s, 1))
  <2>1. r = f[1]
    BY <1>2
  <2> HIDE DEF r
  <2>2. f[1] \in [out : Seq(P), err : {Ok}] /\ Len(f[1].out) = Cardinality(Ahead(s, 1))
    BY <1>6, Zenon DEF G
  <2> HIDE DEF P
  <2> QED BY <2>1, <2>2
<1>8. Cardinality(Ahead(s, 1)) = Cardinality(Stops(s)) - 1
  BY NothingAhead, Zenon
<1>9. Distance(s) = [err |-> r.err, steps |-> Len(r.out)]
  BY Zenon DEF Distance
<1> QED BY <1>7, <1>8, <1>9, Zenon

LEMMA StuckStays ==
  ASSUME NEW s \in Seq(Octet), NEW i \in 1 .. EndOf(s), Stuck(s, i)
  PROVE  After(s, i) = i
<1> DEFINE v == ValidateNext(s, i, EndOf(s))
<1>1. CASE i = EndOf(s)
  <2>1. v = [err |-> Room, cp |-> 0, it |-> i]
    BY <1>1, Zenon DEF ValidateNext
  <2> HIDE DEF v
  <2>2. v.it = i
    BY <2>1
  <2> QED BY <2>2, Zenon DEF After, v
<1>2. CASE i # EndOf(s)
  <2> DEFINE n   == SequenceLength(s[i])
             got == IF n = 0 THEN "INVALID_LEAD" ELSE GetSequence(s, i, EndOf(s), n)
             cp  == Decoded(s, i, n)
             err == IF got # Ok THEN got
                    ELSE IF ~ IsCodePointValid(cp) THEN "INVALID_CODE_POINT"
                    ELSE IF IsOverlongSequence(cp, n) THEN "OVERLONG_SEQUENCE"
                    ELSE Ok
  <2>1. v = IF err = Ok THEN [err |-> Ok, cp |-> cp, it |-> i + n]
            ELSE [err |-> err, cp |-> 0, it |-> i]
    BY <1>2, Zenon DEF ValidateNext
  <2>2. v.err # Ok
    BY <1>2, Zenon DEF Stuck
  <2> HIDE DEF err, v, cp
  <2>3. v.it = i
    BY <2>1, <2>2
  <2> QED BY <2>3, Zenon DEF After, v
<1> QED BY <1>1, <1>2

(* The recursion of advance is sound.                                       *)
Stepped(x, s) == [err |-> Next(s, x.it, EndOf(s)).err, it |-> Next(s, x.it, EndOf(s)).it]
IsAdvancing(f, s, i, n) ==
  f = [k \in 0 .. n |-> IF k = 0 THEN [err |-> Ok, it |-> i]
                        ELSE IF f[k - 1].err # Ok THEN f[k - 1] ELSE Stepped(f[k - 1], s)]

LEMMA AdvancingExists ==
  ASSUME NEW s \in Seq(Octet), NEW i \in 1 .. EndOf(s), NEW n \in Nat
  PROVE  \E f : IsAdvancing(f, s, i, n)
<1> DEFINE N == EndOf(s)
           E == {Ok} \cup {Next(s, j, N).err : j \in 1 .. N}
           V == [err : E, it : 1 .. N]
           M == n + 1
           start == [err |-> Ok, it |-> i]
           step == [x \in V |-> IF x.err # Ok THEN x ELSE Stepped(x, s)]
           stop == {M}
           last == [j \in 1 .. M |-> start]
           next == [j \in 1 .. M |-> j + 1]
           add == [j \in 1 .. M |-> step]
<1>1. M \in Nat /\ M \in 1 .. M
  OBVIOUS
<1>2. ASSUME NEW x \in V PROVE Stepped(x, s) \in V
  <2>1. x.it \in 1 .. N
    OBVIOUS
  <2>2. Next(s, x.it, N).it \in 1 .. N
    <3> DEFINE j == x.it
    <3>1. j \in 1 .. N
      BY <2>1
    <3>2. N = Len(s) + 1 /\ Len(s) \in Nat
      BY DEF EndOf
    <3> HIDE DEF j
    <3>3. After(s, j) \in 1 .. N
      <4>1. CASE Stuck(s, j)
        BY <3>1, <4>1, StuckStays, Zenon
      <4>2. CASE ~ Stuck(s, j)
        <5>1. After(s, j) \in j + 1 .. N
          BY <3>1, <4>2, AfterIs, Zenon
        <5> HIDE DEF N
        <5> QED BY <3>1, <3>2, <5>1
      <4> QED BY <4>1, <4>2
    <3>4. Next(s, j, N).it = After(s, j)
      BY <3>1, NextIs, Zenon
    <3> QED BY <3>3, <3>4 DEF j
  <2>3. Next(s, x.it, N).err \in E
    BY <2>1, Zenon
  <2> HIDE DEF E
  <2>4. Stepped(x, s) = [err |-> Next(s, x.it, N).err, it |-> Next(s, x.it, N).it]
    BY Zenon DEF Stepped
  <2> DEFINE e == Next(s, x.it, N).err
             t == Next(s, x.it, N).it
  <2>5. e \in E /\ t \in 1 .. N
    BY <2>2, <2>3
  <2> HIDE DEF e, t, N
  <2>6. [err |-> e, it |-> t] \in V
    BY <2>5
  <2> QED BY <2>4, <2>6 DEF e, t
<1>3. start \in V
  <2>1. Ok \in E
    OBVIOUS
  <2> HIDE DEF E, N
  <2> QED BY <2>1 DEF N
<1>4. step \in [V -> V]
  <2> HIDE DEF V
  <2> QED BY <1>2
<1> HIDE DEF V, start, step
<1>5. \A j \in 1 .. M : j \in stop => last[j] \in V
  BY <1>3
<1>6. \A j \in 1 .. M : j \notin stop => next[j] \in j + 1 .. M /\ add[j] \in [V -> V]
  BY <1>4
<1>7. PICK g \in [1 .. M -> V] : \A j \in 1 .. M : Recurs(g, stop, last, next, add, j)
  <2> HIDE DEF M, stop, last, next, add
  <2> QED BY <1>1, <1>5, <1>6, RecursionExists, Zenon
<1> DEFINE f == [k \in 0 .. n |-> g[M - k]]
<1>8. ASSUME NEW k \in 0 .. n
      PROVE  f[k] = IF k = 0 THEN start
                    ELSE IF f[k - 1].err # Ok THEN f[k - 1] ELSE Stepped(f[k - 1], s)
  <2> DEFINE j == M - k
  <2>1. j \in 1 .. M /\ (j \in stop <=> k = 0)
    OBVIOUS
  <2>2. f[k] = g[j] /\ last[j] = start /\ add[j] = step /\ next[j] = j + 1
    OBVIOUS
  <2>3. k # 0 => f[k - 1] = g[j + 1] /\ j + 1 \in 1 .. M
    OBVIOUS
  <2>4. g[j] = IF j \in stop THEN last[j] ELSE add[j][g[next[j]]]
    BY <1>7, <2>1, Zenon DEF Recurs
  <2> HIDE DEF f, j, stop, last, next, add, M
  <2>5. CASE k = 0
    BY <2>1, <2>2, <2>4, <2>5, Zenon
  <2>6. CASE k # 0
    <3>1. f[k] = step[f[k - 1]]
      BY <2>1, <2>2, <2>3, <2>4, <2>6, Zenon
    <3>2. f[k - 1] \in V
      BY <1>7, <2>3, <2>6, Zenon
    <3> QED BY <2>6, <3>1, <3>2, Zenon DEF step
  <2> QED BY <2>5, <2>6
<1>9. IsAdvancing(f, s, i, n)
  <2> DEFINE F(k) == IF k = 0 THEN start
                     ELSE IF f[k - 1].err # Ok THEN f[k - 1] ELSE Stepped(f[k - 1], s)
  <2>1. f = [k \in 0 .. n |-> f[k]]
    OBVIOUS
  <2>2. \A k \in 0 .. n : f[k] = F(k)
    BY <1>8, Zenon
  <2> HIDE DEF f
  <2>3. f = [k \in 0 .. n |-> F(k)]
    <3> HIDE DEF F
    <3> QED BY <2>1, <2>2, Zenon
  <2> QED BY <2>3, Zenon DEF IsAdvancing, start
<1> QED BY <1>9, Zenon

(* As many steps as there are boundaries ahead lead to the end.             *)
LEMMA AdvanceIs ==
  ASSUME NEW s \in Seq(Octet), WellFormed(s)
  PROVE  Advance(s, 1, Cardinality(Stops(s)) - 1, EndOf(s)).it = EndOf(s)
<1> DEFINE N == EndOf(s)
           n == Cardinality(Stops(s)) - 1
           f == CHOOSE f : IsAdvancing(f, s, 1, n)
<1>1. N = Len(s) + 1 /\ Len(s) \in Nat /\ 1 \in 1 .. N
  BY DEF EndOf
<1>2. n \in Nat /\ Cardinality(Ahead(s, 1)) = n
  BY NothingAhead, Zenon
<1>3. IsAdvancing(f, s, 1, n)
  <2> HIDE DEF n
  <2> QED BY <1>1, <1>2, AdvancingExists, Zenon
<1>4. Advance(s, 1, n, N) = f[n]
  BY Zenon DEF Advance, IsAdvancing, Stepped
<1> HIDE DEF n, f
<1>5. ASSUME NEW k \in 0 .. n
      PROVE  f[k] = IF k = 0 THEN [err |-> Ok, it |-> 1]
                    ELSE IF f[k - 1].err # Ok THEN f[k - 1] ELSE Stepped(f[k - 1], s)
  BY <1>3, Zenon DEF IsAdvancing
<1> DEFINE Good(k) == /\ f[k].err = Ok /\ f[k].it \in Stops(s)
                      /\ Cardinality(Ahead(s, f[k].it)) = n - k
           B == {k \in 0 .. n : ~ Good(k)}
<1>6. B = {}
  <2> SUFFICES ASSUME B # {} PROVE FALSE
    OBVIOUS
  <2>1. PICK k \in B : \A j \in B : k <= j
    <3> B \subseteq Nat
      OBVIOUS
    <3> HIDE DEF B
    <3> QED BY LeastNatural
  <2>2. k \in 0 .. n /\ ~ Good(k)
    OBVIOUS
  <2>3. CASE k = 0
    <3>1. f[0] = [err |-> Ok, it |-> 1]
      BY <1>5, <2>2, <2>3
    <3>2. f[0].err = Ok /\ f[0].it = 1
      BY <3>1
    <3>3. 1 \in Stops(s) /\ n - 0 = n
      BY <1>2, StopsAre
    <3>4. Good(0)
      BY <1>2, <3>2, <3>3, Zenon
    <3> HIDE DEF Good
    <3> QED BY <2>2, <2>3, <3>4
  <2>4. CASE k # 0
    <3> DEFINE h == k - 1
               i == f[h].it
               a == After(s, i)
    <3>1. h \in 0 .. n /\ ~ (k <= h) /\ n - h > 0 /\ n - k = (n - h) - 1 /\ n - h \in Int
      BY <1>2, <2>2, <2>4
    <3>2. Good(h)
      <4> HIDE DEF Good, h
      <4> QED BY <2>1, <3>1
    <3>3. f[h].err = Ok /\ i \in Stops(s) /\ Cardinality(Ahead(s, i)) = n - h
      BY <3>2, Zenon
    <3>4. i \in 1 .. Len(s)
      <4>1. i \in 1 .. N
        BY <3>3, StopsAre, Zenon
      <4>2. i # N
        <5>1. Cardinality(Ahead(s, N)) = 0
          BY NothingAhead, Zenon
        <5> HIDE DEF h, i, N
        <5> QED BY <3>1, <3>3, <5>1
      <4> HIDE DEF i, N
      <4> QED BY <1>1, <4>1, <4>2
    <3>5. /\ a \in Stops(s) /\ Cardinality(Ahead(s, i)) = Cardinality(Ahead(s, a)) + 1
          /\ Cardinality(Ahead(s, a)) \in Nat
      BY <3>3, <3>4, OneLessAhead, Zenon
    <3>6. Next(s, i, N).err = Ok /\ Next(s, i, N).it = a
      <4>1. i \in 1 .. N /\ i \in Int
        BY <1>1, <3>4
      <4>2. i - 1 \in Boundaries(s)
        BY <3>3, <4>1, StopsAre, Zenon
      <4>3. ~ Stuck(s, i)
        BY <3>4, <4>2, WellFormedIsWalked, Zenon
      <4> QED BY <4>1, <4>3, NextIs, Zenon
    <3>7. f[k] = Stepped(f[h], s)
      BY <1>5, <2>2, <2>4, <3>3, Zenon
    <3>8. f[k].err = Ok /\ f[k].it = a
      <4>1. f[k] = [err |-> Next(s, i, N).err, it |-> Next(s, i, N).it]
        BY <3>7, Zenon DEF Stepped
      <4> HIDE DEF i, a, N
      <4>2. f[k] = [err |-> Ok, it |-> a]
        BY <3>6, <4>1
      <4> QED BY <4>2
    <3> HIDE DEF h, i, a
    <3>9. Cardinality(Ahead(s, a)) = n - k
      BY <3>1, <3>3, <3>5
    <3>10. Good(k)
      BY <3>5, <3>8, <3>9
    <3> QED BY <2>2, <3>10
  <2> QED BY <2>3, <2>4
<1>7. Good(n)
  <2>1. n \in 0 .. n
    BY <1>2
  <2> HIDE DEF Good
  <2> QED BY <1>6, <2>1
<1> DEFINE i == f[n].it
<1>8. i \in Stops(s) /\ Cardinality(Ahead(s, i)) = 0
  <2>1. n - n = 0
    BY <1>2
  <2> QED BY <1>7, <2>1, Zenon
<1> HIDE DEF i
<1>9. i = N
  <2>1. i \in 1 .. N
    BY <1>8, StopsAre, Zenon
  <2> SUFFICES ASSUME i # N PROVE FALSE
    OBVIOUS
  <2>2. i \in 1 .. Len(s)
    BY <1>1, <2>1
  <2>3. /\ Cardinality(Ahead(s, i)) = Cardinality(Ahead(s, After(s, i))) + 1
        /\ Cardinality(Ahead(s, After(s, i))) \in Nat
    BY <1>8, <2>2, OneLessAhead, Zenon
  <2> QED BY <1>8, <2>3
<1> QED BY <1>4, <1>9, Zenon DEF i, n

(* Walking over a well-formed text of any length, forward and back, checked *)
(* and unchecked, stops at the same places, with the same code points; the  *)
(* number of steps is the distance.                                         *)
THEOREM WalksGoBack == LibrariesSpec => []WalksAgree
<1>1. LibrariesSpec => []Typing
  BY TypingHolds
<1>2. Typing => WalksAgree
  <2> SUFFICES ASSUME Typing, input.form = "octets", WellFormed(input.is)
               PROVE  LET s == input.is
                          stops == {i + 1 : i \in Boundaries(s)}
                      IN  /\ Distance(s) = [err |-> Ok, steps |-> Cardinality(stops) - 1]
                          /\ Advance(s, 1, Cardinality(stops) - 1, EndOf(s)).it = EndOf(s)
                          /\ \A i \in stops \ {EndOf(s)} :
                               LET v == Next(s, i, EndOf(s))
                               IN  /\ v.it = Min({j \in stops : j > i})
                                   /\ Prior(s, v.it) = [v EXCEPT !.it = i]
                                   /\ UncheckedPrior(s, v.it) = i
                                   /\ UncheckedIncrement(s, i) = v.it
    BY Zenon DEF WalksAgree
  <2> DEFINE s == input.is
  <2>1. s \in Seq(Octet) /\ WellFormed(s)
    BY TypedIsOctets, Zenon
  <2> HIDE DEF s
  <2>2. EndOf(s) = Len(s) + 1 /\ Len(s) \in Nat
    BY <2>1 DEF EndOf
  <2>3. Distance(s) = [err |-> Ok, steps |-> Cardinality(Stops(s)) - 1]
    BY <2>1, DistanceIs, Zenon
  <2>4. Advance(s, 1, Cardinality(Stops(s)) - 1, EndOf(s)).it = EndOf(s)
    BY <2>1, AdvanceIs, Zenon
  <2>5. ASSUME NEW i \in Stops(s) \ {EndOf(s)}, NEW v, v = Next(s, i, EndOf(s))
        PROVE  /\ v.it = Min(Ahead(s, i))
               /\ Prior(s, v.it) = [v EXCEPT !.it = i]
               /\ UncheckedPrior(s, v.it) = i
               /\ UncheckedIncrement(s, i) = v.it
    <3>1. i \in 1 .. EndOf(s)
      BY <2>1, StopsAre
    <3>2. i \in 1 .. Len(s) /\ i \in Int
      BY <2>2, <3>1
    <3>3. i - 1 \in Boundaries(s)
      BY <2>1, <3>2, StopsAre, Zenon
    <3>4. ~ Stuck(s, i)
      BY <2>1, <3>2, <3>3, WellFormedIsWalked, Zenon
    <3>5. v.it = After(s, i)
      BY <2>1, <2>5, <3>1, NextIs, Zenon
    <3>6. Min(Ahead(s, i)) = After(s, i)
      BY <2>1, <3>2, OneLessAhead, Zenon
    <3>7. /\ Prior(s, v.it) = [Next(s, i, EndOf(s)) EXCEPT !.it = i]
          /\ UncheckedPrior(s, v.it) = i
          /\ UncheckedIncrement(s, i) = v.it
      BY <2>1, <3>2, <3>4, <3>5, BackIs, Zenon
    <3> QED BY <2>5, <3>5, <3>6, <3>7, Zenon
  <2> QED BY <2>3, <2>4, <2>5, Zenon DEF Stops, Ahead, s
<1> QED BY <1>1, <1>2, PTL

-----------------------------------------------------------------------------
(* What XXH3 reads of its key.                                              *)

(* An input that grows byte by byte has a length.                           *)
Measured == input.form = "length" => input.is \in Nat

LEMMA MeasuredHolds == LibrariesSpec => []Measured
<1>1. LibrariesInit => Measured
  <2> SUFFICES ASSUME LibrariesInit, input.form = "length" PROVE input.is \in Nat
    BY DEF Measured
  <2>1. CASE input = Given("stream", <<>>)
    BY <2>1 DEF Given
  <2>2. CASE input = Given("length", 0)
    BY <2>2 DEF Given
  <2>3. CASE input \in {Given(form, <<>>) : form \in {"octets", "units", "points"}}
    BY <2>3 DEF Given
  <2>4. CASE input \in {Given("factors", p) : p \in Factors}
    BY <2>4 DEF Given
  <2> QED BY <2>1, <2>2, <2>3, <2>4, Zenon DEF LibrariesInit
<1>2. Measured /\ [LibrariesNext]_libraryVars => Measured'
  <2> SUFFICES ASSUME Measured, [LibrariesNext]_libraryVars PROVE Measured'
    OBVIOUS
  <2>1. CASE Typed("octets", OctetValues, MaxOctets)
    BY <2>1 DEF Typed, Measured
  <2>2. CASE Typed("units", UnitValues, MaxUnits)
    BY <2>2 DEF Typed, Measured
  <2>3. CASE Typed("points", PointValues, MaxPoints)
    BY <2>3 DEF Typed, Measured
  <2>4. CASE Lengthen
    BY <2>4 DEF Lengthen, Measured
  <2>5. CASE UNCHANGED input
    BY <2>5 DEF Measured
  <2> QED BY <2>1, <2>2, <2>3, <2>4, <2>5 DEF LibrariesNext, libraryVars
<1> QED BY <1>1, <1>2, PTL DEF LibrariesSpec

LEMMA LeastByte ==
  ASSUME NEW at \in Int, NEW n \in Nat \ {0}
  PROVE  at \in Bytes(at, n) /\ Min(Bytes(at, n)) = at
<1>1. at \in Bytes(at, n) /\ \A k \in Bytes(at, n) : k \in Int /\ at <= k
  BY DEF Bytes
<1> DEFINE S == Bytes(at, n)
           m == CHOOSE x \in S : \A y \in S : x <= y
<1> HIDE DEF S
<1>2. m \in S /\ \A y \in S : m <= y
  BY <1>1 DEF S
<1>3. m = at
  BY <1>1, <1>2 DEF S
<1> QED BY <1>1, <1>3 DEF Min, S

(* What KeysAreApart asks of the pieces of a short input.                   *)
KeysFit(pieces, aligned) ==
  /\ \A p \in pieces : p.key \subseteq Bytes(0, 4 * KeySize)
  /\ \A p, q \in pieces : p = q \/ p.key \cap q.key = {}
  /\ aligned => \A p \in pieces : Min(p.key) % 8 = 0

(* Pieces that take the key in turn, w bytes each.                          *)
TakeTurns(pieces, w, f) ==
  \A p \in pieces : \E i \in 0 .. 7 : p = f[i] /\ p.key = Bytes(w * i, w)

LEMMA InTurn ==
  ASSUME NEW pieces, NEW w \in {4, 8, 16}, NEW f, TakeTurns(pieces, w, f)
  PROVE  KeysFit(pieces, w # 4)
<1>1. ASSUME NEW p \in pieces
      PROVE  /\ p.key \subseteq Bytes(0, 4 * KeySize)
             /\ w # 4 => Min(p.key) % 8 = 0
  <2>1. PICK i \in 0 .. 7 : p.key = Bytes(w * i, w)
    BY Zenon DEF TakeTurns
  <2>2. w * i \in Nat /\ w * i + w <= 192 /\ (w # 4 => (w * i) % 8 = 0)
    <3>1. CASE w = 4
      BY <3>1
    <3>2. CASE w = 8
      BY <3>2
    <3>3. CASE w = 16
      BY <3>3
    <3> QED BY <3>1, <3>2, <3>3
  <2> DEFINE at == w * i
  <2>3. Min(Bytes(at, w)) = at
    BY <2>2, LeastByte
  <2>4. Bytes(at, w) \subseteq Bytes(0, 4 * KeySize)
    <3> HIDE DEF at
    <3>1. at \in Nat /\ at + w <= 192 /\ w \in Nat
      BY <2>2 DEF at
    <3>2. ASSUME NEW k \in at .. at + w - 1 PROVE k \in 0 .. 191
      BY <3>1
    <3>3. Bytes(at, w) = at .. at + w - 1 /\ Bytes(0, 4 * KeySize) = 0 .. 191
      BY DEF Bytes, KeySize
    <3>4. at .. at + w - 1 \subseteq 0 .. 191
      BY <3>2
    <3> QED BY <3>3, <3>4
  <2> QED BY <2>1, <2>2, <2>3, <2>4
<1>2. ASSUME NEW p \in pieces, NEW q \in pieces, p # q
      PROVE  p.key \cap q.key = {}
  <2>1. PICK i \in 0 .. 7 : p = f[i] /\ p.key = Bytes(w * i, w)
    BY Zenon DEF TakeTurns
  <2>2. PICK j \in 0 .. 7 : q = f[j] /\ q.key = Bytes(w * j, w)
    BY Zenon DEF TakeTurns
  <2>3. i # j
    BY <1>2, <2>1, <2>2
  <2> DEFINE a == w * i
             b == w * j
  <2>4. a \in Int /\ b \in Int /\ (a + w <= b \/ b + w <= a)
    <3>1. CASE w = 4
      BY <2>3, <3>1
    <3>2. CASE w = 8
      BY <2>3, <3>2
    <3>3. CASE w = 16
      BY <2>3, <3>3
    <3> QED BY <3>1, <3>2, <3>3
  <2> HIDE DEF a, b
  <2>5. Bytes(a, w) \cap Bytes(b, w) = {}
    BY <2>4 DEF Bytes
  <2> QED BY <2>1, <2>2, <2>5 DEF a, b
<1> QED BY <1>1, <1>2 DEF KeysFit

ShiftOf(p, by) == [p EXCEPT !.key = {k + by : k \in @}]

LEMMA ShiftedKey ==
  ASSUME NEW data, NEW at \in Int, NEW w \in Nat, NEW by \in Nat, NEW to, to = at + by
  PROVE  ShiftOf([data |-> data, key |-> Bytes(at, w)], by) = [data |-> data, key |-> Bytes(to, w)]
<1>1. {k + by : k \in Bytes(at, w)} = Bytes(to, w)
  <2>1. ASSUME NEW k \in Bytes(at, w) PROVE k + by \in Bytes(to, w)
    BY DEF Bytes
  <2>2. ASSUME NEW k \in Bytes(to, w) PROVE k - by \in Bytes(at, w) /\ k = (k - by) + by
    BY DEF Bytes
  <2> HIDE DEF Bytes
  <2> QED BY <2>1, <2>2
<1> QED BY <1>1 DEF ShiftOf

(* Two pieces, and the same ones again with the next keys.                  *)
LEMMA TwiceTwo ==
  ASSUME NEW w \in {4, 8}, NEW d, NEW e, NEW pieces,
         pieces = {[data |-> d, key |-> Bytes(0, w)], [data |-> e, key |-> Bytes(w, w)]}
  PROVE  KeysFit(pieces \cup Shifted(pieces, 2 * w), w # 4)
<1> DEFINE P(x, i) == [data |-> x, key |-> Bytes(w * i, w)]
           f == [i \in 0 .. 7 |-> P(IF i \in {0, 2} THEN d ELSE e, i)]
           S == pieces \cup Shifted(pieces, 2 * w)
<1>1. /\ w * 0 = 0 /\ w * 1 = w /\ w * 2 = 0 + 2 * w /\ w * 3 = w + 2 * w
      /\ 2 * w \in Nat /\ w \in Nat /\ 0 \in Int /\ w \in Int
  OBVIOUS
<1>2. pieces = {P(d, 0), P(e, 1)}
  BY <1>1
<1>3. Shifted(pieces, 2 * w) = {P(d, 2), P(e, 3)}
  <2>1. ShiftOf(P(d, 0), 2 * w) = P(d, 2)
    <3> DEFINE by == 2 * w
               to == w * 2
               z == 0
    <3>0. z \in Int /\ by \in Nat /\ to = z + by
      BY <1>1
    <3> HIDE DEF by, to, z
    <3>1. ShiftOf([data |-> d, key |-> Bytes(z, w)], by) = [data |-> d, key |-> Bytes(to, w)]
      BY <1>1, <3>0, ShiftedKey
    <3> USE DEF by, to, z
    <3> QED BY <1>1, <3>1, Zenon
  <2>2. ShiftOf(P(e, 1), 2 * w) = P(e, 3)
    <3> DEFINE by == 2 * w
               to == w * 3
    <3>0. by \in Nat /\ to = w + by
      BY <1>1
    <3> HIDE DEF by, to
    <3>1. ShiftOf([data |-> e, key |-> Bytes(w, w)], by) = [data |-> e, key |-> Bytes(to, w)]
      BY <1>1, <3>0, ShiftedKey
    <3> USE DEF by, to
    <3> QED BY <1>1, <3>1, Zenon
  <2>3. Shifted(pieces, 2 * w) = {ShiftOf(p, 2 * w) : p \in pieces}
    BY Zenon DEF Shifted, ShiftOf
  <2> HIDE DEF P
  <2> QED BY <1>2, <2>1, <2>2, <2>3
<1>4. S = {P(d, 0), P(e, 1), P(d, 2), P(e, 3)}
  <2> HIDE DEF P
  <2> QED BY <1>2, <1>3
<1>5. f[0] = P(d, 0) /\ f[1] = P(e, 1) /\ f[2] = P(d, 2) /\ f[3] = P(e, 3)
  <2> HIDE DEF P
  <2> QED OBVIOUS
<1>6. \A x, i : P(x, i).key = Bytes(w * i, w)
  BY Zenon
<1>7. TakeTurns(S, w, f)
  <2> HIDE DEF P, f, S
  <2> QED BY <1>4, <1>5, <1>6 DEF TakeTurns
<1>8. w \in {4, 8, 16}
  OBVIOUS
<1> HIDE DEF S, f
<1>9. KeysFit(S, w # 4)
  BY <1>7, <1>8, InTurn
<1> QED BY <1>9 DEF S

LEMMA ShortKeysFit ==
  ASSUME NEW n \in 0 .. 16
  PROVE  KeysFit(Len0to16Wide(n), n > 8)
<1>1. CASE n = 0
  <2>1. Len0to16(n) = {}
    BY <1>1 DEF Len0to16
  <2>2. Len0to16Wide(n) = {}
    BY <2>1 DEF Len0to16Wide, Shifted
  <2> QED BY <1>1, <2>2 DEF KeysFit
<1>2. CASE n \in 1 .. 3
  <2>1. Len0to16(n) = Len1to3(n) /\ ~ (n > 8)
    BY <1>2 DEF Len0to16
  <2>2. Len1to3(n) = {[data |-> {0, n \div 2}, key |-> Bytes(0, 4)],
                      [data |-> {n - 1}, key |-> Bytes(4, 4)]}
    BY Zenon DEF Len1to3
  <2> DEFINE w == 4
  <2>3. KeysFit(Len1to3(n) \cup Shifted(Len1to3(n), 2 * w), w # 4)
    <3>1. w \in {4, 8} /\ w = 4
      OBVIOUS
    <3> HIDE DEF w
    <3> QED BY <2>2, <3>1, TwiceTwo
  <2>4. 2 * w = 8 /\ ~ (w # 4)
    OBVIOUS
  <2> HIDE DEF w
  <2> QED BY <2>1, <2>3, <2>4 DEF Len0to16Wide
<1>3. CASE n \in 4 .. 8
  <2>1. Len0to16(n) = Len4to8(n) /\ ~ (n > 8)
    BY <1>3 DEF Len0to16
  <2>2. Len4to8(n) = {[data |-> Bytes(0, 4), key |-> Bytes(0, 4)],
                      [data |-> Bytes(n - 4, 4), key |-> Bytes(4, 4)]}
    BY Zenon DEF Len4to8, Piece
  <2> DEFINE w == 4
  <2>3. KeysFit(Len4to8(n) \cup Shifted(Len4to8(n), 2 * w), w # 4)
    <3>1. w \in {4, 8} /\ w = 4
      OBVIOUS
    <3> HIDE DEF w
    <3> QED BY <2>2, <3>1, TwiceTwo
  <2>4. 2 * w = 8 /\ ~ (w # 4)
    OBVIOUS
  <2> HIDE DEF w
  <2> QED BY <2>1, <2>3, <2>4 DEF Len0to16Wide
<1>4. CASE n > 8
  <2>1. Len0to16(n) = Len9to16(n)
    BY <1>4 DEF Len0to16
  <2>2. Len9to16(n) = {[data |-> Bytes(0, 8), key |-> Bytes(0, 8)],
                       [data |-> Bytes(n - 8, 8), key |-> Bytes(8, 8)]}
    BY Zenon DEF Len9to16, Piece
  <2> DEFINE w == 8
  <2>3. KeysFit(Len9to16(n) \cup Shifted(Len9to16(n), 2 * w), w # 4)
    <3>1. w \in {4, 8} /\ w = 8
      OBVIOUS
    <3> HIDE DEF w
    <3> QED BY <2>2, <3>1, TwiceTwo
  <2>4. 2 * w = 16 /\ w # 4
    OBVIOUS
  <2> HIDE DEF w
  <2> QED BY <1>4, <2>1, <2>3, <2>4 DEF Len0to16Wide
<1> QED BY <1>1, <1>2, <1>3, <1>4

LEMMA MixedKeysFit ==
  ASSUME NEW n \in 17 .. 128
  PROVE  KeysFit(MixedWide(n)[1] \cup MixedWide(n)[2], n > 8)
<1> DEFINE S == MixedWide(n)[1] \cup MixedWide(n)[2]
           D(i) == IF i % 2 = 0 THEN 8 * i ELSE n - 8 * (i + 1)
           f == [i \in 0 .. 7 |-> Piece(D(i), 16 * i, 16)]
<1>1. Pairs(n) \subseteq 0 .. 3
  BY DEF Pairs
<1>2. S = {Pair(n, k)[1] : k \in Pairs(n)} \cup {Pair(n, k)[2] : k \in Pairs(n)}
  <2>1. 1 \in 1 .. 2 /\ 2 \in 1 .. 2
    OBVIOUS
  <2> QED BY <2>1, Zenon DEF MixedWide
<1>3. ASSUME NEW k \in 0 .. 3
      PROVE  /\ 2 * k \in 0 .. 7 /\ Pair(n, k)[1] = f[2 * k]
             /\ 2 * k + 1 \in 0 .. 7 /\ Pair(n, k)[2] = f[2 * k + 1]
  <2>1. /\ 2 * k \in 0 .. 7 /\ 2 * k + 1 \in 0 .. 7
        /\ (2 * k) % 2 = 0 /\ (2 * k + 1) % 2 = 1
        /\ 8 * (2 * k) = 16 * k /\ 16 * (2 * k) = 32 * k
        /\ 8 * (2 * k + 1 + 1) = 16 * (k + 1) /\ 16 * (2 * k + 1) = 32 * k + 16
    OBVIOUS
  <2>2. D(2 * k) = 16 * k /\ D(2 * k + 1) = n - 16 * (k + 1)
    BY <2>1
  <2> HIDE DEF D
  <2>3. /\ f[2 * k] = Piece(16 * k, 32 * k, 16)
        /\ f[2 * k + 1] = Piece(n - 16 * (k + 1), 32 * k + 16, 16)
    BY <2>1, <2>2
  <2>4. /\ Pair(n, k)[1] = Piece(16 * k, 32 * k, 16)
        /\ Pair(n, k)[2] = Piece(n - 16 * (k + 1), 32 * k + 16, 16)
    <3> HIDE DEF Piece
    <3> QED BY DEF Pair
  <2> QED BY <2>1, <2>3, <2>4, Zenon
<1>4. \A i \in 0 .. 7 : f[i].key = Bytes(16 * i, 16)
  BY DEF Piece
<1>5. ASSUME NEW p \in S PROVE \E i \in 0 .. 7 : p = f[i] /\ p.key = Bytes(16 * i, 16)
  <2> HIDE DEF f
  <2>1. \E k \in 0 .. 3 : p = Pair(n, k)[1] \/ p = Pair(n, k)[2]
    <3> HIDE DEF S
    <3> QED BY <1>1, <1>2
  <2> QED BY <1>3, <1>4, <2>1
<1> DEFINE w == 16
<1>6. w \in {4, 8, 16} /\ w # 4 /\ n > 8
  OBVIOUS
<1>7. TakeTurns(S, w, f)
  BY <1>5 DEF TakeTurns
<1> HIDE DEF S, f, w
<1>8. KeysFit(S, w # 4)
  BY <1>6, <1>7, InTurn
<1> QED BY <1>6, <1>8 DEF S

(* The stripes of a block begin 8 bytes apart in the key.                   *)
OfBlock(block) ==
  \E m \in 0 .. NbKeys : /\ block \in Seq([data : SUBSET Int, key : SUBSET Int])
                         /\ DOMAIN block = 1 .. m
                         /\ \A i \in 1 .. m : block[i].key = Bytes(8 * (i - 1), StripeLen)

LEMMA PieceIs ==
  ASSUME NEW at \in Int, NEW key \in Int, NEW n \in Int
  PROVE  /\ Piece(at, key, n) \in [data : SUBSET Int, key : SUBSET Int]
         /\ Piece(at, key, n).key = Bytes(key, n)
         /\ Piece(at, key, n).data = Bytes(at, n)
BY DEF Piece, Bytes

LEMMA AccumulateIs ==
  ASSUME NEW at \in Int, NEW m \in Nat
  PROVE  /\ Accumulate(at, m) \in Seq([data : SUBSET Int, key : SUBSET Int])
         /\ Len(Accumulate(at, m)) = m
         /\ \A i \in 1 .. m :
              /\ Accumulate(at, m)[i].key = Bytes(8 * (i - 1), StripeLen)
              /\ Accumulate(at, m)[i].data = Bytes(at + (i - 1) * StripeLen, StripeLen)
<1> DEFINE T == [data : SUBSET Int, key : SUBSET Int]
           e(i) == Piece(at + (i - 1) * StripeLen, 8 * (i - 1), StripeLen)
           f == [i \in 1 .. m |-> e(i)]
<1>1. ASSUME NEW i \in 1 .. m
      PROVE  /\ e(i) \in T /\ e(i).key = Bytes(8 * (i - 1), StripeLen)
             /\ e(i).data = Bytes(at + (i - 1) * StripeLen, StripeLen)
  <2>1. at + (i - 1) * StripeLen \in Int /\ 8 * (i - 1) \in Int /\ StripeLen \in Int
    BY DEF StripeLen
  <2> QED BY <2>1, PieceIs, Zenon
<1>2. Accumulate(at, m) = f
  BY Zenon DEF Accumulate
<1> HIDE DEF T, e
<1>3. f \in Seq(T) /\ Len(f) = m /\ \A i \in 1 .. m : f[i] = e(i)
  BY <1>1
<1> HIDE DEF f
<1> QED BY <1>1, <1>2, <1>3, Zenon DEF T

(* The last block may end with a stripe that overlaps the one before it.    *)
LastAt(n) == BlockLen * (n \div BlockLen)
LeftStripes(n) == (n % BlockLen) \div StripeLen
LastStripes(n) == IF n % StripeLen # 0 THEN LeftStripes(n) + 1 ELSE LeftStripes(n)

LEMMA LastBlockIs ==
  ASSUME NEW n \in Nat
  PROVE  /\ LastAt(n) \in Nat /\ LeftStripes(n) \in 0 .. 15 /\ LastStripes(n) \in 0 .. 16
         /\ LastBlock(n) \in Seq([data : SUBSET Int, key : SUBSET Int])
         /\ Len(LastBlock(n)) = LastStripes(n)
         /\ \A i \in 1 .. LastStripes(n) :
              LastBlock(n)[i].key = Bytes(8 * (i - 1), StripeLen)
         /\ \A i \in 1 .. LeftStripes(n) :
              LastBlock(n)[i].data = Bytes(LastAt(n) + (i - 1) * StripeLen, StripeLen)
         /\ n % StripeLen # 0 =>
              LastBlock(n)[LastStripes(n)].data = Bytes(n - StripeLen, StripeLen)
<1> DEFINE T == [data : SUBSET Int, key : SUBSET Int]
           at == LastAt(n)
           m == LeftStripes(n)
           c == LastStripes(n)
           A == Accumulate(at, m)
           p == Piece(n - StripeLen, 8 * m, StripeLen)
           E == IF n % StripeLen # 0 THEN <<p>> ELSE <<>>
<1>1. /\ at \in Nat /\ at \in Int /\ m \in 0 .. 15 /\ m \in Nat
      /\ n - StripeLen \in Int /\ 8 * m \in Int /\ StripeLen \in Int
  BY DEF LastAt, LeftStripes, BlockLen, StripeLen, NbKeys, KeySize, StripeElts
<1>2. LastBlock(n) = A \o E
  BY Zenon DEF LastBlock, LastAt, LeftStripes
<1>3. /\ n % StripeLen # 0 => c = m + 1
      /\ ~ (n % StripeLen # 0) => c = m
  BY Zenon DEF LastStripes
<1> HIDE DEF at, m, c
<1>4. c \in 0 .. 16
  BY <1>1, <1>3
<1>5. /\ A \in Seq(T) /\ Len(A) = m
      /\ \A i \in 1 .. m : /\ A[i].key = Bytes(8 * (i - 1), StripeLen)
                           /\ A[i].data = Bytes(at + (i - 1) * StripeLen, StripeLen)
  BY <1>1, AccumulateIs, Zenon
<1>6. p \in T /\ p.key = Bytes(8 * m, StripeLen) /\ p.data = Bytes(n - StripeLen, StripeLen)
  BY <1>1, PieceIs, Zenon
<1> HIDE DEF A, p, T
<1>7. CASE n % StripeLen # 0
  <2>1. E = <<p>> /\ c = m + 1
    BY <1>3, <1>7
  <2>2. /\ A \o <<p>> \in Seq(T) /\ Len(A \o <<p>>) = m + 1
        /\ \A i \in 1 .. m : (A \o <<p>>)[i] = A[i]
        /\ (A \o <<p>>)[m + 1] = p
    BY <1>1, <1>5, <1>6
  <2>3. \A i \in 1 .. m + 1 : i \in 1 .. m \/ i = m + 1
    BY <1>1
  <2> DEFINE B == A \o <<p>>
  <2>5. \A i \in 1 .. m : B[i].key = A[i].key /\ B[i].data = A[i].data
    BY <2>2
  <2> HIDE DEF B, E
  <2>6. ASSUME NEW i \in 1 .. m + 1 PROVE B[i].key = Bytes(8 * (i - 1), StripeLen)
    <3>1. CASE i \in 1 .. m
      BY <1>5, <2>5, <3>1
    <3>2. CASE i = m + 1
      <4>1. 8 * (i - 1) = 8 * m /\ B[i] = p
        BY <1>1, <2>2, <3>2 DEF B
      <4> HIDE DEF B
      <4>2. p.key = Bytes(8 * m, StripeLen)
        BY <1>6, Zenon
      <4> QED BY <4>1, <4>2, Zenon
    <3> QED BY <2>3, <3>1, <3>2
  <2>7. LastBlock(n) = B
    BY <1>2, <2>1, Zenon DEF B
  <2>8. /\ B \in Seq(T) /\ Len(B) = c /\ B[c].data = Bytes(n - StripeLen, StripeLen)
        /\ \A i \in 1 .. c : B[i].key = Bytes(8 * (i - 1), StripeLen)
        /\ \A i \in 1 .. m : B[i].data = Bytes(at + (i - 1) * StripeLen, StripeLen)
    BY <1>5, <1>6, <2>1, <2>2, <2>5, <2>6, Zenon DEF B
  <2> QED BY <1>1, <1>4, <2>7, <2>8, Zenon DEF at, m, c, T
<1>8. CASE ~ (n % StripeLen # 0)
  <2>1. E = <<>> /\ c = m
    BY <1>3, <1>8
  <2>2. A \o <<>> = A
    BY <1>5
  <2> HIDE DEF E
  <2>3. LastBlock(n) = A
    BY <1>2, <2>1, <2>2, Zenon
  <2> QED BY <1>1, <1>4, <1>5, <1>8, <2>1, <2>3, Zenon DEF at, m, c, T
<1> QED BY <1>7, <1>8

LEMMA HashLongIs ==
  ASSUME NEW n \in Nat
  PROVE  LET d == n \div BlockLen
         IN  /\ d \in Nat
             /\ HashLong(n) \in Seq(Seq([data : SUBSET Int, key : SUBSET Int]))
             /\ Len(HashLong(n)) = d + 1
             /\ \A b \in 1 .. d :
                  HashLong(n)[b] = Accumulate((b - 1) * BlockLen, NbKeys)
             /\ HashLong(n)[d + 1] = LastBlock(n)
<1> DEFINE T == Seq([data : SUBSET Int, key : SUBSET Int])
           d == n \div BlockLen
           B == Blocks(n)
           l == LastBlock(n)
<1>1. d \in Nat /\ NbKeys \in Nat /\ BlockLen \in Nat
  BY DEF BlockLen, StripeLen, NbKeys, KeySize, StripeElts
<1>2. B = [b \in 1 .. d |-> Accumulate((b - 1) * BlockLen, NbKeys)]
  BY Zenon DEF Blocks
<1>3. \A b \in 1 .. d : Accumulate((b - 1) * BlockLen, NbKeys) \in T
  <2> SUFFICES ASSUME NEW b \in 1 .. d PROVE Accumulate((b - 1) * BlockLen, NbKeys) \in T
    OBVIOUS
  <2>1. (b - 1) * BlockLen \in Int
    BY <1>1
  <2> QED BY <1>1, <2>1, AccumulateIs, Zenon
<1>4. l \in T
  BY LastBlockIs, Zenon
<1> HIDE DEF T, B, l, d
<1>5. B \in Seq(T) /\ Len(B) = d /\ \A b \in 1 .. d : B[b] = Accumulate((b - 1) * BlockLen, NbKeys)
  BY <1>1, <1>2, <1>3
<1>6. /\ Append(B, l) \in Seq(T) /\ Len(Append(B, l)) = d + 1
      /\ \A b \in 1 .. d : Append(B, l)[b] = B[b]
      /\ Append(B, l)[d + 1] = l
  BY <1>1, <1>4, <1>5
<1>7. HashLong(n) = Append(B, l)
  BY Zenon DEF HashLong, B, l
<1> QED BY <1>1, <1>5, <1>6, <1>7, Zenon DEF T, d, l

LEMMA BlocksFit ==
  ASSUME NEW n \in Nat, NEW b \in DOMAIN HashLong(n)
  PROVE  LET block == HashLong(n)[b]
         IN  /\ \A p \in Range(block) : p.key \subseteq Bytes(0, 4 * KeySize)
             /\ ScrambleKey \subseteq Bytes(0, 4 * KeySize)
             /\ \A i, j \in DOMAIN block : i = j \/ block[i].key # block[j].key
<1> DEFINE d == n \div BlockLen
           block == HashLong(n)[b]
           Follow(k) == /\ DOMAIN block = 1 .. k
                        /\ \A i \in 1 .. k : block[i].key = Bytes(8 * (i - 1), StripeLen)
<1>1. d \in Nat /\ (b \in 1 .. d \/ b = d + 1)
  <2>1. /\ d \in Nat /\ Len(HashLong(n)) = d + 1
        /\ HashLong(n) \in Seq(Seq([data : SUBSET Int, key : SUBSET Int]))
    BY HashLongIs, Zenon
  <2> HIDE DEF d
  <2>2. b \in 1 .. d + 1
    BY <2>1
  <2> QED BY <2>1, <2>2
<1>2. PICK k \in 0 .. 16 : Follow(k)
  <2>1. CASE b \in 1 .. d
    <3>1. block = Accumulate((b - 1) * BlockLen, NbKeys)
      BY <2>1, HashLongIs, Zenon
    <3>2. (b - 1) * BlockLen \in Int /\ NbKeys \in Nat /\ NbKeys = 16
      BY <1>1 DEF BlockLen, StripeLen, NbKeys, KeySize, StripeElts
    <3> DEFINE A == Accumulate((b - 1) * BlockLen, NbKeys)
    <3>3. /\ A \in Seq([data : SUBSET Int, key : SUBSET Int]) /\ Len(A) = NbKeys
          /\ \A i \in 1 .. NbKeys : A[i].key = Bytes(8 * (i - 1), StripeLen)
      BY <3>2, AccumulateIs, Zenon
    <3> HIDE DEF A, block
    <3>4. DOMAIN A = 1 .. 16 /\ 16 \in 0 .. 16
      BY <3>2, <3>3
    <3>5. block = A
      BY <3>1, Zenon DEF A
    <3> QED BY <3>2, <3>3, <3>4, <3>5, Zenon
  <2>2. CASE b = d + 1
    <3>1. block = LastBlock(n)
      BY <2>2, HashLongIs, Zenon
    <3> DEFINE c == LastStripes(n)
    <3>2. /\ c \in 0 .. 16 /\ block \in Seq([data : SUBSET Int, key : SUBSET Int])
          /\ Len(block) = c
          /\ \A i \in 1 .. c : block[i].key = Bytes(8 * (i - 1), StripeLen)
      BY <3>1, LastBlockIs, Zenon
    <3> HIDE DEF c, block
    <3>3. DOMAIN block = 1 .. c
      BY <3>2
    <3> QED BY <3>2, <3>3, Zenon
  <2> HIDE DEF Follow
  <2> QED BY <1>1, <2>1, <2>2, Zenon
<1> HIDE DEF block
<1>3. \A i \in 1 .. k : Bytes(8 * (i - 1), StripeLen) \subseteq Bytes(0, 4 * KeySize)
  BY DEF Bytes, StripeLen, KeySize
<1>4. ASSUME NEW i \in 1 .. k, NEW j \in 1 .. k, i # j PROVE block[i].key # block[j].key
  <2> DEFINE x == 8 * (i - 1)
             y == 8 * (j - 1)
  <2>1. x \in Int /\ y \in Int /\ x # y /\ StripeLen \in Nat \ {0}
    BY <1>4 DEF StripeLen
  <2> HIDE DEF x, y
  <2>2. Min(Bytes(x, StripeLen)) = x /\ Min(Bytes(y, StripeLen)) = y
    BY <2>1, LeastByte, Zenon
  <2>3. block[i].key = Bytes(x, StripeLen) /\ block[j].key = Bytes(y, StripeLen)
    BY <1>2 DEF x, y
  <2> QED BY <2>1, <2>2, <2>3
<1>5. \A p \in Range(block) : \E i \in 1 .. k : p = block[i]
  BY <1>2, Zenon DEF Range
<1>6. ScrambleKey \subseteq Bytes(0, 4 * KeySize)
  BY DEF ScrambleKey, Bytes, StripeLen, StripeElts, KeySize
<1>7. /\ \A p \in Range(block) : p.key \subseteq Bytes(0, 4 * KeySize)
      /\ \A i, j \in DOMAIN block : i = j \/ block[i].key # block[j].key
  <2>1. ASSUME NEW p \in Range(block) PROVE p.key \subseteq Bytes(0, 4 * KeySize)
    <3>1. PICK i \in 1 .. k : p = block[i]
      BY <1>5, Zenon
    <3>2. block[i].key = Bytes(8 * (i - 1), StripeLen)
      BY <1>2, Zenon
    <3> QED BY <1>3, <3>1, <3>2, Zenon
  <2>2. DOMAIN block = 1 .. k
    BY <1>2, Zenon
  <2> QED BY <1>4, <2>1, <2>2, Zenon
<1> QED BY <1>6, <1>7, Zenon DEF block

(* XXH3 stays inside its key and mixes no piece of a short input, and no    *)
(* stripe of a block of a long one, with the key of another, whatever the   *)
(* length.                                                                  *)
THEOREM KeysStayApart == LibrariesSpec => []KeysAreApart
<1>1. LibrariesSpec => []Measured
  BY MeasuredHolds
<1>2. Measured => KeysAreApart
  <2> SUFFICES ASSUME Measured, input.form = "length" PROVE KeysAreApart
    BY Zenon DEF KeysAreApart
  <2> DEFINE n == input.is
             short == IF n <= 16 THEN Len0to16Wide(n)
                      ELSE MixedWide(n)[1] \cup MixedWide(n)[2]
  <2>1. n \in Nat
    BY DEF Measured
  <2>2. ASSUME n <= 128 PROVE KeysFit(short, n > 8)
    <3>1. CASE n <= 16
      <4>1. n \in 0 .. 16
        BY <2>1, <3>1
      <4> QED BY <3>1, <4>1, ShortKeysFit, Zenon
    <3>2. CASE ~ (n <= 16)
      <4>1. n \in 17 .. 128
        BY <2>1, <2>2, <3>2
      <4> QED BY <3>2, <4>1, MixedKeysFit, Zenon
    <3> QED BY <3>1, <3>2
  <2>3. \A b \in DOMAIN HashLong(n) :
          LET block == HashLong(n)[b]
          IN  /\ \A p \in Range(block) : p.key \subseteq Bytes(0, 4 * KeySize)
              /\ ScrambleKey \subseteq Bytes(0, 4 * KeySize)
              /\ \A i, j \in DOMAIN block : i = j \/ block[i].key # block[j].key
    BY <2>1, BlocksFit, Zenon
  <2> HIDE DEF n
  <2> QED BY <2>2, <2>3, Zenon DEF KeysAreApart, KeysFit, n
<1> QED BY <1>1, <1>2, PTL

-----------------------------------------------------------------------------
(* Which bytes are hashed.                                                  *)

IsFlat(f, q) == f = [i \in 1 .. Len(q) |-> IF i = 1 THEN q[i] ELSE f[i - 1] \o q[i]]

LEMMA FlattenIs ==
  ASSUME NEW T, NEW q \in Seq(Seq(T)), Len(q) # 0
  PROVE  \E f : /\ f[1] = q[1]
                /\ \A i \in 2 .. Len(q) : f[i] = f[i - 1] \o q[i]
                /\ FlattenSeq(q) = f[Len(q)]
<1> DEFINE N == Len(q)
           stop == {N}
           last == [i \in 1 .. N |-> q[1]]
           next == [i \in 1 .. N |-> i + 1]
           add == [i \in 1 .. N |-> [x \in Seq(T) |-> x \o q[N + 1 - i]]]
<1>1. N \in Nat \ {0} /\ \A i \in 1 .. N : q[i] \in Seq(T) /\ q[N + 1 - i] \in Seq(T)
  OBVIOUS
<1> HIDE DEF N
<1>2. \A i \in 1 .. N : i \in stop => last[i] \in Seq(T)
  BY <1>1
<1>3. ASSUME NEW i \in 1 .. N, i \notin stop
      PROVE  next[i] \in i + 1 .. N /\ add[i] \in [Seq(T) -> Seq(T)]
  <2>1. next[i] = i + 1 /\ i + 1 \in i + 1 .. N
    BY <1>1, <1>3
  <2>2. \A x \in Seq(T) : x \o q[N + 1 - i] \in Seq(T)
    BY <1>1
  <2>3. add[i] = [x \in Seq(T) |-> x \o q[N + 1 - i]]
    BY Zenon
  <2> HIDE DEF add, next
  <2> QED BY <2>1, <2>2, <2>3, Zenon
<1>4. PICK g \in [1 .. N -> Seq(T)] : \A i \in 1 .. N : Recurs(g, stop, last, next, add, i)
  <2> HIDE DEF stop, last, next, add
  <2> QED BY <1>1, <1>2, <1>3, RecursionExists, Zenon
<1> DEFINE h == [i \in 1 .. N |-> g[N + 1 - i]]
<1>5. ASSUME NEW i \in 1 .. N
      PROVE  h[i] = IF i = 1 THEN q[i] ELSE h[i - 1] \o q[i]
  <2> DEFINE j == N + 1 - i
  <2>1. j \in 1 .. N /\ N + 1 - j = i /\ h[i] = g[j]
    BY <1>1
  <2> HIDE DEF j
  <2>2. Recurs(g, stop, last, next, add, j)
    BY <1>4, <2>1, Zenon
  <2>3. CASE i = 1
    <3>1. j = N
      BY <1>1, <2>1, <2>3 DEF j
    <3>2. j \in stop /\ last[j] = q[1]
      BY <2>1, <3>1
    <3>3. g[j] = last[j]
      BY <2>2, <3>2, Zenon DEF Recurs
    <3> QED BY <2>1, <2>3, <3>2, <3>3, Zenon
  <2>4. CASE i # 1
    <3>1. /\ j \notin stop /\ next[j] = j + 1 /\ j + 1 \in 1 .. N
          /\ i - 1 \in 1 .. N /\ N + 1 - (i - 1) = j + 1
      BY <1>1, <2>1, <2>4
    <3>2. add[j] = [x \in Seq(T) |-> x \o q[N + 1 - j]]
      BY <2>1, Zenon
    <3>3. h[i - 1] = g[j + 1] /\ g[j + 1] \in Seq(T)
      BY <3>1, Zenon
    <3> HIDE DEF stop, next, add, last, h
    <3>4. g[j] = add[j][g[j + 1]]
      BY <2>2, <3>1, Zenon DEF Recurs
    <3>5. add[j][g[j + 1]] = g[j + 1] \o q[N + 1 - j]
      BY <3>2, <3>3, Zenon
    <3> QED BY <2>1, <2>4, <3>3, <3>4, <3>5, Zenon
  <2> QED BY <2>3, <2>4
<1>6. \E f : IsFlat(f, q)
  <2>1. h = [i \in 1 .. N |-> IF i = 1 THEN q[i] ELSE h[i - 1] \o q[i]]
    BY <1>5
  <2> HIDE DEF h
  <2> QED BY <2>1, Zenon DEF IsFlat, N
<1> DEFINE f == CHOOSE f : IsFlat(f, q)
<1>7. IsFlat(f, q)
  BY <1>6, Zenon
<1>8. FlattenSeq(q) = f[N]
  <2>1. FlattenSeq(q) = (CHOOSE r : r = [i \in 1 .. Len(q) |->
                                           IF i = 1 THEN q[i] ELSE r[i - 1] \o q[i]])[Len(q)]
    BY Zenon DEF FlattenSeq
  <2> QED BY <2>1, Zenon DEF IsFlat, N
<1> HIDE DEF f
<1>9. \A i \in 1 .. N : f[i] = IF i = 1 THEN q[i] ELSE f[i - 1] \o q[i]
  BY <1>7, Zenon DEF IsFlat, N
<1>10. f[1] = q[1]
  BY <1>1, <1>9
<1>11. ASSUME NEW i \in 2 .. N PROVE f[i] = f[i - 1] \o q[i]
  <2>1. i \in 1 .. N /\ i # 1
    BY <1>1
  <2> QED BY <1>9, <2>1, Zenon
<1> QED BY <1>8, <1>10, <1>11, Zenon DEF N

(* The bytes from lo + 1 to hi.                                             *)
Run(lo, hi) == [k \in 1 .. hi - lo |-> lo + k]

LEMMA RunIs ==
  ASSUME NEW lo \in Nat, NEW hi \in Nat, lo <= hi
  PROVE  /\ Run(lo, hi) \in Seq(Nat) /\ Len(Run(lo, hi)) = hi - lo
         /\ \A k \in 1 .. hi - lo : Run(lo, hi)[k] = lo + k
BY DEF Run

LEMMA RunsMeet ==
  ASSUME NEW x \in Nat, NEW y \in Nat, NEW z \in Nat, x <= y, y <= z
  PROVE  Run(x, y) \o Run(y, z) = Run(x, z)
<1> DEFINE p == Run(x, y)
           q == Run(y, z)
           r == Run(x, z)
<1>1. /\ p \in Seq(Nat) /\ Len(p) = y - x /\ \A k \in 1 .. y - x : p[k] = x + k
      /\ q \in Seq(Nat) /\ Len(q) = z - y /\ \A k \in 1 .. z - y : q[k] = y + k
      /\ r \in Seq(Nat) /\ Len(r) = z - x /\ \A k \in 1 .. z - x : r[k] = x + k
  <2>1. x <= z
    OBVIOUS
  <2> QED BY <2>1, RunIs, Zenon
<1> HIDE DEF p, q, r
<1>2. /\ p \o q \in Seq(Nat) /\ Len(p \o q) = z - x
      /\ \A k \in 1 .. z - x : (p \o q)[k] = IF k <= y - x THEN p[k] ELSE q[k - (y - x)]
  <2>1. /\ p \o q \in Seq(Nat) /\ Len(p \o q) = Len(p) + Len(q)
        /\ \A k \in 1 .. Len(p) + Len(q) :
             (p \o q)[k] = IF k <= Len(p) THEN p[k] ELSE q[k - Len(p)]
    BY <1>1, ConcatProperties
  <2>2. Len(p) + Len(q) = z - x
    BY <1>1
  <2> QED BY <1>1, <2>1, <2>2
<1>3. ASSUME NEW k \in 1 .. z - x PROVE (p \o q)[k] = r[k]
  <2>1. CASE k <= y - x
    BY <1>1, <1>2, <2>1
  <2>2. CASE ~ (k <= y - x)
    <3>1. k - (y - x) \in 1 .. z - y /\ y + (k - (y - x)) = x + k
      BY <2>2
    <3> QED BY <1>1, <1>2, <2>2, <3>1
  <2> QED BY <2>1, <2>2
<1>4. p \o q = r
  BY <1>1, <1>2, <1>3, SeqEqual
<1> QED BY <1>4 DEF p, q, r

(* Pieces that follow on one another, from byte lo + 1 to byte hi.          *)
Cuts(g, q, lo, hi) ==
  /\ q \in Seq(Seq(Nat)) /\ g \in [0 .. Len(q) -> Nat] /\ g[0] = lo /\ g[Len(q)] = hi
  /\ \A i \in 1 .. Len(q) : g[i - 1] <= g[i] /\ q[i] = Run(g[i - 1], g[i])

FollowOn(q, lo, hi) == \E g : Cuts(g, q, lo, hi)

LEMMA FlattenRuns ==
  ASSUME NEW q, NEW n \in Nat, FollowOn(q, 0, n)
  PROVE  FlattenSeq(q) = Fed(n)
<1> DEFINE N == Len(q)
<1>1. PICK g : Cuts(g, q, 0, n)
  BY Zenon DEF FollowOn
<1>2. /\ q \in Seq(Seq(Nat)) /\ N \in Nat /\ g \in [0 .. N -> Nat] /\ g[0] = 0 /\ g[N] = n
      /\ \A i \in 1 .. N : g[i - 1] <= g[i] /\ q[i] = Run(g[i - 1], g[i])
  BY <1>1 DEF Cuts
<1>3. Fed(n) = Run(0, n)
  BY DEF Fed, Run
<1>4. CASE N = 0
  <2>1. n = 0 /\ q = <<>>
    BY <1>2, <1>4
  <2>2. FlattenSeq(q) = q
    BY <1>4, Zenon DEF FlattenSeq
  <2>3. Run(0, n) = <<>>
    BY <2>1 DEF Run
  <2> QED BY <1>3, <2>1, <2>2, <2>3
<1>5. CASE N # 0
  <2>1. PICK f : /\ f[1] = q[1] /\ \A i \in 2 .. N : f[i] = f[i - 1] \o q[i]
                 /\ FlattenSeq(q) = f[N]
    BY <1>2, <1>5, FlattenIs, Zenon
  <2> HIDE DEF N
  <2> DEFINE B == {i \in 1 .. N : f[i] # Run(0, g[i])}
  <2>2. B = {}
    <3> SUFFICES ASSUME B # {} PROVE FALSE
      OBVIOUS
    <3>1. PICK k \in B : \A j \in B : k <= j
      <4> B \subseteq Nat
        OBVIOUS
      <4> HIDE DEF B
      <4> QED BY LeastNatural
    <3>2. k \in 1 .. N /\ f[k] # Run(0, g[k])
      OBVIOUS
    <3>3. CASE k = 1
      <4>1. q[1] = Run(g[0], g[1])
        BY <1>2, <3>2, <3>3
      <4> QED BY <1>2, <2>1, <3>2, <3>3, <4>1
    <3>4. CASE k # 1
      <4>1. k \in 2 .. N /\ k - 1 \in 1 .. N /\ ~ (k <= k - 1)
        BY <1>2, <3>2, <3>4
      <4>2. f[k - 1] = Run(0, g[k - 1])
        BY <3>1, <4>1
      <4>3. f[k] = f[k - 1] \o q[k] /\ q[k] = Run(g[k - 1], g[k])
        BY <1>2, <2>1, <3>2, <4>1, Zenon
      <4>4. g[k - 1] \in Nat /\ g[k] \in Nat /\ 0 <= g[k - 1] /\ g[k - 1] <= g[k] /\ 0 \in Nat
        BY <1>2, <3>2, <4>1
      <4>5. Run(0, g[k - 1]) \o Run(g[k - 1], g[k]) = Run(0, g[k])
        BY <4>4, RunsMeet, Zenon
      <4> QED BY <3>2, <4>2, <4>3, <4>5, Zenon
    <3> QED BY <3>3, <3>4
  <2>3. f[N] = Run(0, g[N])
    BY <1>2, <1>5, <2>2
  <2> QED BY <1>2, <1>3, <2>1, <2>3
<1> QED BY <1>4, <1>5

LEMMA FollowOnJoins ==
  ASSUME NEW p, NEW q, NEW x, NEW y, NEW z, FollowOn(p, x, y), FollowOn(q, y, z)
  PROVE  FollowOn(p \o q, x, z)
<1> DEFINE M == Len(p)
           N == Len(q)
           r == p \o q
<1>1. PICK g : Cuts(g, p, x, y)
  BY Zenon DEF FollowOn
<1>2. PICK h : Cuts(h, q, y, z)
  BY Zenon DEF FollowOn
<1>3. /\ p \in Seq(Seq(Nat)) /\ M \in Nat /\ g \in [0 .. M -> Nat] /\ g[0] = x /\ g[M] = y
      /\ \A i \in 1 .. M : g[i - 1] <= g[i] /\ p[i] = Run(g[i - 1], g[i])
  BY <1>1 DEF Cuts
<1>4. /\ q \in Seq(Seq(Nat)) /\ N \in Nat /\ h \in [0 .. N -> Nat] /\ h[0] = y /\ h[N] = z
      /\ \A i \in 1 .. N : h[i - 1] <= h[i] /\ q[i] = Run(h[i - 1], h[i])
  BY <1>2 DEF Cuts
<1>5. /\ r \in Seq(Seq(Nat)) /\ Len(r) = M + N
      /\ \A i \in 1 .. M + N : r[i] = IF i <= M THEN p[i] ELSE q[i - M]
  BY <1>3, <1>4
<1> HIDE DEF M, N, r
<1> DEFINE e == [i \in 0 .. M + N |-> IF i <= M THEN g[i] ELSE h[i - M]]
<1>6. /\ e \in [0 .. M + N -> Nat] /\ e[0] = x
      /\ \A i \in 0 .. M : e[i] = g[i]
  BY <1>3, <1>4
<1>7. \A i \in M .. M + N : e[i] = h[i - M]
  <2> SUFFICES ASSUME NEW i \in M .. M + N PROVE e[i] = h[i - M]
    OBVIOUS
  <2>1. CASE i = M
    BY <1>3, <1>4, <2>1
  <2>2. CASE i # M
    BY <1>3, <1>4, <2>2
  <2> QED BY <2>1, <2>2
<1>8. e[M + N] = z
  <2>1. CASE N = 0
    <3>1. M + N = M /\ M \in 0 .. M
      BY <1>3, <2>1
    <3> HIDE DEF e
    <3>2. e[M] = g[M]
      BY <1>6, <3>1, Zenon
    <3> QED BY <1>3, <1>4, <2>1, <3>1, <3>2
  <2>2. CASE N # 0
    <3> DEFINE k == M + N
    <3>1. k \in 0 .. M + N /\ ~ (k <= M) /\ k - M = N
      BY <1>3, <1>4, <2>2
    <3> HIDE DEF k
    <3>2. e[k] = h[k - M]
      BY <3>1, Zenon
    <3>3. e[k] = z
      BY <1>4, <3>1, <3>2, Zenon
    <3> QED BY <3>3 DEF k
  <2> QED BY <2>1, <2>2
<1>9. ASSUME NEW i \in 1 .. M + N PROVE e[i - 1] <= e[i] /\ r[i] = Run(e[i - 1], e[i])
  <2> HIDE DEF e
  <2>1. CASE i <= M
    <3>1. i \in 1 .. M /\ i - 1 \in 0 .. M /\ i \in 0 .. M
      BY <1>3, <1>4, <2>1
    <3>2. r[i] = p[i]
      BY <1>5, <2>1
    <3>3. e[i - 1] = g[i - 1] /\ e[i] = g[i]
      BY <1>6, <3>1, Zenon
    <3> QED BY <1>3, <3>1, <3>2, <3>3
  <2>2. CASE ~ (i <= M)
    <3>1. /\ i - M \in 1 .. N /\ i - 1 \in M .. M + N /\ i \in M .. M + N
          /\ i - 1 - M = i - M - 1
      BY <1>3, <1>4, <2>2
    <3>2. r[i] = q[i - M]
      BY <1>5, <2>2
    <3>3. e[i - 1] = h[i - M - 1] /\ e[i] = h[i - M]
      BY <1>7, <3>1
    <3> QED BY <1>4, <3>1, <3>2, <3>3
  <2> QED BY <2>1, <2>2
<1> HIDE DEF e
<1>10. Cuts(e, r, x, z)
  BY <1>5, <1>6, <1>8, <1>9 DEF Cuts
<1> QED BY <1>10, Zenon DEF FollowOn, r

(* Reads follow on one another.                                             *)
LEMMA ReadsFollowOn ==
  ASSUME NEW b \in Nat, NEW r \in Nat, NEW at \in Nat, NEW width \in {1, 4, 8, 16, 32},
         NEW n \in Nat, NEW e, e = width * n, at + e <= r,
         NEW lo, lo = b + at, NEW hi, hi = b + at + e
  PROVE  FollowOn(Reads([i \in 1 .. r |-> b + i], at, width, n), lo, hi)
<1> DEFINE l == [i \in 1 .. r |-> b + i]
           c(i) == at + width * i
           s(i) == SubSeq(l, at + width * (i - 1) + 1, at + width * i)
           q == [i \in 1 .. n |-> s(i)]
           g == [i \in 0 .. n |-> b + c(i)]
<1>1. /\ \A i \in 0 .. n : c(i) \in Nat /\ c(i) <= r
      /\ \A i \in 1 .. n : i - 1 \in 0 .. n /\ i \in 0 .. n /\ c(i) = c(i - 1) + width
      /\ c(0) = at /\ width \in Nat
  <2>1. CASE width = 1
    BY <2>1
  <2>2. CASE width = 4
    BY <2>2
  <2>3. CASE width = 8
    BY <2>3
  <2>4. CASE width = 16
    BY <2>4
  <2>5. CASE width = 32
    BY <2>5
  <2> QED BY <2>1, <2>2, <2>3, <2>4, <2>5
<1>2. \A i \in 1 .. n : s(i) = SubSeq(l, c(i - 1) + 1, c(i))
  BY Zenon
<1>3. hi = b + c(n) /\ lo = b + c(0)
  BY <1>1
<1> HIDE DEF c, s
<1>4. ASSUME NEW i \in 1 .. n PROVE s(i) = Run(b + c(i - 1), b + c(i)) /\ s(i) \in Seq(Nat)
  <2> DEFINE x == c(i - 1)
             y == c(i)
  <2>1. x \in Nat /\ y = x + width /\ y <= r
    BY <1>1
  <2>2. s(i) = SubSeq(l, x + 1, y)
    BY <1>2, Zenon
  <2> HIDE DEF x, y, l
  <2>3. SubSeq(l, x + 1, x + width) = [j \in 1 .. width |-> b + x + j]
    <3>1. x + width <= r /\ width \in Nat
      BY <1>1, <2>1
    <3> QED BY <2>1, <3>1, RunCut DEF l
  <2>4. Run(b + x, b + y) = [j \in 1 .. width |-> b + x + j]
    <3>1. (b + y) - (b + x) = width
      BY <1>1, <2>1
    <3> QED BY <3>1, Zenon DEF Run
  <2>5. b + x \in Nat /\ b + y \in Nat /\ b + x <= b + y
    BY <1>1, <2>1
  <2>6. Run(b + x, b + y) \in Seq(Nat)
    BY <2>5, RunIs, Zenon
  <2> QED BY <2>1, <2>2, <2>3, <2>4, <2>6 DEF x, y
<1>5. q \in Seq(Seq(Nat)) /\ Len(q) = n /\ \A i \in 1 .. n : q[i] = s(i)
  BY <1>4
<1>6. /\ g \in [0 .. n -> Nat] /\ g[0] = lo /\ g[n] = hi
      /\ \A i \in 0 .. n : g[i] = b + c(i)
  BY <1>1, <1>3
<1>7. Reads(l, at, width, n) = q
  BY Zenon DEF Reads, s
<1> HIDE DEF q, g
<1>8. ASSUME NEW i \in 1 .. n PROVE g[i - 1] <= g[i] /\ q[i] = Run(g[i - 1], g[i])
  <2>1. g[i - 1] = b + c(i - 1) /\ g[i] = b + c(i)
    BY <1>1, <1>6, Zenon
  <2>2. b + c(i - 1) <= b + c(i)
    BY <1>1
  <2> QED BY <1>4, <1>5, <2>1, <2>2, Zenon
<1>9. Cuts(g, q, lo, hi)
  BY <1>5, <1>6, <1>8, Zenon DEF Cuts
<1> QED BY <1>7, <1>9, Zenon DEF FollowOn

(* Where finalize goes on from words to half words, and from those to bytes.*)
LEMMA TailParts ==
  ASSUME NEW r \in Nat, NEW w \in {4, 8}
  PROVE  /\ r \div w \in Nat /\ w * (r \div w) = r - (r % w)
         /\ r % w \in 0 .. r /\ (r % w) \div 4 \in Nat /\ r % 4 \in 0 .. r
         /\ r - (r % w) + 4 * ((r % w) \div 4) = r - (r % 4)
<1>1. CASE w = 4
  BY <1>1
<1>2. CASE w = 8
  BY <1>2
<1> QED BY <1>1, <1>2

LEMMA TailFollowsOn ==
  ASSUME NEW a \in Algorithms, NEW b \in Nat, NEW r \in Nat, NEW len,
         len % StripeOf(a) = r, NEW n, n = b + r
  PROVE  FollowOn(Finalize(a, [i \in 1 .. r |-> b + i], len), b, n)
<1> DEFINE w == a.word
           l == [i \in 1 .. r |-> b + i]
           k == r \div w
           x == r - (r % w)
           m == (r % w) \div 4
           y == r - (r % 4)
           e == r % 4
           none == 0
           one == 1
           four == 4
           d == y - x
           bx == b + x
           by == b + y
           A == Reads(l, none, w, k)
           B == Reads(l, x, four, m)
           C == Reads(l, y, one, e)
<1>1. w \in {4, 8}
  BY Stripes
<1>2. Finalize(a, l, len) = A \o B \o C
  BY Zenon DEF Finalize
<1> HIDE DEF w
<1>3. /\ k \in Nat /\ w * k = x /\ x \in Nat /\ m \in Nat /\ e \in Nat /\ y \in Nat
      /\ x + 4 * m = y /\ x <= r /\ y <= r /\ y + e = r
  <2>1. /\ r \div w \in Nat /\ w * (r \div w) = r - (r % w)
        /\ r % w \in 0 .. r /\ (r % w) \div 4 \in Nat /\ r % 4 \in 0 .. r
        /\ r - (r % w) + 4 * ((r % w) \div 4) = r - (r % 4)
    BY <1>1, TailParts, Zenon
  <2> QED BY <2>1
<1>4. /\ none \in Nat /\ none + x <= r /\ b = b + none /\ bx = b + none + x
      /\ bx = b + x /\ by = b + x + d /\ x + d <= r /\ by = b + y
      /\ y + e <= r /\ n = b + y + e
  BY <1>3
<1>5. /\ d = four * m /\ e = one * e
      /\ w \in {1, 4, 8, 16, 32} /\ four \in {1, 4, 8, 16, 32} /\ one \in {1, 4, 8, 16, 32}
  BY <1>1, <1>3
<1> HIDE DEF none, four, one, d, k, x, m, y, e, bx, by
<1>6. FollowOn(A, b, bx)
  <2>1. /\ none \in Nat /\ k \in Nat /\ b = b + none /\ bx = b + none + x
        /\ none + x <= r
    BY <1>3, <1>4, Zenon
  <2>2. w \in {1, 4, 8, 16, 32} /\ x = w * k
    BY <1>3, <1>5, Zenon
  <2> QED BY <2>1, <2>2, ReadsFollowOn
<1>7. FollowOn(B, bx, by)
  <2>1. x \in Nat /\ m \in Nat /\ bx = b + x /\ by = b + x + d /\ x + d <= r
    BY <1>3, <1>4, Zenon
  <2>2. four \in {1, 4, 8, 16, 32} /\ d = four * m
    BY <1>5, Zenon
  <2> QED BY <2>1, <2>2, ReadsFollowOn
<1>8. FollowOn(C, by, n)
  <2>1. y \in Nat /\ e \in Nat /\ by = b + y /\ n = b + y + e /\ y + e <= r
    BY <1>3, <1>4, Zenon
  <2>2. one \in {1, 4, 8, 16, 32} /\ e = one * e
    BY <1>5, Zenon
  <2> QED BY <2>1, <2>2, ReadsFollowOn
<1> HIDE DEF A, B, C
<1>9. FollowOn(A \o B, b, by)
  BY <1>6, <1>7, FollowOnJoins, Zenon
<1>10. FollowOn(A \o B \o C, b, n)
  BY <1>8, <1>9, FollowOnJoins, Zenon
<1> QED BY <1>2, <1>10, Zenon

(* XXH32 and XXH64 take in every byte, once and in order.                   *)
LEMMA OneShotReadsAll ==
  ASSUME NEW a \in Algorithms, NEW n \in Nat
  PROVE  FlattenSeq(OneShot(a, Fed(n)).start.rounds \o OneShot(a, Fed(n)).tail) = Fed(n)
<1> DEFINE S == StripeOf(a)
           s == Fed(n)
           c == n \div S
           r == n % S
           x == n - r
           z == 0
           W == WholeStripes(a, s)
           F == Finalize(a, LeftOver(a, s), n)
<1>1. S \in {16, 32} /\ S \in {1, 4, 8, 16, 32}
  BY Stripes
<1>2. s \in Seq(Nat) /\ Len(s) = n
  BY DEF Fed
<1>3. /\ c \in Nat /\ r \in 0 .. n /\ x \in Nat /\ x = S * c /\ z + x <= n
      /\ z \in Nat /\ x = z + z + x /\ n = x + r /\ z = z + z
      /\ n < S => c = 0
  <2>1. CASE S = 16
    BY <2>1
  <2>2. CASE S = 32
    BY <2>2
  <2> QED BY <1>1, <2>1, <2>2
<1> HIDE DEF S, c, r, x, z
<1>4. s = [i \in 1 .. n |-> z + i]
  BY DEF Fed, z
<1>5. W = Reads(s, 0, S, c)
  BY <1>2, Zenon DEF WholeStripes, S, c
<1> HIDE DEF s
<1>6. FollowOn(W, z, x)
  <2>1. FollowOn(Reads([i \in 1 .. n |-> z + i], z, S, c), z, x)
    BY <1>1, <1>3, ReadsFollowOn, Zenon
  <2> QED BY <1>4, <1>5, <2>1, Zenon DEF z
<1>7. LeftOver(a, s) = [i \in 1 .. r |-> x + i]
  <2>1. LeftOver(a, s) = SubSeq(s, x + 1, n)
    BY <1>2, Zenon DEF LeftOver, S, r, x
  <2>2. SubSeq([i \in 1 .. n |-> z + i], x + 1, x + r) = [j \in 1 .. r |-> z + x + j]
    <3>1. x + r <= n /\ r \in Nat
      BY <1>3
    <3> QED BY <1>3, <3>1, RunCut
  <2>3. z + x = x /\ x + r = n
    BY <1>3 DEF z
  <2> QED BY <1>4, <2>1, <2>2, <2>3, Zenon
<1>8. FollowOn(F, x, n)
  <2>1. n % StripeOf(a) = r /\ r \in Nat
    BY <1>3 DEF r, S
  <2> QED BY <1>3, <1>7, <2>1, TailFollowsOn, Zenon
<1> HIDE DEF W, F
<1>9. FlattenSeq(W \o F) = s
  <2>1. FollowOn(W \o F, z, n)
    BY <1>6, <1>8, FollowOnJoins, Zenon
  <2> QED BY <2>1, FlattenRuns, Zenon DEF z, s
<1>10. OneShot(a, s).start.rounds = W /\ OneShot(a, s).tail = F
  <2>1. OneShot(a, s) = [start  |-> IF n >= S THEN Merged(W) ELSE Unmerged(<<>>),
                         length |-> Counted(a, n), tail |-> F]
    BY <1>2, Zenon DEF OneShot, S, W, F
  <2>2. ~ (n >= S) => W = <<>>
    <3> SUFFICES ASSUME ~ (n >= S) PROVE W = <<>>
      OBVIOUS
    <3>1. c = 0
      BY <1>1, <1>3
    <3> QED BY <1>5, <3>1 DEF Reads
  <2>3. /\ OneShot(a, s).tail = F
        /\ OneShot(a, s).start = IF n >= S THEN Merged(W) ELSE Unmerged(<<>>)
    <3> DEFINE st == IF n >= S THEN Merged(W) ELSE Unmerged(<<>>)
    <3> HIDE DEF st
    <3>1. OneShot(a, s) = [start |-> st, length |-> Counted(a, n), tail |-> F]
      BY <2>1, Zenon DEF st
    <3>2. OneShot(a, s).tail = F /\ OneShot(a, s).start = st
      BY <3>1
    <3> QED BY <3>2 DEF st
  <2>4. Merged(W).rounds = W /\ Unmerged(<<>>).rounds = <<>>
    BY DEF Merged, Unmerged
  <2> QED BY <2>2, <2>3, <2>4, Zenon
<1> QED BY <1>9, <1>10, Zenon DEF s

(* fasthash64 reads whole words and the bytes that are left.                *)
LEMMA FastHashReadsAll ==
  ASSUME NEW n \in Nat
  PROVE  UNION FastHash(n) = Whole(n)
<1> DEFINE Words == {Bytes(8 * k, 8) : k \in 0 .. n \div 8 - 1}
           Rest == IF n % 8 = 0 THEN {} ELSE {Bytes(n - (n % 8), n % 8)}
<1>1. FastHash(n) = Words \cup Rest
  BY Zenon DEF FastHash
<1>2. ASSUME NEW k \in 0 .. n \div 8 - 1, NEW x \in Bytes(8 * k, 8) PROVE x \in Whole(n)
  BY DEF Bytes, Whole
<1>3. ASSUME n % 8 # 0, NEW x \in Bytes(n - (n % 8), n % 8) PROVE x \in Whole(n)
  BY <1>3 DEF Bytes, Whole
<1>4. ASSUME NEW x \in UNION FastHash(n) PROVE x \in Whole(n)
  <2>1. PICK b \in Words \cup Rest : x \in b
    BY <1>1, Zenon
  <2>2. CASE b \in Words
    BY <1>2, <2>1, <2>2
  <2>3. CASE b \in Rest
    <3>1. n % 8 # 0 /\ b = Bytes(n - (n % 8), n % 8)
      BY <2>3
    <3> QED BY <1>3, <2>1, <3>1
  <2> QED BY <2>1, <2>2, <2>3
<1>5. ASSUME NEW x \in Whole(n) PROVE x \in UNION FastHash(n)
  <2>1. x \in Nat /\ x < n
    BY DEF Whole
  <2>2. CASE x < 8 * (n \div 8)
    <3> DEFINE k == x \div 8
    <3>1. k \in 0 .. n \div 8 - 1 /\ x \in Bytes(8 * k, 8)
      BY <2>1, <2>2 DEF Bytes
    <3>2. Bytes(8 * k, 8) \in Words
      <4> HIDE DEF k
      <4> QED BY <3>1, Zenon
    <3> HIDE DEF k, Words, Rest
    <3> QED BY <1>1, <3>1, <3>2
  <2>3. CASE ~ (x < 8 * (n \div 8))
    <3>1. n % 8 # 0 /\ x \in Bytes(n - (n % 8), n % 8)
      BY <2>1, <2>3 DEF Bytes
    <3>2. Bytes(n - (n % 8), n % 8) \in Rest
      BY <3>1, Zenon
    <3> HIDE DEF Words, Rest
    <3> QED BY <1>1, <3>1, <3>2
  <2> QED BY <2>2, <2>3
<1> QED BY <1>4, <1>5

LEMMA TwoData == ASSUME NEW p, NEW q PROVE Data({p, q}) = p.data \cup q.data
BY Zenon DEF Data

LEMMA ShortReadsAll ==
  ASSUME NEW n \in 0 .. 16
  PROVE  Data(Len0to16(n)) = Whole(n)
<1>1. CASE n = 0
  BY <1>1 DEF Len0to16, Data, Whole
<1>2. CASE n \in 1 .. 3
  <2>1. Len0to16(n) = Len1to3(n)
    BY <1>2 DEF Len0to16
  <2>2. Data(Len1to3(n)) = {0, n \div 2} \cup {n - 1}
    <3> DEFINE p == [data |-> {0, n \div 2}, key |-> Bytes(0, 4)]
               q == [data |-> {n - 1}, key |-> Bytes(4, 4)]
    <3>1. p.data = {0, n \div 2} /\ q.data = {n - 1}
      BY Zenon
    <3>2. Len1to3(n) = {p, q}
      BY Zenon DEF Len1to3
    <3> HIDE DEF p, q
    <3> QED BY <3>1, <3>2, TwoData, Zenon
  <2>3. {0, n \div 2} \cup {n - 1} = Whole(n)
    <3>1. CASE n = 1
      BY <3>1 DEF Whole
    <3>2. CASE n = 2
      BY <3>2 DEF Whole
    <3>3. CASE n = 3
      BY <3>3 DEF Whole
    <3> QED BY <1>2, <3>1, <3>2, <3>3
  <2> QED BY <2>1, <2>2, <2>3, Zenon
<1>3. CASE n \in 4 .. 8
  <2>1. Len0to16(n) = Len4to8(n)
    BY <1>3 DEF Len0to16
  <2>2. Data(Len4to8(n)) = Bytes(0, 4) \cup Bytes(n - 4, 4)
    BY TwoData DEF Len4to8, Piece
  <2>3. Bytes(0, 4) \cup Bytes(n - 4, 4) = Whole(n)
    BY <1>3 DEF Bytes, Whole
  <2> QED BY <2>1, <2>2, <2>3, Zenon
<1>4. CASE n > 8
  <2>1. Len0to16(n) = Len9to16(n)
    BY <1>4 DEF Len0to16
  <2>2. Data(Len9to16(n)) = Bytes(0, 8) \cup Bytes(n - 8, 8)
    BY TwoData DEF Len9to16, Piece
  <2>3. Bytes(0, 8) \cup Bytes(n - 8, 8) = Whole(n)
    BY <1>4 DEF Bytes, Whole
  <2> QED BY <2>1, <2>2, <2>3, Zenon
<1> QED BY <1>1, <1>2, <1>3, <1>4

LEMMA MixedReadsAll ==
  ASSUME NEW n \in 17 .. 128
  PROVE  Data(Mixed(n)) = Whole(n)
<1> DEFINE K == (n - 1) \div 32
<1>1. K \in 0 .. 3 /\ 32 * K < n /\ n <= 32 * (K + 1) /\ 16 * (K + 1) <= n
  OBVIOUS
<1>2. Pairs(n) = 0 .. K
  BY DEF Pairs
<1> HIDE DEF K
<1>3. ASSUME NEW k \in 0 .. K
      PROVE  /\ Pair(n, k)[1].data = Bytes(16 * k, 16)
             /\ Pair(n, k)[2].data = Bytes(n - 16 * (k + 1), 16)
  <2>1. /\ Pair(n, k)[1] = Piece(16 * k, 32 * k, 16)
        /\ Pair(n, k)[2] = Piece(n - 16 * (k + 1), 32 * k + 16, 16)
    BY DEF Pair
  <2>2. /\ Piece(16 * k, 32 * k, 16).data = Bytes(16 * k, 16)
        /\ Piece(n - 16 * (k + 1), 32 * k + 16, 16).data = Bytes(n - 16 * (k + 1), 16)
    BY DEF Piece
  <2> QED BY <2>1, <2>2, Zenon
<1>4. ASSUME NEW x
      PROVE  x \in Data(Mixed(n)) <=>
               \E k \in 0 .. K : x \in Bytes(16 * k, 16) \/ x \in Bytes(n - 16 * (k + 1), 16)
  <2>1. x \in Data(Mixed(n)) <=>
          \E k \in 0 .. K : x \in Pair(n, k)[1].data \/ x \in Pair(n, k)[2].data
    <3>1. x \in Data(Mixed(n)) <=> \E p \in Mixed(n) : x \in p.data
      BY DEF Data
    <3>2. \A p : p \in Mixed(n) <=> \E k \in 0 .. K : p = Pair(n, k)[1] \/ p = Pair(n, k)[2]
      BY <1>2 DEF Mixed
    <3> QED BY <3>1, <3>2, Zenon
  <2> QED BY <1>3, <2>1, Zenon
<1>5. ASSUME NEW k \in 0 .. K, NEW x, x \in Bytes(16 * k, 16) \/ x \in Bytes(n - 16 * (k + 1), 16)
      PROVE  x \in Whole(n)
  BY <1>1, <1>5 DEF Bytes, Whole
<1>6. ASSUME NEW x \in Whole(n)
      PROVE  \E k \in 0 .. K : x \in Bytes(16 * k, 16) \/ x \in Bytes(n - 16 * (k + 1), 16)
  <2>1. x \in Nat /\ x < n
    BY DEF Whole
  <2>2. CASE x < 16 * (K + 1)
    <3> DEFINE k == x \div 16
    <3>1. k \in 0 .. K /\ x \in Bytes(16 * k, 16)
      BY <1>1, <2>1, <2>2 DEF Bytes
    <3> HIDE DEF k
    <3> QED BY <3>1
  <2>3. CASE ~ (x < 16 * (K + 1))
    <3> DEFINE k == (n - 1 - x) \div 16
    <3>1. k \in 0 .. K /\ x \in Bytes(n - 16 * (k + 1), 16)
      BY <1>1, <2>1, <2>3 DEF Bytes
    <3> HIDE DEF k
    <3> QED BY <3>1
  <2> QED BY <2>2, <2>3
<1> QED BY <1>4, <1>5, <1>6

LEMMA RangeJoins ==
  ASSUME NEW T, NEW p \in Seq(T), NEW q \in Seq(T)
  PROVE  Range(p \o q) = Range(p) \cup Range(q)
<1> DEFINE r == p \o q
           M == Len(p)
           N == Len(q)
<1>1. /\ r \in Seq(T) /\ Len(r) = M + N
      /\ \A i \in 1 .. M + N : r[i] = IF i <= M THEN p[i] ELSE q[i - M]
  BY ConcatProperties
<1>2. M \in Nat /\ N \in Nat /\ DOMAIN p = 1 .. M /\ DOMAIN q = 1 .. N /\ DOMAIN r = 1 .. M + N
  BY <1>1
<1> HIDE DEF r, M, N
<1>3. ASSUME NEW i \in 1 .. M + N PROVE r[i] \in Range(p) \cup Range(q)
  <2>1. CASE i <= M
    <3>1. i \in 1 .. M /\ r[i] = p[i]
      BY <1>1, <1>2, <2>1
    <3> QED BY <1>2, <3>1 DEF Range
  <2>2. CASE ~ (i <= M)
    <3>1. i - M \in 1 .. N /\ r[i] = q[i - M]
      BY <1>1, <1>2, <2>2
    <3> QED BY <1>2, <3>1 DEF Range
  <2> QED BY <2>1, <2>2
<1>4. ASSUME NEW i \in 1 .. M PROVE p[i] \in Range(r)
  <2>1. i \in 1 .. M + N /\ r[i] = p[i]
    BY <1>1, <1>2
  <2> QED BY <1>2, <2>1 DEF Range
<1>5. ASSUME NEW i \in 1 .. N PROVE q[i] \in Range(r)
  <2> DEFINE j == M + i
  <2>1. j \in 1 .. M + N /\ ~ (j <= M) /\ j - M = i
    BY <1>2
  <2> HIDE DEF j
  <2>2. r[j] = q[i]
    BY <1>1, <2>1
  <2> QED BY <1>2, <2>1, <2>2 DEF Range
<1>6. Range(r) = Range(p) \cup Range(q)
  BY <1>2, <1>3, <1>4, <1>5 DEF Range
<1> QED BY <1>6 DEF r

(* What the first n sequences of q hold.                                    *)
Gathered(q, n) == UNION {Range(q[i]) : i \in 1 .. n}

LEMMA GatheredGrows ==
  ASSUME NEW q, NEW k \in Nat, k >= 1
  PROVE  Gathered(q, k) = Gathered(q, k - 1) \cup Range(q[k])
<1>1. \A i : i \in 1 .. k <=> i \in 1 .. k - 1 \/ i = k
  OBVIOUS
<1> QED BY <1>1 DEF Gathered

LEMMA FlattenRange ==
  ASSUME NEW T, NEW q \in Seq(Seq(T)), Len(q) # 0
  PROVE  Range(FlattenSeq(q)) = Gathered(q, Len(q))
<1> DEFINE N == Len(q)
<1>1. N \in Nat /\ N # 0 /\ \A i \in 1 .. N : q[i] \in Seq(T)
  OBVIOUS
<1>2. PICK f : /\ f[1] = q[1] /\ \A i \in 2 .. N : f[i] = f[i - 1] \o q[i]
               /\ FlattenSeq(q) = f[N]
  BY FlattenIs, Zenon
<1> HIDE DEF N
<1> DEFINE Good(i) == f[i] \in Seq(T) /\ Range(f[i]) = Gathered(q, i)
           B == {i \in 1 .. N : ~ Good(i)}
<1>3. B = {}
  <2> SUFFICES ASSUME B # {} PROVE FALSE
    OBVIOUS
  <2>1. PICK k \in B : \A j \in B : k <= j
    <3> B \subseteq Nat
      OBVIOUS
    <3> HIDE DEF B
    <3> QED BY LeastNatural
  <2>2. k \in 1 .. N /\ ~ Good(k)
    OBVIOUS
  <2>3. CASE k = 1
    <3>1. f[1] \in Seq(T) /\ f[1] = q[1]
      BY <1>1, <1>2
    <3>2. Gathered(q, 1) = Range(q[1])
      <4>1. \A i : i \in 1 .. 1 <=> i = 1
        OBVIOUS
      <4> QED BY <4>1 DEF Gathered
    <3> QED BY <2>2, <2>3, <3>1, <3>2
  <2>4. CASE k # 1
    <3>1. k \in 2 .. N /\ k - 1 \in 1 .. N /\ ~ (k <= k - 1) /\ k \in Nat /\ k >= 1
      BY <1>1, <2>2, <2>4
    <3>2. Good(k - 1)
      <4> HIDE DEF Good
      <4> QED BY <2>1, <3>1
    <3>3. f[k] = f[k - 1] \o q[k] /\ q[k] \in Seq(T)
      BY <1>1, <1>2, <2>2, <3>1, Zenon
    <3>4. f[k] \in Seq(T)
      BY <3>2, <3>3
    <3>5. Range(f[k]) = Range(f[k - 1]) \cup Range(q[k])
      BY <3>2, <3>3, RangeJoins
    <3>6. Gathered(q, k) = Gathered(q, k - 1) \cup Range(q[k])
      BY <3>1, GatheredGrows
    <3> QED BY <2>2, <3>2, <3>4, <3>5, <3>6
  <2> QED BY <2>3, <2>4
<1>4. Good(N)
  <2> HIDE DEF Good
  <2> QED BY <1>1, <1>3
<1> QED BY <1>2, <1>4, Zenon DEF N

(* The bytes the stripes of a long input read.                              *)
LEMMA StripesAreRead ==
  ASSUME NEW n \in Nat, NEW x
  PROVE  x \in Data(Range(FlattenSeq(HashLong(n)))) <=>
           \/ \E b \in 1 .. n \div BlockLen, i \in 1 .. NbKeys :
                x \in Bytes((b - 1) * BlockLen + (i - 1) * StripeLen, StripeLen)
           \/ \E i \in 1 .. LeftStripes(n) :
                x \in Bytes(LastAt(n) + (i - 1) * StripeLen, StripeLen)
           \/ n % StripeLen # 0 /\ x \in Bytes(n - StripeLen, StripeLen)
<1> DEFINE T == [data : SUBSET Int, key : SUBSET Int]
           q == HashLong(n)
           d == n \div BlockLen
           l == LastBlock(n)
           m == LeftStripes(n)
           c == LastStripes(n)
           In(b) == \E i \in DOMAIN b : x \in b[i].data
           full(b, i) == Bytes((b - 1) * BlockLen + (i - 1) * StripeLen, StripeLen)
           rest(i) == Bytes(LastAt(n) + (i - 1) * StripeLen, StripeLen)
           end == Bytes(n - StripeLen, StripeLen)
<1>1. /\ d \in Nat /\ q \in Seq(Seq(T)) /\ Len(q) = d + 1
      /\ \A b \in 1 .. d : q[b] = Accumulate((b - 1) * BlockLen, NbKeys)
      /\ q[d + 1] = l
  BY HashLongIs, Zenon
<1>2. /\ m \in 0 .. 15 /\ l \in Seq(T) /\ Len(l) = c
      /\ \A i \in 1 .. m : l[i].data = rest(i)
      /\ n % StripeLen # 0 => l[c].data = end
      /\ n % StripeLen # 0 => c = m + 1
      /\ ~ (n % StripeLen # 0) => c = m
  BY LastBlockIs, Zenon DEF LastStripes
<1>3. ASSUME NEW b \in 1 .. d
      PROVE  In(q[b]) <=> \E i \in 1 .. NbKeys : x \in full(b, i)
  <2> DEFINE A == Accumulate((b - 1) * BlockLen, NbKeys)
  <2>1. (b - 1) * BlockLen \in Int /\ NbKeys \in Nat
    <3> HIDE DEF d
    <3> QED BY <1>1 DEF BlockLen, StripeLen, NbKeys, KeySize, StripeElts
  <2>2. A \in Seq(T) /\ Len(A) = NbKeys /\ \A i \in 1 .. NbKeys : A[i].data = full(b, i)
    BY <2>1, AccumulateIs, Zenon
  <2>3. q[b] = A
    BY <1>1, Zenon
  <2> HIDE DEF A, q, d, full
  <2>4. DOMAIN A = 1 .. NbKeys
    BY <2>2
  <2> QED BY <2>2, <2>3, <2>4, Zenon
<1> HIDE DEF T, q, d, l, m, c, full, rest, end
<1>4. In(l) <=> (\E i \in 1 .. m : x \in rest(i)) \/ (n % StripeLen # 0 /\ x \in end)
  <2>1. DOMAIN l = 1 .. c
    BY <1>2
  <2>2. CASE n % StripeLen # 0
    <3>1. \A i : i \in 1 .. c <=> i \in 1 .. m \/ i = c
      BY <1>2, <2>2
    <3> QED BY <1>2, <2>1, <2>2, <3>1, Zenon
  <2>3. CASE ~ (n % StripeLen # 0)
    BY <1>2, <2>1, <2>3, Zenon
  <2> QED BY <2>2, <2>3
<1>5. x \in Data(Range(FlattenSeq(q))) <=> \E b \in 1 .. d + 1 : In(q[b])
  <2>1. Len(q) # 0
    BY <1>1
  <2>2. Range(FlattenSeq(q)) = Gathered(q, d + 1)
    BY <1>1, <2>1, FlattenRange, Zenon
  <2>3. x \in Data(Gathered(q, d + 1)) <=> \E p \in Gathered(q, d + 1) : x \in p.data
    BY Zenon DEF Data
  <2>4. \A p : p \in Gathered(q, d + 1) <=>
                 \E b \in 1 .. d + 1 : \E i \in DOMAIN q[b] : p = q[b][i]
    BY DEF Gathered, Range
  <2>5. (\E p \in Gathered(q, d + 1) : x \in p.data) <=>
          \E b \in 1 .. d + 1 : \E i \in DOMAIN q[b] : x \in q[b][i].data
    <3> DEFINE G == Gathered(q, d + 1)
               D == 1 .. d + 1
    <3>1. \A p : p \in G <=> \E b \in D : \E i \in DOMAIN q[b] : p = q[b][i]
      BY <2>4
    <3> HIDE DEF G, D
    <3>2. (\E p \in G : x \in p.data) <=>
            \E b \in D : \E i \in DOMAIN q[b] : x \in q[b][i].data
      BY <3>1
    <3> QED BY <3>2 DEF G, D
  <2> QED BY <2>2, <2>3, <2>5
<1>6. \A b : b \in 1 .. d + 1 <=> b \in 1 .. d \/ b = d + 1
  BY <1>1
<1>7. x \in Data(Range(FlattenSeq(q))) <=>
        \/ \E b \in 1 .. d : \E i \in 1 .. NbKeys : x \in full(b, i)
        \/ \E i \in 1 .. m : x \in rest(i)
        \/ n % StripeLen # 0 /\ x \in end
  <2> HIDE DEF In
  <2> QED BY <1>1, <1>3, <1>4, <1>5, <1>6, Zenon
<1> QED BY <1>7, Zenon DEF q, d, m, full, rest, end

(* Stripe by stripe, XXH3 reads every byte of a long input.                 *)
LEMMA LongReadsAll ==
  ASSUME NEW n \in Nat, n > 128
  PROVE  Data(Range(FlattenSeq(HashLong(n)))) = Whole(n)
<1> DEFINE S == StripeLen
           K == NbKeys
           L == BlockLen
           d == n \div L
           at == L * d
           m == (n % L) \div S
           full(b, i) == Bytes((b - 1) * L + (i - 1) * S, S)
           rest(i) == Bytes(at + (i - 1) * S, S)
           end == Bytes(n - S, S)
           Read(x) == \/ \E b \in 1 .. d, i \in 1 .. K : x \in full(b, i)
                      \/ \E i \in 1 .. m : x \in rest(i)
                      \/ n % S # 0 /\ x \in end
<1>1. S = 64 /\ K = 16 /\ L = 1024
  BY DEF BlockLen, StripeLen, NbKeys, KeySize, StripeElts
<1>2. \A x : x \in Data(Range(FlattenSeq(HashLong(n)))) <=> Read(x)
  BY StripesAreRead, Zenon DEF LastAt, LeftStripes
<1> HIDE DEF S, K, L
<1>3. /\ d \in Nat /\ m \in Nat /\ at \in Nat /\ at = 1024 * d
      /\ at + 64 * m <= n /\ n < at + 64 * m + 64
      /\ (n % 64 = 0 => n = at + 64 * m)
  BY <1>1
<1> HIDE DEF d, at, m
<1>4. ASSUME NEW b \in 1 .. d, NEW i \in 1 .. K, NEW x \in full(b, i) PROVE x \in Whole(n)
  BY <1>1, <1>3 DEF Bytes, Whole
<1>5. ASSUME NEW i \in 1 .. m, NEW x \in rest(i) PROVE x \in Whole(n)
  BY <1>1, <1>3 DEF Bytes, Whole
<1>6. ASSUME NEW x \in end PROVE x \in Whole(n)
  BY <1>1 DEF Bytes, Whole
<1>7. ASSUME NEW x \in Whole(n) PROVE Read(x)
  <2>1. x \in Nat /\ x < n
    BY DEF Whole
  <2>2. CASE x < at
    <3> DEFINE b == x \div 1024 + 1
               i == (x % 1024) \div 64 + 1
    <3>1. b \in 1 .. d /\ i \in 1 .. K /\ x \in full(b, i)
      BY <1>1, <1>3, <2>1, <2>2 DEF Bytes
    <3> HIDE DEF b, i, full, rest, end
    <3> QED BY <3>1, Zenon
  <2>3. CASE x >= at /\ x < at + 64 * m
    <3> DEFINE i == (x - at) \div 64 + 1
    <3>1. i \in 1 .. m /\ x \in rest(i)
      BY <1>1, <1>3, <2>1, <2>3 DEF Bytes
    <3> HIDE DEF i, full, rest, end
    <3> QED BY <3>1, Zenon
  <2>4. CASE x >= at + 64 * m
    <3>1. n % S # 0 /\ x \in end
      BY <1>1, <1>3, <2>1, <2>4 DEF Bytes
    <3> QED BY <3>1, Zenon
  <2>5. x < at \/ (x >= at /\ x < at + 64 * m) \/ x >= at + 64 * m
    BY <1>3, <2>1
  <2> HIDE DEF Read
  <2> QED BY <2>2, <2>3, <2>4, <2>5
<1> HIDE DEF full, rest, end
<1>8. ASSUME NEW x, Read(x) PROVE x \in Whole(n)
  BY <1>4, <1>5, <1>6, <1>8, Zenon
<1> HIDE DEF Read
<1> QED BY <1>2, <1>7, <1>8

(* XXH32, XXH64 and fasthash64 take in every byte of their input, and XXH3  *)
(* reads every byte and none around it, whatever the length.                *)
THEOREM NoByteIsMissed == LibrariesSpec => []EveryByteIsHashed
<1>1. LibrariesSpec => []Measured
  BY MeasuredHolds
<1>2. Measured => EveryByteIsHashed
  <2> SUFFICES ASSUME Measured, input.form = "length" PROVE EveryByteIsHashed
    BY Zenon DEF EveryByteIsHashed
  <2> DEFINE n == input.is
             branch == CASE n <= 16         -> Len0to16(n)
                         [] n \in 17 .. 128 -> Mixed(n)
                         [] OTHER           -> Range(FlattenSeq(HashLong(n)))
  <2>1. n \in Nat
    BY DEF Measured
  <2>2. ASSUME NEW a \in Algorithms
        PROVE  LET h == OneShot(a, [i \in 1 .. n |-> i])
               IN  FlattenSeq(h.start.rounds \o h.tail) = [i \in 1 .. n |-> i]
    BY <2>1, OneShotReadsAll, Zenon DEF Fed
  <2>3. UNION FastHash(n) = Whole(n)
    BY <2>1, FastHashReadsAll, Zenon
  <2> HIDE DEF n
  <2>4. Data(branch) = Whole(n)
    <3>1. CASE n <= 16
      <4>1. n \in 0 .. 16 /\ branch = Len0to16(n)
        BY <2>1, <3>1
      <4> QED BY <4>1, ShortReadsAll, Zenon
    <3>2. CASE n \in 17 .. 128
      <4>1. ~ (n <= 16)
        BY <3>2
      <4>2. branch = Mixed(n)
        BY <3>2, <4>1
      <4> QED BY <3>2, <4>2, MixedReadsAll, Zenon
    <3>3. CASE n > 128
      <4>1. ~ (n <= 16) /\ n \notin 17 .. 128
        BY <2>1, <3>3
      <4>2. branch = Range(FlattenSeq(HashLong(n)))
        BY <4>1
      <4> QED BY <2>1, <3>3, <4>2, LongReadsAll, Zenon
    <3> QED BY <2>1, <3>1, <3>2, <3>3
  <2> QED BY <2>2, <2>3, <2>4, Zenon DEF EveryByteIsHashed, n
<1> QED BY <1>1, <1>2, PTL

-----------------------------------------------------------------------------
(* XXH3 on different processors.                                            *)

(* What the invariant of the factors is: they are words.                    *)
Multiplied == input.form = "factors" => input.is \in Factors

LEMMA MultipliedHolds == LibrariesSpec => []Multiplied
<1>1. LibrariesInit => Multiplied
  <2> SUFFICES ASSUME LibrariesInit, input.form = "factors" PROVE input.is \in Factors
    BY DEF Multiplied
  <2>1. CASE input = Given("stream", <<>>)
    BY <2>1 DEF Given
  <2>2. CASE input = Given("length", 0)
    BY <2>2 DEF Given
  <2>3. CASE input \in {Given(form, <<>>) : form \in {"octets", "units", "points"}}
    BY <2>3 DEF Given
  <2>4. CASE input \in {Given("factors", p) : p \in Factors}
    BY <2>4 DEF Given
  <2> QED BY <2>1, <2>2, <2>3, <2>4, Zenon DEF LibrariesInit
<1>2. Multiplied /\ [LibrariesNext]_libraryVars => Multiplied'
  <2> SUFFICES ASSUME Multiplied, [LibrariesNext]_libraryVars PROVE Multiplied'
    OBVIOUS
  <2>1. CASE Typed("octets", OctetValues, MaxOctets)
    BY <2>1 DEF Typed, Multiplied
  <2>2. CASE Typed("units", UnitValues, MaxUnits)
    BY <2>2 DEF Typed, Multiplied
  <2>3. CASE Typed("points", PointValues, MaxPoints)
    BY <2>3 DEF Typed, Multiplied
  <2>4. CASE Lengthen
    BY <2>4 DEF Lengthen, Multiplied
  <2>5. CASE UNCHANGED input
    BY <2>5 DEF Multiplied, Factors
  <2> QED BY <2>1, <2>2, <2>3, <2>4, <2>5 DEF LibrariesNext, libraryVars
<1> QED BY <1>1, <1>2, PTL DEF LibrariesSpec

(* A lane of any processor reads the words that the scalar lane reads.       *)
LEMMA LanesAgree == Shuffling = Scalar /\ Zipping = Scalar
<1>1. ASSUME NEW i \in 0 .. 7
      PROVE  /\ {2 * i, Shuffled(2 * i)} = {2 * i, 2 * i + 1}
             /\ LET z == Zipped(i \div 2)
                IN  {z[1 + (i % 2)], z[3 + (i % 2)]} = {2 * i, 2 * i + 1}
  <2>1. CASE i = 0
    BY <2>1 DEF Shuffled, Zipped
  <2>2. CASE i = 1
    BY <2>2 DEF Shuffled, Zipped
  <2>3. CASE i = 2
    BY <2>3 DEF Shuffled, Zipped
  <2>4. CASE i = 3
    BY <2>4 DEF Shuffled, Zipped
  <2>5. CASE i = 4
    BY <2>5 DEF Shuffled, Zipped
  <2>6. CASE i = 5
    BY <2>6 DEF Shuffled, Zipped
  <2>7. CASE i = 6
    BY <2>7 DEF Shuffled, Zipped
  <2>8. CASE i = 7
    BY <2>8 DEF Shuffled, Zipped
  <2>9. i = 0 \/ i = 1 \/ i = 2 \/ i = 3 \/ i = 4 \/ i = 5 \/ i = 6 \/ i = 7
    OBVIOUS
  <2> QED BY <2>1, <2>2, <2>3, <2>4, <2>5, <2>6, <2>7, <2>8, <2>9, Zenon
<1>2. 0 .. AccNb - 1 = 0 .. 7
  BY DEF AccNb
<1> QED BY <1>1, <1>2 DEF Shuffling, Zipping, Scalar

LEMMA MoreTimes ==
  ASSUME NEW c \in Nat, NEW a \in Nat, NEW b \in Nat, a <= b
  PROVE  c * a \in Nat /\ c * b \in Nat /\ c * a <= c * b
<1>1. PICK d \in Nat : b = a + d
  <2>1. b - a \in Nat /\ b = a + (b - a)
    OBVIOUS
  <2> QED BY <2>1
<1>2. c * b = c * a + c * d /\ c * a \in Nat /\ c * d \in Nat
  BY <1>1
<1> QED BY <1>1, <1>2

LEMMA HalvesAre ==
  ASSUME NEW h \in Nat \ {0}, NEW x \in Nat
  PROVE  /\ High(x, h) \in Nat /\ Low(x, h) \in Nat /\ Low(x, h) < h
         /\ x = h * High(x, h) + Low(x, h)
         /\ x < h * h => High(x, h) < h
<1>1. /\ High(x, h) \in Nat /\ Low(x, h) \in Nat /\ Low(x, h) < h
      /\ x = h * High(x, h) + Low(x, h)
  BY DEF High, Low
<1> DEFINE p == High(x, h)
           q == Low(x, h)
<1> HIDE DEF p, q
<1>2. ASSUME x < h * h, ~ (p < h) PROVE FALSE
  <2>1. p \in Nat /\ q \in Nat /\ x = h * p + q
    BY <1>1 DEF p, q
  <2>2. h * h <= h * p /\ h * p \in Nat /\ h * h \in Nat
    BY <1>2, <2>1, MoreTimes
  <2> QED BY <1>2, <2>1, <2>2
<1> QED BY <1>1, <1>2 DEF p, q

(* A sum that is cut to a word wrapped if and only if it is below its first *)
(* part.                                                                    *)
Carries(W, u, v, a, z, t, c) ==
  /\ W \in Nat \ {0} /\ u \in Nat /\ u < W /\ v \in Nat /\ v < W /\ a \in Nat
  /\ z = W * a + v
  /\ t = (u + z) % W
  /\ c = IF t < u THEN 1 ELSE 0

Carried(W, u, a, z, t, c) ==
  t \in Nat /\ t < W /\ c \in Nat /\ u + z = W * (a + c) + t

LEMMA CarryIs ==
  ASSUME NEW W, NEW u, NEW v, NEW a, NEW z, NEW t, NEW c, Carries(W, u, v, a, z, t, c)
  PROVE  Carried(W, u, a, z, t, c)
<1>0. /\ W \in Nat \ {0} /\ u \in Nat /\ u < W /\ v \in Nat /\ v < W /\ a \in Nat
      /\ z = W * a + v
      /\ t = (u + z) % W
      /\ c = IF t < u THEN 1 ELSE 0
  BY Zenon DEF Carries
<1> DEFINE d == IF u + v < W THEN 0 ELSE 1
           r == IF u + v < W THEN u + v ELSE u + v - W
           e == a + d
           s == u + z
<1>1. d \in {0, 1} /\ r \in 0 .. W - 1 /\ u + v = W * d + r
  <2>1. CASE u + v < W
    BY <1>0, <2>1
  <2>2. CASE ~ (u + v < W)
    BY <1>0, <2>2
  <2> QED BY <2>1, <2>2
<1>2. W * (a + d) = W * a + W * d /\ W * a \in Int /\ W * d \in Int
  <2>1. CASE d = 0
    BY <1>0, <2>1
  <2>2. CASE d = 1
    BY <1>0, <2>2
  <2> QED BY <1>1, <2>1, <2>2
<1>3. d = IF r < u THEN 1 ELSE 0
  <2>1. CASE u + v < W
    BY <1>0, <2>1
  <2>2. CASE ~ (u + v < W)
    BY <1>0, <2>2
  <2> QED BY <2>1, <2>2
<1> HIDE DEF d, r
<1>4. s = W * e + r /\ s \in Int /\ e \in Int
  BY <1>0, <1>1, <1>2
<1> HIDE DEF s, e
<1>5. s % W = r
  BY <1>0, <1>1, <1>4, QuotientIsUnique
<1>6. t = r
  BY <1>0, <1>5 DEF s
<1>7. c = d
  BY <1>0, <1>3, <1>6
<1> QED BY <1>0, <1>1, <1>4, <1>6, <1>7 DEF s, e, Carried

(* The product of two words, by their halves.                               *)
LEMMA ProductIs ==
  ASSUME NEW h \in Nat, NEW p \in Nat, NEW q \in Nat, NEW r \in Nat, NEW s \in Nat
  PROVE  (h * p + q) * (h * r + s) = h * h * (p * r) + (h * (q * r) + h * (p * s)) + q * s
OBVIOUS

(* The sum of the two words of a product.                                   *)
Product(x, y) == x * y

FoldOf(x, y, W) == (Product(x, y) \div W + (Product(x, y) % W)) % W

HasHalves(product, W, a, l) ==
  W \in Nat \ {0} /\ a \in Nat /\ l \in Nat /\ l < W /\ product = W * a + l

FoldIsSum(x, y, W, a, l) == FoldOf(x, y, W) = (a + l) % W

LEMMA FoldIs ==
  ASSUME NEW x, NEW y, NEW W, NEW a, NEW l, HasHalves(Product(x, y), W, a, l)
  PROVE  FoldIsSum(x, y, W, a, l)
<1> DEFINE z == Product(x, y)
<1>1. z \in Int /\ z = W * a + l /\ l \in 0 .. W - 1 /\ a \in Int
  <2>1. W \in Nat \ {0} /\ a \in Nat /\ l \in Nat /\ l < W /\ z = W * a + l
    BY Zenon DEF HasHalves
  <2> HIDE DEF z
  <2>2. W * a \in Int
    BY <2>1
  <2> QED BY <2>1, <2>2
<1> HIDE DEF z
<1>2. z \div W = a /\ z % W = l
  <2>1. W \in Nat \ {0}
    BY DEF HasHalves
  <2> QED BY <1>1, <2>1, QuotientIsUnique
<1> QED BY <1>2 DEF FoldOf, FoldIsSum, z

(* The parts of two words, as both ways of folding a product need them.     *)
LEMMA WordsAre ==
  ASSUME NEW h \in Nat \ {0}, NEW x \in 0 .. h * h - 1, NEW y \in 0 .. h * h - 1,
         NEW p, p = High(x, h), NEW q, q = Low(x, h), NEW r, r = High(y, h), NEW s, s = Low(y, h)
  PROVE  /\ p \in Nat /\ q \in Nat /\ r \in Nat /\ s \in Nat
         /\ p * r \in Nat /\ q * r \in Nat /\ p * s \in Nat /\ q * s \in Nat
         /\ h * h \in Nat \ {0} /\ q * s < h * h
         /\ Product(x, y) = h * h * (p * r) + (h * (q * r) + h * (p * s)) + q * s
<1>1. x \in Nat /\ y \in Nat /\ h * h \in Nat /\ h * h # 0
  <2>1. h * h \in Nat
    OBVIOUS
  <2>2. x \in Nat /\ y \in Nat /\ x < h * h
    BY <2>1
  <2> QED BY <2>1, <2>2
<1>2. /\ p \in Nat /\ q \in Nat /\ q < h /\ x = h * p + q
      /\ r \in Nat /\ s \in Nat /\ s < h /\ y = h * r + s
  BY <1>1, HalvesAre
<1>3. p * r \in Nat /\ q * r \in Nat /\ p * s \in Nat /\ q * s \in Nat
  BY <1>2
<1>4. q * s < h * h
  <2>1. q * s <= q * h
    BY <1>2, MoreTimes
  <2>2. h * q <= h * (h - 1) /\ h * (h - 1) \in Nat
    BY <1>2, MoreTimes
  <2>3. h * (h - 1) = h * h - h /\ q * h = h * q /\ h * q \in Nat
    BY <1>2
  <2> QED BY <1>1, <1>3, <2>1, <2>2, <2>3
<1>5. Product(x, y) = (h * p + q) * (h * r + s)
  BY <1>2, Zenon DEF Product
<1> QED BY <1>1, <1>2, <1>3, <1>4, <1>5, ProductIs

LEMMA LowTimes ==
  ASSUME NEW h \in Nat \ {0}, NEW m \in Nat, NEW a, a = High(m, h), NEW b, b = Low(m, h)
  PROVE  /\ a \in Nat /\ b \in Nat /\ b < h /\ m = h * a + b
         /\ h * b \in Nat /\ h * b + h <= h * h /\ h * b < h * h
         /\ h * m = h * h * a + h * b /\ m * h = h * m
<1>1. a \in Nat /\ b \in Nat /\ b < h /\ m = h * a + b
  BY HalvesAre
<1>2. h * b <= h * (h - 1) /\ h * b \in Nat /\ h * (h - 1) \in Nat
  BY <1>1, MoreTimes
<1>3. h * (h - 1) = h * h - h /\ h * h \in Nat
  OBVIOUS
<1>4. h * (h * a + b) = h * h * a + h * b
  BY <1>1
<1>5. m * h = h * m
  OBVIOUS
<1>6. h * b + h <= h * h /\ h * b < h * h
  <2> DEFINE B == h * b
             H == h * h
             C == h * (h - 1)
  <2>1. B \in Nat /\ H \in Nat /\ C = H - h /\ B <= C /\ C \in Nat
    BY <1>2, <1>3
  <2> HIDE DEF B, H, C
  <2>2. B + h <= H /\ B < H
    BY <2>1
  <2> QED BY <2>2 DEF B, H
<1> QED BY <1>1, <1>2, <1>4, <1>5, <1>6

LEMMA FoldedIs ==
  ASSUME NEW h \in Nat \ {0}, NEW x \in 0 .. h * h - 1, NEW y \in 0 .. h * h - 1
  PROVE  Folded(x, y, h) = FoldOf(x, y, h * h)
<1> DEFINE W == h * h
           p == High(x, h)
           q == Low(x, h)
           r == High(y, h)
           s == Low(y, h)
           mid1 == q * r
           mid2 == p * s
           low == q * s
           a1 == High(mid1, h)
           b1 == Low(mid1, h)
           a2 == High(mid2, h)
           b2 == Low(mid2, h)
           t == (low + mid1 * h) % W
           l == (t + mid2 * h) % W
           c1 == IF t < low THEN 1 ELSE 0
           c2 == IF l < t THEN 1 ELSE 0
           carry == c1 + c2
           hh == p * r
<1>1. Folded(x, y, h) = (hh + a1 + a2 + carry + l) % W
  BY Zenon DEF Folded
<1>2. /\ hh \in Nat /\ mid1 \in Nat /\ mid2 \in Nat /\ low \in Nat
      /\ W \in Nat \ {0} /\ low < W
      /\ Product(x, y) = W * hh + (h * mid1 + h * mid2) + low
  <2> HIDE DEF p, q, r, s
  <2> QED BY WordsAre DEF p, q, r, s
<1> HIDE DEF p, q, r, s, hh, mid1, mid2, low
<1>3. /\ a1 \in Nat /\ h * b1 \in Nat /\ h * b1 < W /\ mid1 * h = W * a1 + h * b1
      /\ h * mid1 = mid1 * h
  <2> HIDE DEF a1, b1
  <2>1. /\ a1 \in Nat /\ h * b1 \in Nat /\ h * b1 < h * h
        /\ h * mid1 = h * h * a1 + h * b1 /\ mid1 * h = h * mid1
    BY <1>2, LowTimes DEF a1, b1
  <2> QED BY <2>1
<1>4. /\ a2 \in Nat /\ h * b2 \in Nat /\ h * b2 < W /\ mid2 * h = W * a2 + h * b2
      /\ h * mid2 = mid2 * h
  <2> HIDE DEF a2, b2
  <2>1. /\ a2 \in Nat /\ h * b2 \in Nat /\ h * b2 < h * h
        /\ h * mid2 = h * h * a2 + h * b2 /\ mid2 * h = h * mid2
    BY <1>2, LowTimes DEF a2, b2
  <2> QED BY <2>1
<1> DEFINE v1 == h * b1
           v2 == h * b2
           z1 == mid1 * h
           z2 == mid2 * h
<1>5. /\ v1 \in Nat /\ v1 < W /\ z1 = W * a1 + v1 /\ t = (low + z1) % W
      /\ c1 = IF t < low THEN 1 ELSE 0
  BY <1>3, Zenon
<1>6. /\ v2 \in Nat /\ v2 < W /\ z2 = W * a2 + v2 /\ l = (t + z2) % W
      /\ c2 = IF l < t THEN 1 ELSE 0
  BY <1>4, Zenon
<1>7. Product(x, y) = W * hh + (z1 + z2) + low
  BY <1>2, <1>3, <1>4, Zenon
<1> HIDE DEF W, a1, b1, a2, b2, v1, v2, z1, z2, t, l, c1, c2
<1>8. t \in Nat /\ t < W /\ c1 \in Nat /\ low + z1 = W * (a1 + c1) + t
  <2>1. Carries(W, low, v1, a1, z1, t, c1)
    BY <1>2, <1>3, <1>5, Zenon DEF Carries
  <2>2. Carried(W, low, a1, z1, t, c1)
    BY <2>1, CarryIs, Zenon
  <2> QED BY <2>2, Zenon DEF Carried
<1>9. l \in Nat /\ l < W /\ c2 \in Nat /\ t + z2 = W * (a2 + c2) + l
  <2>1. Carries(W, t, v2, a2, z2, l, c2)
    BY <1>2, <1>4, <1>6, <1>8, Zenon DEF Carries
  <2>2. Carried(W, t, a2, z2, l, c2)
    BY <2>1, CarryIs, Zenon
  <2> QED BY <2>2, Zenon DEF Carried
<1> DEFINE e == hh + a1 + a2 + carry
<1>10. e \in Nat
  BY <1>2, <1>3, <1>4, <1>8, <1>9
<1>11. W * e = W * hh + W * (a1 + c1) + W * (a2 + c2)
  BY <1>2, <1>3, <1>4, <1>8, <1>9
<1>12. Product(x, y) = W * e + l
  <2> DEFINE A == W * hh
             B == W * (a1 + c1)
             C == W * (a2 + c2)
             D == W * e
  <2>1. /\ A \in Nat /\ B \in Nat /\ C \in Nat /\ D = A + B + C
        /\ low + z1 = B + t /\ t + z2 = C + l
        /\ Product(x, y) = A + (z1 + z2) + low
    BY <1>2, <1>3, <1>4, <1>7, <1>8, <1>9, <1>11
  <2>2. z1 \in Int /\ z2 \in Int
    BY <1>2, <1>3, <1>4, <1>5, <1>6
  <2> HIDE DEF A, B, C, D, e
  <2>3. Product(x, y) = D + l
    BY <1>2, <1>8, <1>9, <2>1, <2>2
  <2> QED BY <2>3 DEF D
<1> HIDE DEF e
<1>13. FoldOf(x, y, W) = (e + l) % W
  <2>1. HasHalves(Product(x, y), W, e, l)
    BY <1>2, <1>9, <1>10, <1>12, Zenon DEF HasHalves
  <2>2. FoldIsSum(x, y, W, e, l)
    BY <2>1, FoldIs, Zenon
  <2> QED BY <2>2, Zenon DEF FoldIsSum
<1> QED BY <1>1, <1>13 DEF e, W

LEMMA FoldedOnArmIs ==
  ASSUME NEW h \in Nat \ {0}, NEW x \in 0 .. h * h - 1, NEW y \in 0 .. h * h - 1
  PROVE  FoldedOnArm(x, y, h) = FoldOf(x, y, h * h)
<1> DEFINE W == h * h
           p == High(x, h)
           q == Low(x, h)
           r == High(y, h)
           s == Low(y, h)
           hh == p * r
           mid1 == q * r
           mid2 == p * s
           t1 == q * s
           t2 == mid2 + 0 + High(t1, h)
           t3 == mid1 + Low(t2, h) + 0
           t4 == hh + High(t2, h) + High(t3, h)
           l == Low(t1, h) + h * Low(t3, h)
<1>1. FoldedOnArm(x, y, h) = (t4 + Low(t1, h) + h * Low(t3, h)) % W
  BY Zenon DEF FoldedOnArm
<1>2. /\ hh \in Nat /\ mid1 \in Nat /\ mid2 \in Nat /\ t1 \in Nat
      /\ W \in Nat \ {0}
      /\ Product(x, y) = W * hh + (h * mid1 + h * mid2) + t1
  <2> HIDE DEF p, q, r, s
  <2> QED BY WordsAre DEF p, q, r, s
<1> HIDE DEF p, q, r, s, hh, mid1, mid2, t1
<1> DEFINE a1 == High(t1, h)
           b1 == Low(t1, h)
<1>3. a1 \in Nat /\ b1 \in Nat /\ b1 < h /\ t1 = h * a1 + b1
  BY <1>2, HalvesAre
<1> HIDE DEF a1, b1
<1>4. t2 \in Nat /\ t2 = mid2 + a1
  BY <1>2, <1>3 DEF a1
<1> HIDE DEF t2
<1> DEFINE a2 == High(t2, h)
           b2 == Low(t2, h)
<1>5. a2 \in Nat /\ b2 \in Nat /\ h * t2 = W * a2 + h * b2
  BY <1>4, LowTimes
<1> HIDE DEF a2, b2
<1>6. t3 \in Nat /\ t3 = mid1 + b2
  BY <1>2, <1>5 DEF b2
<1> HIDE DEF t3
<1> DEFINE a3 == High(t3, h)
           b3 == Low(t3, h)
<1>7. /\ a3 \in Nat /\ b3 \in Nat /\ h * t3 = W * a3 + h * b3
      /\ h * b3 \in Nat /\ h * b3 + h <= W
  BY <1>6, LowTimes
<1> HIDE DEF a3, b3
<1>8. t4 = hh + a2 + a3 /\ t4 \in Nat
  BY <1>2, <1>5, <1>7 DEF a2, a3
<1>9. l = b1 + h * b3 /\ l \in Nat /\ l < W
  BY <1>2, <1>3, <1>7 DEF b1, b3
<1>10. /\ h * t2 = h * mid2 + h * a1 /\ h * t3 = h * mid1 + h * b2
       /\ W * t4 = W * hh + W * a2 + W * a3
  BY <1>2, <1>3, <1>4, <1>5, <1>6, <1>7, <1>8
<1>11. Product(x, y) = W * t4 + l
  <2> DEFINE A == W * hh
             B == W * a2
             C == W * a3
             D == h * mid1
             E == h * mid2
             F == h * a1
             G == h * b2
             H == h * b3
             I == h * t2
             J == h * t3
             K == W * t4
  <2>1. /\ A \in Nat /\ B \in Nat /\ C \in Nat /\ D \in Nat /\ E \in Nat /\ F \in Nat
        /\ G \in Nat /\ H \in Nat
    BY <1>2, <1>3, <1>5, <1>7
  <2>2. /\ Product(x, y) = A + (D + E) + t1 /\ t1 = F + b1
        /\ I = B + G /\ J = C + H /\ I = E + F /\ J = D + G /\ K = A + B + C
        /\ l = b1 + H
    BY <1>2, <1>3, <1>5, <1>7, <1>9, <1>10, Zenon
  <2> HIDE DEF A, B, C, D, E, F, G, H, I, J, K, l
  <2>3. Product(x, y) = K + l
    BY <1>3, <2>1, <2>2
  <2> QED BY <2>3 DEF K
<1> HIDE DEF t4, W
<1>12. FoldOf(x, y, W) = (t4 + l) % W
  <2> HIDE DEF l
  <2>1. HasHalves(Product(x, y), W, t4, l)
    BY <1>2, <1>8, <1>9, <1>11, Zenon DEF HasHalves
  <2>2. FoldIsSum(x, y, W, t4, l)
    BY <2>1, FoldIs, Zenon
  <2> QED BY <2>2, Zenon DEF FoldIsSum
<1>13. t4 + l = t4 + b1 + h * b3
  BY <1>3, <1>7, <1>8, <1>9
<1> QED BY <1>1, <1>12, <1>13, Zenon DEF W, b1, b3

(* Whatever the width of a word: shuffled or zipped, XXH3 multiplies the    *)
(* same words, and a double product folded by hand or with umaal is the sum *)
(* of its halves.                                                           *)
THEOREM ProcessorsDoTheSame == LibrariesSpec => []ProcessorsAgree
<1>1. LibrariesSpec => []Multiplied
  BY MultipliedHolds
<1>2. Multiplied => ProcessorsAgree
  <2> SUFFICES ASSUME Multiplied PROVE ProcessorsAgree
    OBVIOUS
  <2>1. \A lanes \in {Shuffling, Zipping} : lanes = Scalar
    BY LanesAgree, Zenon
  <2>2. ASSUME input.form = "factors"
        PROVE  LET W == HalfWord * HalfWord
                   product == input.is.x * input.is.y
               IN  \A f \in {Folded(input.is.x, input.is.y, HalfWord),
                             FoldedOnArm(input.is.x, input.is.y, HalfWord)} :
                     f = (product \div W + (product % W)) % W
    <3> DEFINE h == HalfWord
               x == input.is.x
               y == input.is.y
    <3>1. h \in Nat \ {0}
      BY HalfWordAssumption, Zenon
    <3>2. x \in 0 .. h * h - 1 /\ y \in 0 .. h * h - 1
      BY <2>2 DEF Multiplied, Factors
    <3> HIDE DEF h, x, y
    <3>3. Folded(x, y, h) = FoldOf(x, y, h * h) /\ FoldedOnArm(x, y, h) = FoldOf(x, y, h * h)
      BY <3>1, <3>2, FoldedIs, FoldedOnArmIs, Zenon
    <3>4. FoldOf(x, y, h * h) = ((x * y) \div (h * h) + ((x * y) % (h * h))) % (h * h)
      BY Zenon DEF FoldOf, Product
    <3> QED BY <3>3, <3>4, Zenon DEF h, x, y
  <2> QED BY <2>1, <2>2, Zenon DEF ProcessorsAgree
<1> QED BY <1>1, <1>2, PTL

=============================================================================
