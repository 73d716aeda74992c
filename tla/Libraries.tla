----------------------------- MODULE Libraries ------------------------------
(* The libraries the contracts are built with, put to work on every input   *)
(* within bounds: a text is typed octet by octet (or unit by unit, or point *)
(* by point), an input to be hashed grows byte by byte or is fed to a       *)
(* stream.  The properties compare what the library does with a definition  *)
(* that does not follow its code.                                           *)
EXTENDS Utf8, XxHash, Xxh3

CONSTANTS
  OctetValues, UnitValues, PointValues,  \* what texts are made of
  MaxOctets, MaxUnits, MaxPoints,        \* bounds on their lengths
  MaxLength,                             \* bound on an input hashed in one call
  HalfWord                               \* what 2 ^ 32 is scaled to in a word of 64 bits

ASSUME OctetsAssumption == OctetValues \subseteq 0 .. 255
ASSUME LibrariesAssumption ==
  /\ UnitValues \subseteq 0 .. 65535
  /\ PointValues \subseteq 0 .. 2 ^ 21 - 1
  /\ {MaxOctets, MaxUnits, MaxPoints, MaxLength} \subseteq Nat

ASSUME HalfWordAssumption == HalfWord \in Nat \ {0}

VARIABLE input  \* what is given to a library, and in which form

libraryVars == <<input, hashVars>>

Given(form, x) == [form |-> form, is |-> x]
Factors == [x : 0 .. HalfWord * HalfWord - 1, y : 0 .. HalfWord * HalfWord - 1]

LibrariesInit ==
  \/ /\ HashInit
     /\ input = Given("stream", <<>>)
  \/ /\ hash = Fresh(XXH32) /\ fed = 0
     /\ \/ input \in {Given(form, <<>>) : form \in {"octets", "units", "points"}}
        \/ input = Given("length", 0)
        \/ input \in {Given("factors", p) : p \in Factors}

Typed(form, values, bound) ==
  /\ input.form = form
  /\ Len(input.is) < bound
  /\ \E v \in values : input' = [input EXCEPT !.is = Append(@, v)]
  /\ UNCHANGED hashVars

Lengthen ==
  /\ input.form = "length" /\ input.is < MaxLength
  /\ input' = [input EXCEPT !.is = @ + 1]
  /\ UNCHANGED hashVars

LibrariesNext ==
  \/ Typed("octets", OctetValues, MaxOctets)
  \/ Typed("units", UnitValues, MaxUnits)
  \/ Typed("points", PointValues, MaxPoints)
  \/ Lengthen
  \/ input.form = "stream" /\ HashNext /\ UNCHANGED input

LibrariesSpec == LibrariesInit /\ [][LibrariesNext]_libraryVars

-----------------------------------------------------------------------------
(* Texts.                                                                   *)

(* Table 3-7 of the Unicode standard: the ranges of the octets of each kind *)
(* of sequence.                                                             *)
Trails == \h80 .. \hBF
WellFormedSequences ==
  {<<\h00 .. \h7F>>, <<\hC2 .. \hDF, Trails>>,
   <<{\hE0}, \hA0 .. \hBF, Trails>>, <<\hE1 .. \hEC, Trails, Trails>>,
   <<{\hED}, \h80 .. \h9F, Trails>>, <<\hEE .. \hEF, Trails, Trails>>,
   <<{\hF0}, \h90 .. \hBF, Trails, Trails>>,
   <<\hF1 .. \hF3, Trails, Trails, Trails>>,
   <<{\hF4}, \h80 .. \h8F, Trails, Trails>>}

(* The lengths of such sequences that begin at s[i].                        *)
WellFormedAt(s, i) ==
  {Len(q) : q \in {q \in WellFormedSequences :
                     /\ Len(q) <= EndOf(s) - i
                     /\ \A k \in DOMAIN q : s[i + k - 1] \in q[k]}}

(* The positions up to which s is made of such sequences.                   *)
Boundaries(s) ==
  LET reach[j \in 0 .. Len(s)] ==
        j = 0 \/ \E i \in 0 .. j - 1 : reach[i] /\ j - i \in WellFormedAt(s, i + 1)
  IN  {j \in 0 .. Len(s) : reach[j]}

WellFormed(s) == Len(s) \in Boundaries(s)

(* The library accepts exactly the well-formed texts, and points at the end *)
(* of the well-formed part of any other: no overlong form, no surrogate,    *)
(* nothing above the last code point.                                       *)
ValidIsWellFormed ==
  input.form = "octets" => FindInvalid(input.is) = Max(Boundaries(input.is)) + 1

(* Replacing what is invalid gives a valid text and leaves a valid one as   *)
(* it is.  All well-formed sequences survive, and nothing else but markers, *)
(* not more than there were octets to replace; it gives up only on a text   *)
(* that ends before its last sequence does.                                 *)
RepairIsSound ==
  input.form = "octets" =>
    LET s == input.is
        marker == \hFFFD
        r == ReplaceInvalid(s, marker)
        Decode(i) == FlattenSeq(SetToSeq({Utf8to32(SubSeq(s, i, i + n - 1)).out :
                                            n \in WellFormedAt(s, i)}))
        good == FlattenSeq([i \in DOMAIN s |-> Decode(i)])
        points == Utf8to32(r.out).out
    IN  IF r.err = Ok
        THEN /\ IsValid(r.out)
             /\ IsValid(s) => r.out = s
             /\ SelectSeq(points, LAMBDA c : c # marker) = good
             /\ Len(points) <= Len(s)
        ELSE \E i \in DOMAIN s : /\ SequenceLength(s[i]) > EndOf(s) - i
                                 /\ \A j \in i + 1 .. Len(s) : IsTrail(s[j])

(* A text survives the way to UTF-16 and UTF-32 and back, and the unchecked *)
(* half of the library does the same as the checked one; UTF-16 is refused  *)
(* just where a surrogate stands alone, and code points where they are not  *)
(* valid.                                                                   *)
ConversionsAgree ==
  CASE input.form = "octets" /\ WellFormed(input.is) ->
         LET s == input.is
             points == Utf8to32(s).out
             units == Utf8to16(s).out
         IN  /\ Utf32to8(points).out = s /\ Utf16to8(units).out = s
             /\ UncheckedTo32(s) = points /\ UncheckedTo16(s) = units
             /\ UncheckedFrom32(points) = s /\ UncheckedFrom16(units) = s
    [] input.form = "octets" /\ ~ WellFormed(input.is) ->
         Utf8to32(input.is).err # Ok
    [] input.form = "units" ->
         LET u == input.is
             r == Utf16to8(u)
             Leads(i) == i \in DOMAIN u /\ IsLeadSurrogate(u[i])
             Trails16(i) == i \in DOMAIN u /\ IsTrailSurrogate(u[i])
         IN  IF r.err = Ok THEN WellFormed(r.out) /\ Utf8to16(r.out).out = u
             ELSE \E i \in DOMAIN u : \/ Leads(i) /\ ~ Trails16(i + 1)
                                      \/ Trails16(i) /\ ~ Leads(i - 1)
    [] input.form = "points" ->
         LET r == Utf32to8(input.is)
         IN  IF \A i \in DOMAIN input.is : IsCodePointValid(input.is[i])
             THEN WellFormed(r.out) /\ Utf8to32(r.out).out = input.is
             ELSE r.err # Ok
    [] OTHER -> TRUE

(* Walking back over a valid text stops where walking forward did, with the *)
(* same code points, in both halves of the library; the number of steps is  *)
(* the distance.                                                            *)
WalksAgree ==
  input.form = "octets" /\ WellFormed(input.is) =>
    LET s == input.is
        stops == {i + 1 : i \in Boundaries(s)}
    IN  /\ Distance(s) = [err |-> Ok, steps |-> Cardinality(stops) - 1]
        /\ Advance(s, 1, Cardinality(stops) - 1, EndOf(s)).it = EndOf(s)
        /\ \A i \in stops \ {EndOf(s)} :
             LET v == Next(s, i, EndOf(s))
             IN  /\ v.it = Min({j \in stops : j > i})
                 /\ Prior(s, v.it) = [v EXCEPT !.it = i]
                 /\ UncheckedPrior(s, v.it) = i
                 /\ UncheckedIncrement(s, i) = v.it

(* gxc.account decodes nicknames without checking them.  Of a well-formed   *)
(* one without NUL it accepts just those whose every character is allowed,  *)
(* and nothing it reads lies behind the string.                             *)
NicknameIsDecoded ==
  LET s == input.is
      points == Utf8to32(s).out
  IN  input.form = "octets" /\ s # <<>> /\ WellFormed(s) /\ ~ Contains(s, 0) =>
        NicknameVerdicts(s) = {\A i \in DOMAIN points : IsValidChar(points[i])}

-----------------------------------------------------------------------------
(* Hashes.                                                                  *)

(* However an input is cut into pieces, the stream ends in the hash of the  *)
(* whole: also where the buffer holds bytes of earlier pieces, and where    *)
(* the length of XXH32 has wrapped below that of a stripe.                  *)
StreamIsOneShot == Digest(hash) = OneShot(hash.alg, [i \in 1 .. fed |-> i])

Whole(n) == 0 .. n - 1
Data(pieces) == UNION {p.data : p \in pieces}

(* Each function reads every byte of its input, and none around it.         *)
EveryByteIsHashed ==
  input.form = "length" =>
    LET n == input.is
    IN  /\ \A a \in Algorithms :
             LET h == OneShot(a, [i \in 1 .. n |-> i])
             IN  FlattenSeq(h.start.rounds \o h.tail) = [i \in 1 .. n |-> i]
        /\ UNION FastHash(n) = Whole(n)
        /\ Data(CASE n <= 16          -> Len0to16(n)
                  [] n \in 17 .. 128  -> Mixed(n)
                  [] OTHER            -> Range(FlattenSeq(HashLong(n))))
           = Whole(n)

(* XXH3 stays inside its key of 48 words.  Short inputs mix each piece with *)
(* a part of the key of its own, of which 64-bit words are read aligned;    *)
(* stripes of a block of a long one start at different places of it.        *)
KeysAreApart ==
  input.form = "length" =>
    LET n == input.is
        Inside(pieces) == \A p \in pieces : p.key \subseteq Bytes(0, 4 * KeySize)
        Apart(pieces) == \A p, q \in pieces : p = q \/ p.key \cap q.key = {}
        Aligned(pieces) == n > 8 => \A p \in pieces : Min(p.key) % 8 = 0
        short == IF n <= 16 THEN Len0to16Wide(n)
                 ELSE MixedWide(n)[1] \cup MixedWide(n)[2]
    IN  IF n <= 128 THEN Inside(short) /\ Apart(short) /\ Aligned(short)
        ELSE \A b \in DOMAIN HashLong(n) :
               LET block == HashLong(n)[b]
               IN  /\ Inside(Range(block)) /\ ScrambleKey \subseteq Bytes(0, 4 * KeySize)
                   /\ \A i, j \in DOMAIN block : i = j \/ block[i].key # block[j].key

(* Whatever processor it is compiled for, XXH3 multiplies the same words.   *)
ProcessorsAgree ==
  /\ input.form = "length" /\ input.is > 128 =>
       \A lanes \in {Shuffling, Zipping} :
         /\ Scrambled(lanes) = Scrambled(Scalar)
         /\ \A stripe \in Range(LastBlock(input.is)) :
              Accumulated(lanes, stripe) = Accumulated(Scalar, stripe)
  /\ input.form = "factors" =>
       LET W == HalfWord * HalfWord
           product == input.is.x * input.is.y
       IN  \A f \in {Folded(input.is.x, input.is.y, HalfWord),
                     FoldedOnArm(input.is.x, input.is.y, HalfWord)} :
             f = (product \div W + (product % W)) % W

=============================================================================
