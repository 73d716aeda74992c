-------------------------------- MODULE Utf8 --------------------------------
(* The library utf8, with which gxc.account decodes nicknames.  A text is a *)
(* sequence of octets, of 16-bit units or of code points, and an iterator   *)
(* an index into it, one past the length at the end.  A result is the       *)
(* output and the exception that cut it short.                              *)
(*                                                                          *)
(* A definition right above another with the same parameters is a faulty    *)
(* variant of it: PROJECT.json names the property that rules it out.        *)
EXTENDS Integers, Sequences, SequencesExt, FiniteSetsExt

Ok == "UTF8_OK"
Room == "NOT_ENOUGH_ROOM"

EndOf(s) == Len(s) + 1

IsTrail(b) == b \div 64 = 2
IsLeadSurrogate(u) == u \in \hD800 .. \hDBFF
IsTrailSurrogate(u) == u \in \hDC00 .. \hDFFF
IsCodePointValid(c) == c <= \h10FFFF /\ c \notin \hD800 .. \hDFFF

SequenceLength(b) ==
  CASE b < 128       -> 1
    [] b \div 32 = 6  -> 2
    [] b \div 16 = 14 -> 3
    [] b \div 8 = 30  -> 4
    [] OTHER         -> 0

IsOverlongSequence(c, n) ==
  \/ c < \h80 /\ n # 1
  \/ c \in \h80 .. \h7FF /\ n # 2
  \/ c \in \h800 .. \hFFFF /\ n # 3

(* The bits of n octets from i on, whatever they are.                       *)
Decoded(s, i, n) ==
  LET Trail(k) == s[i + k] % 64
  IN  CASE n = 2 -> 64 * (s[i] % 32) + Trail(1)
        [] n = 3 -> 64 * (64 * (s[i] % 16) + Trail(1)) + Trail(2)
        [] n = 4 -> 64 * (64 * (64 * (s[i] % 8) + Trail(1)) + Trail(2)) + Trail(3)
        [] OTHER -> s[i]

-----------------------------------------------------------------------------
(* Checked decoding.                                                        *)

GetSequenceBlindly(s, i, end, n) == IF i + n > end THEN Room ELSE Ok
(* get_sequence_1 to get_sequence_4: the first trail octet that is missing  *)
(* or is none.                                                              *)
GetSequence(s, i, end, n) ==
  LET bad == {k \in i + 1 .. i + n - 1 : k >= end \/ ~ IsTrail(s[k])}
  IN  IF bad = {} THEN Ok
      ELSE IF Min(bad) >= end THEN Room ELSE "INCOMPLETE_SEQUENCE"

ValidateNext(s, i, end) ==
  IF i = end THEN [err |-> Room, cp |-> 0, it |-> i]
  ELSE LET n   == SequenceLength(s[i])
           got == IF n = 0 THEN "INVALID_LEAD" ELSE GetSequence(s, i, end, n)
           cp  == Decoded(s, i, n)
           err == IF got # Ok THEN got
                  ELSE IF ~ IsCodePointValid(cp) THEN "INVALID_CODE_POINT"
                  ELSE IF IsOverlongSequence(cp, n) THEN "OVERLONG_SEQUENCE"
                  ELSE Ok
       IN  IF err = Ok THEN [err |-> Ok, cp |-> cp, it |-> i + n]
           ELSE [err |-> err, cp |-> 0, it |-> i]

FindInvalid(s) ==
  LET from[i \in 1 .. EndOf(s)] ==
        LET v == ValidateNext(s, i, EndOf(s))
        IN  IF i = EndOf(s) \/ v.err # Ok THEN i ELSE from[v.it]
  IN  from[1]

IsValid(s) == FindInvalid(s) = EndOf(s)

StartsWithBom(s) == IsPrefix(<<\hEF, \hBB, \hBF>>, s)

(* next; peek_next is the same, and leaves the iterator where it was.       *)
Next(s, i, end) ==
  LET v == ValidateNext(s, i, end)
  IN  [v EXCEPT !.err = CASE @ \in {Ok, Room}         -> @
                          [] @ = "INVALID_CODE_POINT" -> "invalid_code_point"
                          [] OTHER                    -> "invalid_utf8"]

PriorUnbounded(s, i) ==
  LET lead == Max({1} \cup {j \in 1 .. i - 2 : ~ IsTrail(s[j])})
  IN  [Next(s, lead, i) EXCEPT !.it = lead]
(* prior, and its deprecated form previous, which does not expect i = 1.    *)
Prior(s, i) ==
  LET lead == Max({0} \cup {j \in 1 .. i - 1 : ~ IsTrail(s[j])})
  IN  IF i = 1 THEN [err |-> Room, cp |-> 0, it |-> i]
      ELSE IF lead = 0 THEN [err |-> "invalid_utf8", cp |-> 0, it |-> 1]
      ELSE [Next(s, lead, i) EXCEPT !.it = lead]

(* Where n calls of next lead, or the exception.                            *)
Advance(s, i, n, end) ==
  LET after[k \in 0 .. n] ==
        IF k = 0 THEN [err |-> Ok, it |-> i]
        ELSE IF after[k - 1].err # Ok THEN after[k - 1]
        ELSE LET v == Next(s, after[k - 1].it, end) IN [err |-> v.err, it |-> v.it]
  IN  after[n]

-----------------------------------------------------------------------------
(* Checked conversions.                                                     *)

Nothing == [out |-> <<>>, err |-> Ok]
Thrown(err) == [out |-> <<>>, err |-> err]
Put(part, r) == [r EXCEPT !.out = part \o @]

(* The octets of a code point below 2 ^ 21.                                 *)
Octets(c) ==
  LET Trail(k) == 128 + ((c \div 64 ^ k) % 64)
  IN  CASE c \in 0 .. \h7F       -> <<c>>
        [] c \in \h80 .. \h7FF    -> <<192 + c \div 64, Trail(0)>>
        [] c \in \h800 .. \hFFFF  -> <<224 + c \div 64 ^ 2, Trail(1), Trail(0)>>
        [] OTHER -> <<240 + c \div 64 ^ 3, Trail(2), Trail(1), Trail(0)>>

AppendTo(c, r) ==
  IF IsCodePointValid(c) THEN Put(Octets(c), r) ELSE Thrown("invalid_code_point")

PastLength(s, i) == Min({i + SequenceLength(s[i]), EndOf(s)})
(* Past the octet i and the trail octets behind it.                         *)
PastTrails(s, i) == Min({j \in i + 1 .. EndOf(s) : j = EndOf(s) \/ ~ IsTrail(s[j])})

(* replace_invalid: one marker for a bad lead octet, or for a bad sequence. *)
ReplaceInvalid(s, marker) ==
  LET end == EndOf(s)
      from[i \in 1 .. end] ==
        LET v == ValidateNext(s, i, end)
        IN  IF i = end THEN Nothing
            ELSE CASE v.err = Ok             -> Put(SubSeq(s, i, v.it - 1), from[v.it])
                   [] v.err = Room           -> Thrown(Room)
                   [] v.err = "INVALID_LEAD" -> AppendTo(marker, from[i + 1])
                   [] OTHER                  -> AppendTo(marker, from[PastTrails(s, i)])
  IN  from[1]

Utf8to32(s) ==
  LET end == EndOf(s)
      from[i \in 1 .. end] ==
        LET v == Next(s, i, end)
        IN  IF i = end THEN Nothing
            ELSE IF v.err = Ok THEN Put(<<v.cp>>, from[v.it]) ELSE Thrown(v.err)
  IN  from[1]

Distance(s) == LET r == Utf8to32(s) IN [err |-> r.err, steps |-> Len(r.out)]

UnitsFromMin(c) ==
  IF c <= \hFFFF THEN <<c>>
  ELSE <<\hD800 + c \div 1024, \hDC00 + (c % 1024)>>
(* LEAD_OFFSET is 0xd800 less 0x10000 >> 10.                                *)
Units(c) ==
  IF c <= \hFFFF THEN <<c>>
  ELSE <<\hD800 - 64 + c \div 1024, \hDC00 + (c % 1024)>>

Utf8to16(s) ==
  LET r == Utf8to32(s)
  IN  [r EXCEPT !.out = FlattenSeq([k \in DOMAIN @ |-> Units(@[k])])]

Utf32to8(c) == FoldRight(AppendTo, c, Nothing)

Paired(lead, trail) == (lead - \hD800) * 1024 + (trail - \hDC00) + \h10000

Utf16to8(u) ==
  LET from[i \in 1 .. Len(u) + 2] ==
        IF i > Len(u) THEN Nothing
        ELSE CASE IsLeadSurrogate(u[i]) ->
                    IF i < Len(u) /\ IsTrailSurrogate(u[i + 1])
                    THEN AppendTo(Paired(u[i], u[i + 1]), from[i + 2])
                    ELSE Thrown("invalid_utf16")
               [] IsTrailSurrogate(u[i]) -> Thrown("invalid_utf16")
               [] OTHER -> AppendTo(u[i], from[i + 1])
  IN  from[1]

-----------------------------------------------------------------------------
(* The unchecked half: for text that is known to be valid.  A sequence that *)
(* is not all in s is undefined.                                            *)

UncheckedLength(b) == Max({1, SequenceLength(b)})
UncheckedNextByOctet(s, i) ==
  [cp |-> Decoded(s, i, UncheckedLength(s[i])), it |-> i + 1]
UncheckedNext(s, i) ==
  [cp |-> Decoded(s, i, UncheckedLength(s[i])), it |-> i + UncheckedLength(s[i])]

UncheckedPrior(s, i) == Max({j \in 1 .. i - 1 : ~ IsTrail(s[j])})

UncheckedTo32(s) ==
  LET from[i \in 1 .. Len(s) + 4] ==
        IF i > Len(s) THEN <<>>
        ELSE LET v == UncheckedNext(s, i) IN <<v.cp>> \o from[v.it]
  IN  from[1]

UncheckedTo16(s) ==
  LET c == UncheckedTo32(s) IN FlattenSeq([k \in DOMAIN c |-> Units(c[k])])

UncheckedFrom32(c) == FlattenSeq([k \in DOMAIN c |-> Octets(c[k])])

UncheckedFrom16(u) ==
  LET from[i \in 1 .. Len(u) + 2] ==
        IF i > Len(u) THEN <<>>
        ELSE IF IsLeadSurrogate(u[i])
             THEN Octets(Paired(u[i], u[i + 1])) \o from[i + 2]
             ELSE Octets(u[i]) \o from[i + 1]
  IN  from[1]

(* The iterator of the unchecked half steps by the length of the lead.      *)
UncheckedIncrement(s, i) == i + SequenceLength(s[i])

-----------------------------------------------------------------------------
(* The nicknames of gxc.account.                                            *)

IsValidChar(c) ==
  \/ c \in \h41 .. \h5A \/ c \in \h61 .. \h7A \/ c \in \h30 .. \h39
  \/ c \in \hAC00 .. \hD7AF

(* is_valid_nickname decodes up to the NUL that ends the string, and what   *)
(* lies behind it is anything: its verdict may be either.                   *)
NicknameVerdicts(s) ==
  LET t == Append(s, 0)
      from[i \in 1 .. Len(t) + 4] ==
        IF i > Len(t) \/ i + UncheckedLength(t[i]) > EndOf(t) THEN BOOLEAN
        ELSE LET v == UncheckedNext(t, i)
             IN  IF v.cp = 0 THEN {TRUE}
                 ELSE IF IsValidChar(v.cp) THEN from[v.it] ELSE {FALSE}
  IN  IF s = <<>> THEN {FALSE} ELSE from[1]

=============================================================================
