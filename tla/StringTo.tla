------------------------------- MODULE StringTo -------------------------------
(***************************************************************************)
(* The numbers of options and configuration files: strToINT64, strToUINT64 *)
(* with their narrow variants, and strToDouble.  A text may end with K, M  *)
(* or G, which the decimal point is moved for before the C library reads   *)
(* it: strtoll and strtoull with base 0, strtod in decimal.                *)
(***************************************************************************)
EXTENDS Integers, Sequences

CONSTANTS
    Digits,     \* the digits of texts
    MaxDigits,  \* bound on their number
    Powers,     \* of the suffixes, 0 for none
    Bits,       \* of the widest integers (64)
    NarrowBits  \* of others

ASSUME ParametersAssumption ==
    /\ Digits \subseteq 0..9 /\ MaxDigits \in Nat
    /\ Powers \subseteq Nat
    /\ Bits \in Nat \ {0} /\ NarrowBits \in 1..Bits

VARIABLES text, kind, result

call == <<text, kind, result>>

\* What a call comes to: an exception, or a number, of which a double has the digits
\* and how many of them follow the point.
Pending == [is |-> "pending", number |-> 0, places |-> 0]
Refused == [is |-> "refused", number |-> 0, places |-> 0]
Accepted(number, places) == [is |-> "accepted", number |-> number, places |-> places]

\* b to the nth, and the value of digits.
Power(b, n) == LET p[i \in 0..n] == IF i = 0 THEN 1 ELSE b * p[i - 1] IN p[n]

Number(digits, base) ==
    LET v[i \in 0..Len(digits)] == IF i = 0 THEN 0 ELSE v[i - 1] * base + digits[i]
    IN  v[Len(digits)]

Zeros(n) == [i \in 1..n |-> 0]

\* [-]whole[.fraction][suffix].  Signs of +, white space and hexadecimal digits,
\* which the C library reads too, are left out, as are exponents.
Figures == UNION {[1..n -> Digits] : n \in 0..MaxDigits}

Text ==
    {t \in [negative : BOOLEAN, whole : Figures, point : BOOLEAN, fraction : Figures,
            power : Powers] :
        /\ Len(t.whole) + Len(t.fraction) <= MaxDigits
        /\ ~t.point => t.fraction = <<>>}

\* A type of integers and its limits, which the range asked for defaults to.
Signed(bits) == [type |-> "int", lo |-> -Power(2, bits - 1), hi |-> Power(2, bits - 1) - 1]
Unsigned(bits) == [type |-> "uint", lo |-> 0, hi |-> Power(2, bits) - 1]
Real == [type |-> "real"]

Kind == {Real} \cup {Signed(bits) : bits \in {Bits, NarrowBits}}
               \cup {Unsigned(bits) : bits \in {Bits, NarrowBits}}

Given ==
    /\ text \in Text
    /\ kind \in Kind
    /\ result = Pending

-----------------------------------------------------------------------------
\* Mutant: the digits after the point do not count.
AppendedAlways(t) ==
    [whole |-> t.whole \o t.fraction \o Zeros(t.power), point |-> FALSE, fraction |-> <<>>]

\* scaleNumericalStringRepresentation: the point moves over digits of the fraction
\* and stays where there are more of them; zeros make up for those that lack.
Scaled(t) ==
    IF t.power = 0 THEN [whole |-> t.whole, point |-> t.point, fraction |-> t.fraction]
    ELSE IF Len(t.fraction) > t.power
    THEN [whole |-> t.whole \o SubSeq(t.fraction, 1, t.power), point |-> TRUE,
          fraction |-> SubSeq(t.fraction, t.power + 1, Len(t.fraction))]
    ELSE [whole |-> t.whole \o t.fraction \o Zeros(t.power - Len(t.fraction)),
          point |-> FALSE, fraction |-> <<>>]

\* The base that base 0 stands for.
Base(digits) == IF Len(digits) > 1 /\ digits[1] = 0 THEN 8 ELSE 10

\* The library reads all of a text: it has digits, and nothing but digits.
ReadInFull(s) ==
    /\ s.whole # <<>> /\ ~s.point
    /\ \A i \in DOMAIN s.whole : s.whole[i] < Base(s.whole)

\* strtoll and strtoull without ERANGE: the latter negates within its width.
Representable(negative, magnitude, type) ==
    IF type = "uint" THEN magnitude < Power(2, Bits)
    ELSE magnitude < Power(2, Bits - 1) \/ (negative /\ magnitude = Power(2, Bits - 1))

Value(negative, magnitude, type) ==
    IF ~negative THEN magnitude
    ELSE IF type = "uint" THEN (Power(2, Bits) - magnitude) % Power(2, Bits) ELSE -magnitude

\* Mutant: the limits of the range are not in it.
StrictlyInRange(v, k) == k.lo < v /\ v < k.hi

InRange(v, k) == k.lo <= v /\ v <= k.hi

\* strToINT64, strToUINT64 and the functions that narrow their results.
Integer(t, k) ==
    LET s == Scaled(t)
        magnitude == Number(s.whole, Base(s.whole))
        v == Value(t.negative, magnitude, k.type)
    IN  IF ReadInFull(s) /\ Representable(t.negative, magnitude, k.type) /\ InRange(v, k)
        THEN Accepted(v, 0) ELSE Refused

\* strToDouble.  Rounding and the limits of a double are left out.
Double(t) ==
    LET s == Scaled(t)
        magnitude == Number(s.whole \o s.fraction, 10)
    IN  IF s.whole \o s.fraction = <<>> THEN Refused
        ELSE Accepted(IF t.negative THEN -magnitude ELSE magnitude, Len(s.fraction))

Convert ==
    /\ result = Pending
    /\ result' = IF kind = Real THEN Double(text) ELSE Integer(text, kind)
    /\ UNCHANGED <<text, kind>>

Conversion == Given /\ [][Convert]_call

-----------------------------------------------------------------------------
(* What a text means: its digits, times a power of ten.                    *)

Significand ==
    LET n == Number(text.whole \o text.fraction, 10) IN IF text.negative THEN -n ELSE n
Exponent == text.power - Len(text.fraction)

\* The text means an integer, and this one.
Whole == Exponent >= 0 \/ Significand % Power(10, -Exponent) = 0
Meant == IF Exponent >= 0 THEN Significand * Power(10, Exponent)
         ELSE Significand \div Power(10, -Exponent)

HasDigits == text.whole \o text.fraction # <<>>

\* A zero before other digits.
ZeroInFront == HasDigits /\ Head(text.whole \o text.fraction) = 0 /\ Significand # 0

\* What the text means, a real number wherever its point is; with two exceptions for
\* integers: a zero before other digits makes them octal (of the text as it is scaled:
\* 0.5K is 320), and the unsigned conversions wrap what is negative.
IsMeant ==
    IF kind = Real
    THEN result = IF Exponent >= 0 THEN Accepted(Significand * Power(10, Exponent), 0)
                                   ELSE Accepted(Significand, -Exponent)
    ELSE \/ Whole /\ result.number = Meant
         \/ ZeroInFront
         \/ kind.type = "uint" /\ text.negative

\* A number that is accepted is in the range and, but for these two exceptions, what the
\* text means.  A text without digits means none and is accepted only for its suffix,
\* whose zeros are all that is read of K, -K and .K: they come to zero, although
\* stringto.h:86-87 has an exception for errors of the format.
AcceptedIsMeant ==
    result.is = "accepted" =>
        /\ kind # Real => result.number \in kind.lo..kind.hi
        /\ IF HasDigits THEN IsMeant ELSE text.power # 0 /\ result = Accepted(0, 0)

\* No text is refused that means an integer in the range, is written without a zero
\* in front, and has no more digits after the point than its suffix moves it by.
MeantIsAccepted ==
    result.is = "refused" /\ kind # Real =>
        \/ ~HasDigits \/ ~Whole \/ Meant \notin kind.lo..kind.hi
        \/ ZeroInFront
        \/ text.point /\ (text.power = 0 \/ Exponent < 0)
=============================================================================
