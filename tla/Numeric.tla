------------------------------ MODULE Numeric ------------------------------
(***************************************************************************)
(* The numeric type (src/types/numeric.cpp): decimal numbers of any        *)
(* precision, stored as groups of kDecDigits decimal digits. A client      *)
(* starts with the text of a number and applies operations to the result   *)
(* of the last one; `exact` is what the result should be, as an integer.   *)
(*                                                                         *)
(* The code has ten decimal digits and four of them in a group. Both are   *)
(* constants here, since a carry, a borrow, a group boundary or a rounding *)
(* digit is as interesting in base 2 as in base 10. Texts are records of   *)
(* a sign and two digit sequences; the machine width of the groups and     *)
(* Float8ToNumeric, which prints a double, are not modelled.               *)
(***************************************************************************)
EXTENDS Integers, Sequences, SequencesExt, FiniteSetsExt

CONSTANTS
    Ten,         \* the radix of a decimal digit: 10 in the code, even
    kDecDigits,  \* decimal digits in a group: 4 in the code
    DivExtra,    \* digits a quotient has beyond its operands: 8 in the code
    MaxInt,      \* bound: integer digits of an input
    MaxFrac,     \* bound: fractional digits of an input
    MaxScale,    \* bound: fractional digits of a product
    MaxSteps     \* bound: operations applied, one with two operands counts twice

VARIABLES
    acc,    \* the NumericData of the last result
    exact,  \* the number it stands for, times Ten^MaxScale
    steps

vars == <<acc, exact, steps>>

NBASE == Ten ^ kDecDigits

Larger(a, b) == IF a > b THEN a ELSE b

\* A numeric datum: groups with the most significant first, the position of
\* the first group (0 is the ones), the sign and the digits shown.
NumericData(digits, weight, sign, dscale) ==
    [digits |-> digits, weight |-> weight, sign |-> sign, dscale |-> dscale]

Cleared == NumericData(<< >>, 0, "pos", 0)

\* IsZero.
IsZero(v) == \A i \in DOMAIN v.digits : v.digits[i] = 0

\* DigitAt: the group at a position, 0 outside the stored ones.
DigitAt(v, pos) ==
    LET i == v.weight - pos + 1
    IN  IF i \in DOMAIN v.digits THEN v.digits[i] ELSE 0

\* StripZeros: no zero groups at either end.
StripZeros(v) ==
    LET kept == {i \in DOMAIN v.digits : v.digits[i] # 0}
    IN  IF kept = {}
        THEN [v EXCEPT !.digits = << >>, !.weight = 0, !.sign = "pos"]
        ELSE [v EXCEPT !.digits = SubSeq(@, Min(kept), Max(kept)),
                       !.weight = @ - (Min(kept) - 1)]

\* The groups that dscale fractional digits need.
FracGroups(dscale) == (dscale + kDecDigits - 1) \div kDecDigits

\* The position of the last stored group.
Lowest(v) == v.weight - Len(v.digits) + 1

\* EnsureFracCoverage: zero groups down to the last shown digit.
EnsureFracCoverage(v) ==
    LET missing == Lowest(v) + FracGroups(v.dscale)
    IN  IF v.dscale > 0 /\ missing > 0
        THEN [v EXCEPT !.digits = @ \o [i \in 1..missing |-> 0]]
        ELSE v

\* CompareAbs: the first position, from the top, that differs decides.
CompareAbs(a, b) ==
    LET positions == Min({Lowest(a), Lowest(b)})..Larger(a.weight, b.weight)
        differ == {p \in positions : DigitAt(a, p) # DigitAt(b, p)}
    IN  IF differ = {} THEN 0
        ELSE IF DigitAt(a, Max(differ)) < DigitAt(b, Max(differ)) THEN -1 ELSE 1

\* CompareSigned.
CompareSigned(a, b) ==
    CASE IsZero(a) /\ IsZero(b) -> 0
      [] IsZero(a) /\ ~IsZero(b) -> IF b.sign = "neg" THEN 1 ELSE -1
      [] ~IsZero(a) /\ (IsZero(b) \/ a.sign # b.sign) ->
             IF a.sign = "neg" THEN -1 ELSE 1
      [] OTHER -> IF a.sign = "neg" THEN -CompareAbs(a, b) ELSE CompareAbs(a, b)

\* AddAbs: |a| + |b|, with a carry from each position to the next.
AddAbs(a, b) ==
    LET lo == Min({Lowest(a), Lowest(b)})
        hi == Larger(a.weight, b.weight)
        sum[p \in (lo - 1)..hi] ==
            IF p < lo THEN 0
            ELSE DigitAt(a, p) + DigitAt(b, p)
                     + (IF sum[p - 1] >= NBASE THEN 1 ELSE 0)
        top == IF sum[hi] >= NBASE THEN <<1>> ELSE << >>
        groups == [i \in 1..(hi - lo + 1) |-> sum[hi - i + 1] % NBASE]
    IN  StripZeros(NumericData(top \o groups, hi + Len(top), "pos", 0))

\* SubAbs: |a| - |b| where |a| >= |b|, with a borrow.
SubAbs(a, b) ==
    LET lo == Min({Lowest(a), Lowest(b)})
        hi == Larger(a.weight, b.weight)
        diff[p \in (lo - 1)..hi] ==
            IF p < lo THEN 0
            ELSE DigitAt(a, p) - DigitAt(b, p) - (IF diff[p - 1] < 0 THEN 1 ELSE 0)
        groups == [i \in 1..(hi - lo + 1) |->
                      IF diff[hi - i + 1] < 0 THEN diff[hi - i + 1] + NBASE
                                              ELSE diff[hi - i + 1]]
    IN  StripZeros(NumericData(groups, hi, "pos", 0))

\* AddVar: the signs decide between adding and subtracting.
AddVar(a, b) ==
    CASE IsZero(a) -> b
      [] ~IsZero(a) /\ IsZero(b) -> a
      [] ~IsZero(a) /\ ~IsZero(b) /\ a.sign = b.sign ->
             [AddAbs(a, b) EXCEPT !.sign = a.sign]
      [] OTHER -> CASE CompareAbs(a, b) = 0 -> Cleared
                    [] CompareAbs(a, b) > 0 -> [SubAbs(a, b) EXCEPT !.sign = a.sign]
                    [] CompareAbs(a, b) < 0 -> [SubAbs(b, a) EXCEPT !.sign = b.sign]

Opposite(sign) == IF sign = "pos" THEN "neg" ELSE "pos"

\* SubVar: adding the opposite.
SubVar(a, b) ==
    AddVar(a, IF IsZero(b) THEN b ELSE [b EXCEPT !.sign = Opposite(@)])

\* MulVar: the products of the groups, summed by position, then the carries.
MulVar(a, b) ==
    LET hi == a.weight + b.weight + 1
        n  == hi - (Lowest(a) + Lowest(b)) + 1
        \* accum[i] stands for position hi - i.
        accum(i) ==
            FoldSet(LAMBDA k, s : s + a.digits[k] * DigitAt(b, (hi - i) - (a.weight - k + 1)),
                    0, DOMAIN a.digits)
        carried[i \in 0..(n + 1)] ==
            IF i > n THEN 0 ELSE accum(i) + carried[i + 1] \div NBASE
        top == IF carried[0] >= NBASE THEN <<carried[0] \div NBASE>> ELSE << >>
        groups == [i \in 1..(n + 1) |-> carried[i - 1] % NBASE]
    IN  IF IsZero(a) \/ IsZero(b) THEN Cleared
        ELSE StripZeros(NumericData(top \o groups, hi + Len(top),
                                    IF a.sign = b.sign THEN "pos" ELSE "neg",
                                    a.dscale + b.dscale))

\* A sequence of groups as one number, and back.
Number(groups) == FoldLeft(LAMBDA n, d : n * NBASE + d, 0, groups)

Groups(n, length) ==
    [i \in 1..length |-> (n \div (NBASE ^ (length - i))) % NBASE]

\* DivVar, one group in the divisor: long division.
ShortDivision(aa, divisor) ==
    LET rem[i \in 0..Len(aa)] ==
            IF i = 0 THEN 0 ELSE (rem[i - 1] * NBASE + aa[i]) % divisor
    IN  [i \in DOMAIN aa |-> (rem[i - 1] * NBASE + aa[i]) \div divisor]

\* DivVar, several groups: Knuth's algorithm D. Each quotient group is guessed
\* from the first two groups of what is left and lowered at most twice; the
\* product is subtracted only if one of the two trials fitted.
KnuthDivision(aa, bb) ==
    LET norm == NBASE \div (bb[1] + 1)
        width == Len(bb)
        div  == Number(bb) * norm
        first == Groups(div, width)[1]
        work[j \in 0..(Len(aa) + 1 - width)] ==
            IF j = 0
            THEN [left |-> Groups(Number(aa) * norm, Len(aa) + 1), quot |-> << >>]
            ELSE
            LET left   == work[j - 1].left
                window == Number(SubSeq(left, j, j + width))
                guess  == Min({(left[j] * NBASE + left[j + 1]) \div first, NBASE - 1})
                fits(q) == window >= q * div
                q == IF fits(guess) THEN guess
                     ELSE IF fits(guess - 1) THEN guess - 1 ELSE guess - 2
                rest == IF q = guess - 2 THEN window ELSE window - q * div
            IN  [left |-> SubSeq(left, 1, j - 1) \o Groups(rest, width + 1)
                              \o SubSeq(left, j + width + 1, Len(left)),
                 quot |-> Append(work[j - 1].quot, q)]
    IN  work[Len(aa) + 1 - width].quot

\* DivVar: the dividend is lengthened by zero groups, as many as the digits
\* of the quotient need when both operands are stored down to their dscale.
DivVar(a, b) ==
    LET dscale == Larger(a.dscale, b.dscale) + DivExtra
        extra == FracGroups(dscale - a.dscale + b.dscale)
        aa == a.digits \o [i \in 1..extra |-> 0]
        bb == StripZeros(b)
        quot == CASE Len(bb.digits) = 1 -> ShortDivision(aa, bb.digits[1])
                  [] Len(bb.digits) > Len(aa) -> << >>
                  [] OTHER -> KnuthDivision(aa, bb.digits)
    IN  IF IsZero(a) \/ Len(quot) = 0 THEN [Cleared EXCEPT !.dscale = dscale]
        ELSE StripZeros(NumericData(quot, a.weight - bb.weight,
                                    IF a.sign = b.sign THEN "pos" ELSE "neg", dscale))

\* TruncToScale: the group at the cut loses its low digits, those below go.
TruncToScale(v, scale) ==
    LET g == FracGroups(scale)
        mask == Ten ^ (kDecDigits - (scale - kDecDigits * (g - 1)))
        cut == v.weight + g + 1
        masked == IF g > 0 /\ cut \in DOMAIN v.digits
                  THEN ReplaceAt(v.digits, cut, (v.digits[cut] \div mask) * mask)
                  ELSE v.digits
    IN  StripZeros([v EXCEPT !.digits = SubSeq(masked, 1, Min({cut, Len(masked)})),
                             !.dscale = scale])

TruncVar(v, scale) == IF scale >= v.dscale THEN v ELSE TruncToScale(v, scale)

\* Mutant of RoundVar: the rounding digit is put into the last group that is
\* kept, also where it belongs to the next one.
RoundInKeptGroup(v, scale) ==
    LET g == Larger(FracGroups(scale), 1)
        offset == scale + 1 - kDecDigits * (g - 1)
        half == (Ten \div 2) * Ten ^ Larger(kDecDigits - offset, 0)
        sum == AddAbs(v, NumericData(<<half>>, -g, "pos", 0))
    IN  IF scale >= v.dscale THEN v
        ELSE TruncToScale([sum EXCEPT !.sign = v.sign], scale)

\* RoundVar: half a unit of the last kept digit is added, then cut off.
RoundVar(v, scale) ==
    LET g == (scale + kDecDigits) \div kDecDigits
        offset == scale + 1 - kDecDigits * (g - 1)
        half == (Ten \div 2) * Ten ^ (kDecDigits - offset)
        sum == AddAbs(v, NumericData(<<half>>, -g, "pos", 0))
    IN  IF scale >= v.dscale THEN v
        ELSE TruncToScale([sum EXCEPT !.sign = v.sign], scale)

-----------------------------------------------------------------------------
(* Text *)

\* Digits without leading zeros, at least one.
WithoutZeros(digits) ==
    LET kept == {i \in DOMAIN digits : digits[i] # 0}
    IN  IF kept = {} THEN <<0>> ELSE SubSeq(digits, Min(kept), Len(digits))

Zeros(n) == [i \in 1..n |-> 0]

\* A division that rounds towards zero, as the machine's does.
Quotient(n, d) == IF n >= 0 THEN n \div d ELSE -((-n) \div d)

\* numeric_in: the digits are cut into groups aligned at the point.
numeric_in(text) ==
    LET frac == text.frac \o Zeros((-Len(text.frac)) % kDecDigits)
        all == WithoutZeros(WithoutZeros(text.int) \o frac)
        int_decimals == Len(all) - Len(frac)
        int_groups == Quotient(int_decimals + kDecDigits - 1, kDecDigits)
        padded == Zeros(Larger(int_groups * kDecDigits - int_decimals, 0)) \o all
        group(g) == FoldLeft(LAMBDA n, d : n * Ten + d, 0,
                        SubSeq(padded, (g - 1) * kDecDigits + 1, g * kDecDigits))
    IN  StripZeros(NumericData(
            [g \in 1..(int_groups + Len(frac) \div kDecDigits) |-> group(g)],
            int_groups - 1, text.sign, Len(text.frac)))

\* numeric_out: dscale digits after the point, no leading zeros before it.
numeric_out(v) ==
    LET int_groups == Larger(v.weight + 1, 0)
        total == int_groups + FracGroups(v.dscale)
        digit(i) == (DigitAt(v, int_groups - 1 - ((i - 1) \div kDecDigits))
                        \div Ten ^ (kDecDigits - 1 - ((i - 1) % kDecDigits))) % Ten
        digits == [i \in 1..(total * kDecDigits) |-> digit(i)]
    IN  IF IsZero(v) THEN [sign |-> "pos", int |-> <<0>>, frac |-> Zeros(v.dscale)]
        ELSE [sign |-> v.sign,
              int  |-> WithoutZeros(SubSeq(digits, 1, int_groups * kDecDigits)),
              frac |-> SubSeq(digits, int_groups * kDecDigits + 1,
                                      int_groups * kDecDigits + v.dscale)]

-----------------------------------------------------------------------------
(* The functions of the type *)

numeric_add(a, b) ==
    EnsureFracCoverage([AddVar(a, b) EXCEPT !.dscale = Larger(a.dscale, b.dscale)])

numeric_sub(a, b) ==
    EnsureFracCoverage([SubVar(a, b) EXCEPT !.dscale = Larger(a.dscale, b.dscale)])

numeric_mul(a, b) == MulVar(a, b)

numeric_div(a, b) == DivVar(a, b)

numeric_round(v, scale) == RoundVar(v, scale)

numeric_trunc(v, scale) == TruncVar(v, scale)

\* One more than the truncated number, away from zero.
NextInteger(truncated, sign) ==
    [AddAbs(truncated, NumericData(<<1>>, 0, "pos", 0)) EXCEPT !.sign = sign]

numeric_ceil(v) ==
    LET truncated == [TruncVar(v, 0) EXCEPT !.dscale = 0]
    IN  IF v.dscale = 0 THEN v
        ELSE IF CompareAbs(v, truncated) > 0 /\ v.sign = "pos"
             THEN NextInteger(truncated, "pos") ELSE truncated

numeric_floor(v) ==
    LET truncated == [TruncVar(v, 0) EXCEPT !.dscale = 0]
    IN  IF v.dscale = 0 THEN v
        ELSE IF CompareAbs(v, truncated) > 0 /\ v.sign = "neg"
             THEN NextInteger(truncated, "neg") ELSE truncated

numeric_abs(v) == [v EXCEPT !.sign = "pos"]

numeric_cmp(a, b) == CompareSigned(a, b)

\* Int64ToNumeric: the groups of the number, the last one first.
Int64ToNumeric(n) ==
    LET size == Min({k \in 1..(MaxInt + 1) : (IF n < 0 THEN -n ELSE n) < NBASE ^ k})
    IN  IF n = 0 THEN Cleared
        ELSE NumericData(Groups(IF n < 0 THEN -n ELSE n, size), size - 1,
                         IF n < 0 THEN "neg" ELSE "pos", 0)

\* numeric_to_int64: the groups from the first down to the ones.
numeric_to_int64(v) ==
    LET n == FoldLeft(LAMBDA m, i : m * NBASE + DigitAt(v, v.weight - i), 0,
                      [i \in 1..(v.weight + 1) |-> i - 1])
    IN  IF v.sign = "neg" THEN -n ELSE n

\* numeric_to_float8, as a fraction: all stored groups as one number over
\* NBASE for each group that dscale needs.
numeric_to_float8(v) ==
    [num |-> IF v.sign = "neg" THEN -Number(v.digits) ELSE Number(v.digits),
     den |-> NBASE ^ FracGroups(v.dscale)]

-----------------------------------------------------------------------------

Digits == 0..(Ten - 1)

Texts == {t \in [sign : {"pos", "neg"},
                 int  : BoundedSeq(Digits, MaxInt),
                 frac : BoundedSeq(Digits, MaxFrac)] :
             /\ Len(t.int) + Len(t.frac) > 0
             /\ Len(t.int) > 1 => t.int[1] # 0}

Signed(sign, n) == IF sign = "neg" THEN -n ELSE n

\* The number a text denotes, times Ten^MaxScale.
Meaning(text) ==
    Signed(text.sign,
           FoldLeft(LAMBDA n, d : n * Ten + d, 0, text.int \o text.frac)
               * Ten ^ (MaxScale - Len(text.frac)))

Unit == Ten ^ MaxScale

\* The multiple of a unit next to n: towards zero, and the nearest one with
\* halves away from zero.
Towards0(n, unit) == Quotient(n, unit) * unit
Nearest(n, unit) ==
    Signed(IF n < 0 THEN "neg" ELSE "pos",
           ((2 * (IF n < 0 THEN -n ELSE n) + unit) \div (2 * unit)) * unit)

Init == /\ steps = 0
        /\ \/ \E text \in Texts : /\ acc = numeric_in(text)
                                  /\ exact = Meaning(text)
           \/ \E n \in -(Ten ^ MaxInt)..(Ten ^ MaxInt) : /\ acc = Int64ToNumeric(n)
                                                         /\ exact = n * Unit

Step(operands, result, value) == /\ steps + operands <= MaxSteps
                                 /\ steps' = steps + operands
                                 /\ acc' = result
                                 /\ exact' = value

Add(text) == Step(2, numeric_add(acc, numeric_in(text)), exact + Meaning(text))

Sub(text) == Step(2, numeric_sub(acc, numeric_in(text)), exact - Meaning(text))

Mul(text) ==
    /\ acc.dscale + Len(text.frac) <= MaxScale
    /\ Step(2, numeric_mul(acc, numeric_in(text)), Quotient(exact * Meaning(text), Unit))

Round(scale) == Step(1, numeric_round(acc, scale),
                     Nearest(exact, Ten ^ (MaxScale - Min({scale, acc.dscale}))))

Trunc(scale) == Step(1, numeric_trunc(acc, scale),
                     Towards0(exact, Ten ^ (MaxScale - Min({scale, acc.dscale}))))

Ceil == Step(1, numeric_ceil(acc), -((-exact) \div Unit) * Unit)

Floor == Step(1, numeric_floor(acc), (exact \div Unit) * Unit)

Abs == Step(1, numeric_abs(acc), IF exact < 0 THEN -exact ELSE exact)

Next == \/ \E text \in Texts : Add(text) \/ Sub(text) \/ Mul(text)
        \/ \E scale \in 0..MaxFrac : Round(scale) \/ Trunc(scale)
        \/ Ceil \/ Floor \/ Abs

Spec == Init /\ [][Next]_vars

\* Whatever operations led to a number, it is the exact result: as text with
\* its dscale digits, as an integer, and compared with any other number. The
\* code gets there through carries and borrows between groups, groups stripped
\* and added again, and rounding digits that fall into another group.
NumericExact ==
    /\ Meaning(numeric_out(acc)) = exact
    /\ numeric_to_int64(acc) = Quotient(exact, Unit)
    /\ \A n \in {-Ten, -1, 0, 1, Ten} :
           numeric_cmp(acc, Int64ToNumeric(n))
               = (IF exact < n * Unit THEN -1 ELSE IF exact = n * Unit THEN 0 ELSE 1)

\* The comment of DivVar: "result = a / b, truncating toward zero ... Output
\* dscale = max(a.dscale, b.dscale) + 8". So the quotient falls short of a / b
\* by less than one unit of its last digit.
QuotientTruncated ==
    \A text \in Texts : Meaning(text) # 0 =>
        LET q == DivVar(acc, numeric_in(text))
            shown == Towards0(FoldLeft(LAMBDA n, d : n * Ten + d, 0,
                                 numeric_out(q).int \o numeric_out(q).frac), 1)
            a == (IF exact < 0 THEN -exact ELSE exact) * Ten ^ q.dscale
            b == IF Meaning(text) < 0 THEN -Meaning(text) ELSE Meaning(text)
        IN  shown = a \div b

\* The comment of numeric_to_float8: "The accumulated integer is value *
\* NBASE^frac_groups, where frac_groups = ceil(dscale / 4)".
FloatIsValue ==
    numeric_to_float8(acc).num * Unit = exact * numeric_to_float8(acc).den
=============================================================================
