------------------------------- MODULE TypeIO -------------------------------
(***************************************************************************)
(* The text forms and comparisons of the composite types: arrays           *)
(* (src/types/array.cpp), rows (rowtypes.cpp), JSON (json.cpp), bytea and  *)
(* tid (misc_types.cpp), bit strings (varbit.cpp), network addresses       *)
(* (network_types.cpp), ranges (range.cpp), access lists (acl.cpp) and     *)
(* text-search vectors (ts_types.cpp). A value is written by the type's    *)
(* out function and read again by its in function, as COPY, dump and the   *)
(* text protocol do.                                                       *)
(*                                                                         *)
(* A text is a sequence of characters. What printf and strtoul convert, a  *)
(* number, an OID or an octet, is one character here, and so are the words *)
(* NULL, null, true, false and empty. Space stands for any white space.    *)
(***************************************************************************)
EXTENDS Integers, Sequences, SequencesExt, FiniteSets, FiniteSetsExt, TLC

CONSTANTS
    MaxLen,     \* bound: characters of an element, members of a value
    kByteBits,  \* bits in a byte of a bit string or an address: 8 in the code
    kGroups,    \* groups of an IPv6 address: 8 in the code
    Error       \* what a function that raises an error returns

VARIABLES kind, value, text, back, pc

vars == <<kind, value, text, back, pc>>

Quote == "\""
Backslash == "\\"
Space == " "

\* The first position at or after `it` whose character is in `stops`.
FirstOf(s, it, stops) ==
    LET at == {i \in it..Len(s) : s[i] \in stops}
    IN  IF at = {} THEN Len(s) + 1 ELSE Min(at)

SkipSpaces(s, it) ==
    LET at == {i \in it..Len(s) : s[i] # Space}
    IN  IF at = {} THEN Len(s) + 1 ELSE Min(at)

Trimmed(token) ==
    LET kept == {i \in DOMAIN token : token[i] # Space}
    IN  IF kept = {} THEN << >> ELSE SubSeq(token, Min(kept), Max(kept))

\* The quoted part of ParseElement, ParseField and ParseBoundLiteral, from the
\* character after the quote: a backslash takes the next character as it is,
\* and two quotes stand for one where `doubled`.
RECURSIVE Quoted(_, _, _, _)
Quoted(s, it, token, doubled) ==
    IF it > Len(s) THEN [ok |-> FALSE, token |-> token, it |-> it]
    ELSE IF s[it] = Backslash /\ it < Len(s)
         THEN Quoted(s, it + 2, Append(token, s[it + 1]), doubled)
    ELSE IF s[it] = Quote /\ doubled /\ it < Len(s) /\ s[it + 1] = Quote
         THEN Quoted(s, it + 2, Append(token, Quote), doubled)
    ELSE IF s[it] = Quote THEN [ok |-> TRUE, token |-> token, it |-> it + 1]
    ELSE Quoted(s, it + 1, Append(token, s[it]), doubled)

Null == [null |-> TRUE, text |-> << >>]
Member(t) == [null |-> FALSE, text |-> t]

-----------------------------------------------------------------------------
(* Arrays *)

\* ParseElement: quoted, or up to a separator; the bare word NULL, and a bare
\* element that is empty, are null.
ParseElement(s, from) ==
    LET it == SkipSpaces(s, from)
        quoted == Quoted(s, it + 1, << >>, TRUE)
        stop == FirstOf(s, it, {",", "}"})
        token == Trimmed(SubSeq(s, it, stop - 1))
    IN  IF it > Len(s) THEN [ok |-> FALSE, member |-> Null, it |-> it]
        ELSE IF s[it] = Quote
             THEN [ok |-> TRUE, member |-> Member(quoted.token), it |-> quoted.it]
        ELSE [ok |-> TRUE, it |-> stop,
              member |-> IF token \in {<< >>, <<"NULL">>} THEN Null ELSE Member(token)]

\* ParseArrayRecursive: the members of nested arrays end up in one list.
RECURSIVE ParseArrayRecursive(_, _, _)
RECURSIVE ParseMembers(_, _, _)
ParseMembers(s, from, members) ==
    LET it == SkipSpaces(s, from)
        inner == ParseArrayRecursive(s, it, members)
        element == ParseElement(s, it)
        got == IF it <= Len(s) /\ s[it] = "{" THEN inner
               ELSE [ok |-> element.ok, it |-> element.it,
                     members |-> Append(members, element.member)]
        next == SkipSpaces(s, got.it)
    IN  IF ~got.ok \/ next > Len(s) THEN [ok |-> FALSE, members |-> members, it |-> next]
        ELSE IF s[next] = "," THEN ParseMembers(s, next + 1, got.members)
        ELSE [ok |-> s[next] = "}", members |-> got.members, it |-> next + 1]
ParseArrayRecursive(s, from, members) ==
    LET it == SkipSpaces(s, from)
        first == SkipSpaces(s, it + 1)
    IN  IF it > Len(s) \/ s[it] # "{" THEN [ok |-> FALSE, members |-> members, it |-> it]
        ELSE IF first <= Len(s) /\ s[first] = "}"
             THEN [ok |-> TRUE, members |-> members, it |-> first + 1]
        ELSE ParseMembers(s, first, members)

array_in(s) ==
    LET parsed == ParseArrayRecursive(s, 1, << >>)
    IN  IF parsed.ok THEN parsed.members ELSE Error

\* NeedsQuoting and FieldNeedsQuoting, with the type's own brackets.
NeedsQuoting(t, brackets) ==
    \/ Len(t) = 0
    \/ \E i \in DOMAIN t : t[i] \in {",", Quote, Backslash, Space} \cup brackets

\* Mutant of QuoteIfNeeded: only quotes are escaped.
QuoteOnlyQuotes(t, brackets) ==
    IF ~NeedsQuoting(t, brackets) THEN t
    ELSE <<Quote>>
             \o FlattenSeq([i \in DOMAIN t |->
                    IF t[i] = Quote THEN <<Backslash, t[i]>> ELSE <<t[i]>>])
             \o <<Quote>>

\* QuoteIfNeeded and QuoteField.
QuoteIfNeeded(t, brackets) ==
    IF ~NeedsQuoting(t, brackets) THEN t
    ELSE <<Quote>>
             \o FlattenSeq([i \in DOMAIN t |->
                    IF t[i] \in {Quote, Backslash} THEN <<Backslash, t[i]>> ELSE <<t[i]>>])
             \o <<Quote>>

\* The pieces of a text with commas between them.
Commas(pieces) ==
    FlattenSeq([i \in DOMAIN pieces |-> IF i = 1 THEN pieces[i] ELSE <<",">> \o pieces[i]])

array_out(members) ==
    <<"{">> \o Commas([i \in DOMAIN members |->
                          IF members[i].null THEN <<"NULL">>
                          ELSE QuoteIfNeeded(members[i].text, {"{", "}"})])
            \o <<"}">>

\* Comparing two sequences: the first difference decides, then the length.
CompareSeq(x, y, cmp(_, _)) ==
    LET differ == {i \in 1..Min({Len(x), Len(y)}) : cmp(x[i], y[i]) # 0}
    IN  IF differ # {} THEN cmp(x[Min(differ)], y[Min(differ)])
        ELSE IF Len(x) < Len(y) THEN -1 ELSE IF Len(x) > Len(y) THEN 1 ELSE 0

CompareNumbers(m, n) == IF m < n THEN -1 ELSE IF m > n THEN 1 ELSE 0

\* The characters' order; any order of theirs does.
Alphabet == <<Space, Quote, ",", "(", ")", "1", "2", Backslash, "a", "b", "{", "}">>

text_cmp(s, t) ==
    CompareSeq(s, t, LAMBDA c, d : CompareNumbers(SelectInSeq(Alphabet, LAMBDA e : e = c),
                                                  SelectInSeq(Alphabet, LAMBDA e : e = d)))

\* The member comparison of array_cmp and row_cmp: nulls come first.
CompareMembers(m, n) ==
    CASE m.null /\ n.null -> 0
      [] m.null /\ ~n.null -> -1
      [] ~m.null /\ n.null -> 1
      [] OTHER -> text_cmp(m.text, n.text)

array_cmp(x, y) == CompareSeq(x, y, CompareMembers)

-----------------------------------------------------------------------------
(* Rows: a field that looks like a number is read as an int4. *)

LooksNumeric(t) == Len(t) > 0 /\ \A i \in DOMAIN t : t[i] \in {"1", "2"}

\* ParseField.
ParseField(s, from) ==
    LET it == SkipSpaces(s, from)
        quoted == Quoted(s, it + 1, << >>, TRUE)
        stop == FirstOf(s, it, {",", ")"})
        token == Trimmed(SubSeq(s, it, stop - 1))
    IN  IF it > Len(s) THEN [ok |-> FALSE, member |-> Null, it |-> it]
        ELSE IF s[it] = Quote
             THEN [ok |-> quoted.ok, member |-> Member(quoted.token), it |-> quoted.it]
        ELSE [ok |-> TRUE, member |-> IF token = << >> THEN Null ELSE Member(token),
              it |-> stop]

\* The loop of row_in: fields until the closing bracket.
RECURSIVE ParseFields(_, _, _)
ParseFields(s, from, fields) ==
    LET it == SkipSpaces(s, from)
        start == IF fields = << >> THEN it ELSE it + 1
        field == ParseField(s, start)
    IN  IF it <= Len(s) /\ s[it] = ")"
        THEN [ok |-> SkipSpaces(s, it + 1) > Len(s), fields |-> fields]
        ELSE IF fields # << >> /\ (it > Len(s) \/ s[it] # ",")
             THEN [ok |-> FALSE, fields |-> fields]
        ELSE IF ~field.ok THEN [ok |-> FALSE, fields |-> fields]
        ELSE ParseFields(s, field.it, Append(fields, field.member))

row_in(s) ==
    LET it == SkipSpaces(s, 1)
        parsed == ParseFields(s, it + 1, << >>)
    IN  IF it > Len(s) \/ s[it] # "(" \/ ~parsed.ok THEN Error
        ELSE [i \in DOMAIN parsed.fields |->
                 parsed.fields[i] @@ [int4 |-> LooksNumeric(parsed.fields[i].text)]]

row_out(fields) ==
    <<"(">> \o Commas([i \in DOMAIN fields |->
                          IF fields[i].null THEN << >>
                          ELSE QuoteIfNeeded(fields[i].text, {"(", ")"})])
            \o <<")">>

\* Two int4 fields compare as numbers (no leading zeros here), other fields as
\* texts. A number compared with a text is read as a pointer: undefined, so
\* row_cmp is only used on rows of the same shape.
SameShape(x, y) ==
    \A i \in (DOMAIN x) \cap (DOMAIN y) : x[i].null \/ y[i].null \/ x[i].int4 = y[i].int4

CompareFields(m, n) ==
    IF ~m.null /\ ~n.null /\ m.int4 /\ n.int4 /\ Len(m.text) # Len(n.text)
    THEN CompareNumbers(Len(m.text), Len(n.text))
    ELSE CompareMembers(m, n)

row_cmp(x, y) == CompareSeq(x, y, CompareFields)

-----------------------------------------------------------------------------
(* JSON: a value is a pair of its type and its contents. "NL" is one of    *)
(* the five control characters that have a letter of their own, "CTRL" one *)
(* that is written in hexadecimal.                                         *)

JsonNull == <<"null", << >>>>
JsonBool(b) == <<"bool", <<b>>>>
JsonNumber(n) == <<"number", <<n>>>>
JsonString(t) == <<"string", t>>
JsonArray(elements) == <<"array", elements>>
JsonObject(pairs) == <<"object", pairs>>

EmitString(t) ==
    <<Quote>> \o FlattenSeq([i \in DOMAIN t |->
                    CASE t[i] \in {Quote, Backslash} -> <<Backslash, t[i]>>
                      [] t[i] = "NL" -> <<Backslash, "n">>
                      [] t[i] = "CTRL" -> <<Backslash, "u", "0", "0", "0", "1">>
                      [] OTHER -> <<t[i]>>])
              \o <<Quote>>

RECURSIVE EmitValue(_)
EmitValue(v) ==
    CASE v[1] = "null" -> <<"null">>
      [] v[1] = "bool" -> <<IF v[2][1] THEN "true" ELSE "false">>
      [] v[1] = "number" -> v[2]
      [] v[1] = "string" -> EmitString(v[2])
      [] v[1] = "array" -> <<"[">> \o Commas([i \in DOMAIN v[2] |-> EmitValue(v[2][i])])
                                     \o <<"]">>
      [] v[1] = "object" ->
             <<"{">> \o Commas([i \in DOMAIN v[2] |->
                           EmitString(v[2][i][1]) \o <<":">> \o EmitValue(v[2][i][2])])
                     \o <<"}">>

Failed(it) == [ok |-> FALSE, v |-> JsonNull, it |-> it]

\* ParseString, from the character after the quote.
RECURSIVE ParseString(_, _, _)
ParseString(s, it, t) ==
    IF it > Len(s) THEN Failed(it)
    ELSE IF s[it] = Quote THEN [ok |-> TRUE, v |-> JsonString(t), it |-> it + 1]
    ELSE IF s[it] # Backslash THEN ParseString(s, it + 1, Append(t, s[it]))
    ELSE IF it = Len(s) THEN Failed(it)
    ELSE CASE s[it + 1] \in {Quote, Backslash, "/"} ->
                  ParseString(s, it + 2, Append(t, s[it + 1]))
           [] s[it + 1] = "n" -> ParseString(s, it + 2, Append(t, "NL"))
           [] s[it + 1] = "u" /\ SubSeq(s, it + 2, it + 5) = <<"0", "0", "0", "1">> ->
                  ParseString(s, it + 6, Append(t, "CTRL"))
           [] OTHER -> Failed(it)

\* ParseValue with ParseArray and ParseObject, which go on until their bracket.
RECURSIVE ParseValue(_, _)
RECURSIVE ParseArray(_, _, _)
RECURSIVE ParseObject(_, _, _)
ParseArray(s, from, elements) ==
    LET got  == ParseValue(s, from)
        next == SkipSpaces(s, got.it)
    IN  IF ~got.ok \/ next > Len(s) THEN Failed(next)
        ELSE CASE s[next] = "," -> ParseArray(s, next + 1, Append(elements, got.v))
               [] s[next] = "]" -> [ok |-> TRUE, it |-> next + 1,
                                    v |-> JsonArray(Append(elements, got.v))]
               [] OTHER -> Failed(next)
ParseObject(s, from, pairs) ==
    LET start == SkipSpaces(s, from)
        key   == ParseString(s, start + 1, << >>)
        colon == SkipSpaces(s, key.it)
        got   == ParseValue(s, colon + 1)
        next  == SkipSpaces(s, got.it)
        all   == Append(pairs, <<key.v[2], got.v>>)
    IN  IF start > Len(s) \/ s[start] # Quote \/ ~key.ok THEN Failed(start)
        ELSE IF colon > Len(s) \/ s[colon] # ":" \/ ~got.ok \/ next > Len(s) THEN Failed(colon)
        ELSE CASE s[next] = "," -> ParseObject(s, next + 1, all)
               [] s[next] = "}" -> [ok |-> TRUE, it |-> next + 1, v |-> JsonObject(all)]
               [] OTHER -> Failed(next)
ParseValue(s, from) ==
    LET it == SkipSpaces(s, from)
        first == SkipSpaces(s, it + 1)
    IN  IF it > Len(s) THEN Failed(it)
        ELSE CASE s[it] = Quote -> ParseString(s, it + 1, << >>)
               [] s[it] = "{" -> IF first <= Len(s) /\ s[first] = "}"
                                 THEN [ok |-> TRUE, v |-> JsonObject(<< >>), it |-> first + 1]
                                 ELSE ParseObject(s, first, << >>)
               [] s[it] = "[" -> IF first <= Len(s) /\ s[first] = "]"
                                 THEN [ok |-> TRUE, v |-> JsonArray(<< >>), it |-> first + 1]
                                 ELSE ParseArray(s, first, << >>)
               [] s[it] \in {"1", "2"} -> [ok |-> TRUE, v |-> JsonNumber(s[it]), it |-> it + 1]
               [] s[it] \in {"true", "false"} ->
                      [ok |-> TRUE, v |-> JsonBool(s[it] = "true"), it |-> it + 1]
               [] s[it] = "null" -> [ok |-> TRUE, v |-> JsonNull, it |-> it + 1]
               [] OTHER -> Failed(it)

json_in(s) ==
    LET got == ParseValue(s, 1)
    IN  IF got.ok /\ SkipSpaces(s, got.it) > Len(s) THEN got.v ELSE Error

json_out(v) == EmitValue(v)

-----------------------------------------------------------------------------
(* Bytea in the escape format, over byte values; 92 is the backslash, 48 to *)
(* 55 the octal digits.                                                    *)

ByteaEncode(data) ==
    FlattenSeq([i \in DOMAIN data |->
        CASE data[i] = 92 -> <<92, 92>>
          [] data[i] < 32 \/ data[i] >= 127 ->
                 <<92, 48 + data[i] \div 64, 48 + ((data[i] \div 8) % 8), 48 + (data[i] % 8)>>
          [] OTHER -> <<data[i]>>])

\* A backslash and a backslash, or a backslash and up to three octal digits.
RECURSIVE ByteaDecode(_)
ByteaDecode(s) ==
    LET count == Max({n \in 0..Min({3, Len(s) - 1}) : \A i \in 2..(n + 1) : s[i] \in 48..55})
        val == FoldLeft(LAMBDA v, d : v * 8 + (d - 48), 0, SubSeq(s, 2, count + 1))
    IN  IF s = << >> THEN << >>
        ELSE IF s[1] # 92 THEN <<s[1]>> \o ByteaDecode(Tail(s))
        ELSE IF Len(s) > 1 /\ s[2] = 92 THEN <<92>> \o ByteaDecode(SubSeq(s, 3, Len(s)))
        ELSE IF count = 0 THEN <<92>> \o ByteaDecode(Tail(s))
        ELSE <<val % 256>> \o ByteaDecode(SubSeq(s, count + 2, Len(s)))

bytea_cmp(x, y) == CompareSeq(x, y, CompareNumbers)

-----------------------------------------------------------------------------
(* Bit strings: the number of bits, and bytes with the first bit on top. *)

Bytes(n) == (n + kByteBits - 1) \div kByteBits

AllocVarBit(n) == [bit_len |-> n, bits |-> [b \in 1..Bytes(n) |-> [k \in 1..kByteBits |-> 0]]]

\* Bit i of a bit string, from 1.
Bit(v, i) == v.bits[((i - 1) \div kByteBits) + 1][((i - 1) % kByteBits) + 1]

\* ParseBits: a longer text than the type's length is refused, a shorter one
\* is padded with zeros.
ParseBits(s, typmod) ==
    LET target == IF typmod > 0 THEN typmod ELSE Len(s)
        at(b, k) == (b - 1) * kByteBits + k
    IN  IF \/ typmod > 0 /\ Len(s) > typmod
           \/ \E i \in DOMAIN s : s[i] \notin {"0", "1"}
        THEN Error
        ELSE [AllocVarBit(target) EXCEPT
                !.bits = [b \in DOMAIN @ |-> [k \in 1..kByteBits |->
                             IF at(b, k) <= Len(s) /\ s[at(b, k)] = "1" THEN 1 ELSE 0]]]

bit_out(v) == [i \in 1..v.bit_len |-> IF Bit(v, i) = 1 THEN "1" ELSE "0"]

\* The first n bits of a byte string, byte by byte, the rest masked off.
Masked(n, bit(_, _)) ==
    [bit_len |-> n,
     bits |-> [b \in 1..Bytes(n) |-> [k \in 1..kByteBits |->
                  IF (b - 1) * kByteBits + k <= n THEN bit(b, k) ELSE 0]]]

bit_and(x, y) == Masked(Min({x.bit_len, y.bit_len}), LAMBDA b, k : x.bits[b][k] * y.bits[b][k])

bit_or(x, y) == Masked(Min({x.bit_len, y.bit_len}),
                       LAMBDA b, k : Max({x.bits[b][k], y.bits[b][k]}))

bit_xor(x, y) == Masked(Min({x.bit_len, y.bit_len}),
                        LAMBDA b, k : (x.bits[b][k] + y.bits[b][k]) % 2)

bit_not(x) == Masked(x.bit_len, LAMBDA b, k : 1 - x.bits[b][k])

\* varbit_cmp: whole bytes, then the bits left over, then the lengths.
varbit_cmp(x, y) ==
    LET n == Min({x.bit_len, y.bit_len})
        whole == CompareSeq(SubSeq(x.bits, 1, n \div kByteBits), SubSeq(y.bits, 1, n \div kByteBits),
                            LAMBDA p, q : CompareSeq(p, q, CompareNumbers))
        last(v) == SubSeq(v.bits[(n \div kByteBits) + 1], 1, n % kByteBits)
    IN  IF whole # 0 THEN whole
        ELSE IF n % kByteBits > 0 /\ last(x) # last(y)
             THEN CompareSeq(last(x), last(y), CompareNumbers)
        ELSE CompareNumbers(x.bit_len, y.bit_len)

-----------------------------------------------------------------------------
(* Network addresses: a family, octets or groups, the number of mask bits. *)

Octets == 0..(2^kByteBits - 1)
IsNumeral(t) == \E n \in 0..(16 * kByteBits) : ToString(n) = t
Number(t) == CHOOSE n \in 0..(16 * kByteBits) : ToString(n) = t

MaxBits(family) == IF family = "kIpv4" THEN 4 * kByteBits ELSE 16 * kByteBits

ParseIpv4(s) ==
    IF /\ Len(s) >= 7
       /\ \A i \in {1, 3, 5, 7} : IsNumeral(s[i]) /\ Number(s[i]) \in Octets
       /\ \A i \in {2, 4, 6} : s[i] = "."
    THEN [ok |-> TRUE, bytes |-> <<Number(s[1]), Number(s[3]), Number(s[5]), Number(s[7])>>,
          it |-> 8]
    ELSE [ok |-> FALSE, bytes |-> << >>, it |-> 1]

\* The loop of ParseIpv6: groups, with the number of groups before "::", or -1.
RECURSIVE ReadGroups(_, _, _, _)
ReadGroups(s, it, groups, colon) ==
    LET double == it + 2 <= Len(s) /\ s[it + 1] = ":" /\ s[it + 2] = ":"
        read == Append(groups, Number(s[it]))
    IN  IF Len(groups) = kGroups \/ it > Len(s) \/ ~IsNumeral(s[it])
        THEN [ok |-> TRUE, groups |-> groups, colon |-> colon, it |-> it]
        ELSE IF double
             THEN IF colon # -1 THEN [ok |-> FALSE, groups |-> read, colon |-> colon, it |-> it]
                  ELSE ReadGroups(s, it + 3, read, Len(read))
        ELSE IF it < Len(s) /\ s[it + 1] = ":" THEN ReadGroups(s, it + 2, read, colon)
        ELSE [ok |-> TRUE, groups |-> read, colon |-> colon, it |-> it + 1]

\* ParseIpv6: zeros are put where "::" was.
ParseIpv6(s) ==
    LET leads == Len(s) >= 2 /\ s[1] = ":" /\ s[2] = ":"
        got == ReadGroups(s, IF leads THEN 3 ELSE 1, << >>, IF leads THEN 0 ELSE -1)
        n == Len(got.groups)
    IN  [ok |-> /\ got.ok
                /\ got.colon = -1 => n = kGroups,
         it |-> got.it,
         bytes |-> IF got.colon = -1 THEN got.groups
                   ELSE SubSeq(got.groups, 1, got.colon) \o [i \in 1..(kGroups - n) |-> 0]
                            \o SubSeq(got.groups, got.colon + 1, n)]

FormatIpv4(bytes) ==
    <<ToString(bytes[1]), ".", ToString(bytes[2]), ".", ToString(bytes[3]), ".",
      ToString(bytes[4])>>

FormatIpv6(groups) ==
    FlattenSeq([i \in DOMAIN groups |->
        IF i = 1 THEN <<ToString(groups[i])>> ELSE <<":", ToString(groups[i])>>])

\* Whether a bit after the mask is set, in ParseNetworkAddress for cidr.
HostBitsSet(bytes, bits) ==
    \E b \in bits..(4 * kByteBits - 1) :
        (bytes[(b \div kByteBits) + 1] \div 2^(kByteBits - 1 - (b % kByteBits))) % 2 = 1

\* ParseNetworkAddress: only a text that begins with a colon is IPv6.
ParseNetworkAddress(s, require_network) ==
    LET family == IF Len(s) > 0 /\ s[1] = ":" THEN "kIpv6" ELSE "kIpv4"
        got == IF family = "kIpv6" THEN ParseIpv6(s) ELSE ParseIpv4(s)
        masked == got.it < Len(s) /\ s[got.it] = "/" /\ IsNumeral(s[got.it + 1])
        bits == IF masked THEN Number(s[got.it + 1]) ELSE MaxBits(family)
        last == IF masked THEN got.it + 2 ELSE got.it
    IN  IF \/ ~got.ok \/ bits > MaxBits(family) \/ last <= Len(s)
           \/ require_network /\ family = "kIpv4" /\ HostBitsSet(got.bytes, bits)
        THEN Error
        ELSE [family |-> family, bytes |-> got.bytes, netmask_bits |-> bits]

inet_in(s) == ParseNetworkAddress(s, FALSE)

cidr_in(s) == ParseNetworkAddress(s, TRUE)

inet_out(a) ==
    (IF a.family = "kIpv4" THEN FormatIpv4(a.bytes) ELSE FormatIpv6(a.bytes))
        \o (IF a.netmask_bits # MaxBits(a.family)
            THEN <<"/", ToString(a.netmask_bits)>> ELSE << >>)

inet_cmp(x, y) ==
    LET bytes == CompareSeq(x.bytes, y.bytes, CompareNumbers)
    IN  IF x.family # y.family THEN IF x.family = "kIpv4" THEN -1 ELSE 1
        ELSE IF bytes # 0 THEN bytes ELSE CompareNumbers(x.netmask_bits, y.netmask_bits)

\* ParseMac: two hexadecimal digits a byte, all separators the same.
HexDigits == {"0", "1", "f"}

ParseMac(s, expected) ==
    LET at(i) == 3 * i - 2
    IN  IF /\ Len(s) = 3 * expected - 1
           /\ \A i \in 1..expected : s[at(i)] \in HexDigits /\ s[at(i) + 1] \in HexDigits
           /\ \E sep \in {":", "-"} : \A i \in 1..(expected - 1) : s[at(i) + 2] = sep
        THEN [i \in 1..expected |-> <<s[at(i)], s[at(i) + 1]>>]
        ELSE Error

macaddr_out(bytes) ==
    FlattenSeq([i \in DOMAIN bytes |-> IF i = 1 THEN bytes[i] ELSE <<":">> \o bytes[i]])

-----------------------------------------------------------------------------
(* Ranges of integers *)

\* RangeDatum: flags for a missing bound, an inclusive bound and emptiness.
Bounds == {-1} \cup 1..2
NoBound == -1

range_out(r) ==
    LET bound(b) == IF b = NoBound THEN << >> ELSE <<ToString(b)>>
    IN  IF r.empty THEN <<"empty">>
        ELSE <<IF r.lower_inc THEN "[" ELSE "(">> \o bound(r.lower) \o <<",">>
                 \o bound(r.upper) \o <<IF r.upper_inc THEN "]" ELSE ")">>

\* ParseBoundLiteral: quoted, or up to a comma or a closing bracket.
ParseBoundLiteral(s, from) ==
    LET it == SkipSpaces(s, from)
        stop == FirstOf(s, it, {",", ")", "]"})
    IN  IF it <= Len(s) /\ s[it] = Quote THEN Quoted(s, it + 1, << >>, FALSE)
        ELSE [ok |-> TRUE, token |-> Trimmed(SubSeq(s, it, stop - 1)), it |-> stop]

EmptyRange == [empty |-> TRUE, lower |-> NoBound, upper |-> NoBound,
               lower_inc |-> FALSE, upper_inc |-> FALSE]

\* ParseRangeLiteral.
range_in(s) ==
    LET it == SkipSpaces(s, 1)
        lower == ParseBoundLiteral(s, it + 1)
        comma == SkipSpaces(s, lower.it)
        upper == ParseBoundLiteral(s, comma + 1)
        close == SkipSpaces(s, upper.it)
        bound(t) == IF t = << >> THEN NoBound ELSE IF t[1] = "1" THEN 1 ELSE 2
    IN  IF it > Len(s) THEN Error
        ELSE IF s[it] = "empty"
             THEN IF SkipSpaces(s, it + 1) > Len(s) THEN EmptyRange ELSE Error
        ELSE IF \/ s[it] \notin {"[", "("}
                \/ ~lower.ok \/ comma > Len(s) \/ s[comma] # ","
                \/ ~upper.ok \/ close > Len(s) \/ s[close] \notin {"]", ")"}
                \/ SkipSpaces(s, close + 1) <= Len(s)
             THEN Error
        ELSE [empty |-> FALSE, lower |-> bound(lower.token), upper |-> bound(upper.token),
              lower_inc |-> s[it] = "[", upper_inc |-> s[close] = "]"]

range_contains_elem(r, e) ==
    /\ ~r.empty
    /\ r.lower # NoBound => IF r.lower_inc THEN r.lower <= e ELSE r.lower < e
    /\ r.upper # NoBound => IF r.upper_inc THEN e <= r.upper ELSE e < r.upper

\* The order of two bounds: the missing one is `outer`, and among equal ones
\* the inclusive one is on the side of `inclusive`.
CompareBounds(b, binc, c, cinc, outer, inclusive) ==
    CASE b = NoBound /\ c = NoBound -> 0
      [] b = NoBound /\ c # NoBound -> outer
      [] b # NoBound /\ c = NoBound -> -outer
      [] b # NoBound /\ c # NoBound /\ (b # c \/ binc = cinc) -> CompareNumbers(b, c)
      [] OTHER -> IF binc THEN inclusive ELSE -inclusive

\* Mutant of range_cmp_internal: an inclusive upper bound comes first.
RangeCmpUpperFirst(x, y) ==
    IF x.empty \/ y.empty
    THEN (IF y.empty THEN 1 ELSE 0) - (IF x.empty THEN 1 ELSE 0)
    ELSE LET lower == CompareBounds(x.lower, x.lower_inc, y.lower, y.lower_inc, -1, -1)
         IN  IF lower # 0 THEN lower
             ELSE CompareBounds(x.upper, x.upper_inc, y.upper, y.upper_inc, 1, -1)

\* range_cmp_internal: empty first, then by the lower and the upper bound.
range_cmp_internal(x, y) ==
    IF x.empty \/ y.empty
    THEN (IF y.empty THEN 1 ELSE 0) - (IF x.empty THEN 1 ELSE 0)
    ELSE LET lower == CompareBounds(x.lower, x.lower_inc, y.lower, y.lower_inc, -1, -1)
         IN  IF lower # 0 THEN lower
             ELSE CompareBounds(x.upper, x.upper_inc, y.upper, y.upper_inc, 1, 1)

-----------------------------------------------------------------------------
(* Access lists *)

\* The privilege letters in the order of their bits: PrivBitToChar, and
\* PrivCharToBit the other way round.
PrivBitToChar == <<"a", "r", "w", "d", "D", "x", "t", "X", "U", "C", "c", "T">>

acl_out(items) ==
    LET role(oid) == IF oid = "0" THEN << >> ELSE <<oid>>
        letters(item) == FlattenSeq([b \in DOMAIN PrivBitToChar |->
                             IF b \in item.privs THEN <<PrivBitToChar[b]>> ELSE << >>])
    IN  <<"{">> \o Commas([i \in DOMAIN items |->
                      role(items[i].grantee) \o <<"=">> \o letters(items[i])
                          \o <<"/">> \o role(items[i].grantor)])
                \o <<"}">>

\* The items of acl_in up to the closing brace. Without "=" there is no grantee;
\* "*" marks a grant option and is skipped; an unknown letter is an error.
RECURSIVE ParseAclItems(_, _, _)
ParseAclItems(s, it, items) ==
    LET equals  == FirstOf(s, it, {"=", ",", "}"})
        named   == equals <= Len(s) /\ s[equals] = "="
        privs   == IF named THEN equals + 1 ELSE it
        slash   == FirstOf(s, privs, {"/", ",", "}"})
        grants  == slash <= Len(s) /\ s[slash] = "/"
        stop    == IF grants THEN FirstOf(s, slash, {",", "}"}) ELSE slash
        role(t) == IF t = << >> THEN "0" ELSE t[1]
        letters == Range(SubSeq(s, privs, slash - 1)) \ {"*"}
        item    == [grantee |-> IF named THEN role(SubSeq(s, it, equals - 1)) ELSE "0",
                    privs   |-> {b \in DOMAIN PrivBitToChar : PrivBitToChar[b] \in letters},
                    grantor |-> IF grants THEN role(SubSeq(s, slash + 1, stop - 1)) ELSE "0"]
        others  == {i \in stop..Len(s) : s[i] \notin {",", Space}}
    IN  IF it > Len(s) \/ s[it] = "}" THEN items
        ELSE IF ~(letters \subseteq Range(PrivBitToChar)) THEN Error
        ELSE ParseAclItems(s, IF others = {} THEN Len(s) + 1 ELSE Min(others),
                           Append(items, item))

acl_in(s) ==
    LET items == {i \in DOMAIN s : s[i] \notin {"{", Space}}
    IN  ParseAclItems(s, IF items = {} THEN Len(s) + 1 ELSE Min(items), << >>)

-----------------------------------------------------------------------------
(* Text-search vectors and queries *)

WordChars == {"a", "b", "1"}
Digits == {"1", "2"}

tsvector_out(entries) ==
    FlattenSeq([i \in DOMAIN entries |->
        (IF i = 1 THEN << >> ELSE <<Space>>) \o entries[i].lexeme
            \o (IF entries[i].positions = << >> THEN << >>
                ELSE <<":">> \o Commas([k \in DOMAIN entries[i].positions |->
                                           <<entries[i].positions[k]>>]))])

\* The positions after a colon: digits, each with a comma before the next one.
RECURSIVE ParsePositions(_, _, _)
ParsePositions(s, it, positions) ==
    IF it > Len(s) \/ s[it] \notin Digits THEN [positions |-> positions, it |-> it]
    ELSE IF it < Len(s) /\ s[it + 1] = ","
         THEN ParsePositions(s, it + 2, Append(positions, s[it]))
    ELSE [positions |-> Append(positions, s[it]), it |-> it + 1]

\* The loop of tsvector_in: a word, and its positions if a colon follows.
RECURSIVE ParseEntries(_, _, _)
ParseEntries(s, from, entries) ==
    LET it == SkipSpaces(s, from)
        others == {i \in it..Len(s) : s[i] \notin WordChars}
        stop == IF others = {} THEN Len(s) + 1 ELSE Min(others)
        placed == IF stop <= Len(s) /\ s[stop] = ":" THEN ParsePositions(s, stop + 1, << >>)
                  ELSE [positions |-> << >>, it |-> stop]
    IN  IF it > Len(s) THEN [ok |-> TRUE, entries |-> entries]
        ELSE IF stop = it THEN [ok |-> FALSE, entries |-> entries]
        ELSE ParseEntries(s, placed.it,
                          Append(entries, [lexeme |-> SubSeq(s, it, stop - 1),
                                           positions |-> placed.positions]))

\* The words are sorted after reading.
tsvector_in(s) ==
    LET parsed == ParseEntries(s, 1, << >>)
    IN  IF ~parsed.ok THEN Error
        ELSE SortSeq(parsed.entries, LAMBDA d, e : text_cmp(d.lexeme, e.lexeme) < 0)

Query(type, lexeme, children) == [type |-> type, lexeme |-> lexeme, children |-> children]

\* One character of tsquery_in: an operator puts the word before it into the
\* root, under a new root of its own type if there is one already.
QueryChar(q, c) ==
    LET type == IF c = "&" THEN "kAnd" ELSE "kOr"
        term == Query("kTerm", q.current, << >>)
        children == IF q.root.children = << >> THEN <<term>> ELSE <<q.root, term>>
    IN  CASE c = Space -> q
          [] c \in {"&", "|"} /\ q.current = << >> -> q
          [] c \in {"&", "|"} /\ q.current # << >> ->
                 [root |-> Query(type, << >>, children), current |-> << >>]
          [] OTHER -> [q EXCEPT !.current = Append(@, c)]

tsquery_in(s) ==
    LET q == FoldLeft(QueryChar, [root |-> Query("kTerm", << >>, << >>), current |-> << >>], s)
        term == Query("kTerm", q.current, << >>)
    IN  IF q.current = << >> THEN q.root
        ELSE IF q.root.children = << >> THEN term
        ELSE [q.root EXCEPT !.children = Append(@, term)]

RECURSIVE tsquery_out(_)
tsquery_out(n) ==
    LET operator == IF n.type = "kAnd" THEN <<Space, "&", Space>> ELSE <<Space, "|", Space>>
    IN  IF n.type = "kTerm" THEN n.lexeme
        ELSE FlattenSeq([i \in DOMAIN n.children |->
                (IF i = 1 THEN << >> ELSE operator) \o tsquery_out(n.children[i])])

\* ts_match: the query tree over the words of the vector.
RECURSIVE ts_match(_, _)
ts_match(lexemes, n) ==
    CASE n.type = "kTerm" -> n.lexeme \in lexemes
      [] n.type = "kAnd" -> \A i \in DOMAIN n.children : ts_match(lexemes, n.children[i])
      [] n.type = "kOr" -> \E i \in DOMAIN n.children : ts_match(lexemes, n.children[i])

-----------------------------------------------------------------------------
(* tid and pg_lsn *)

tid_out(t) == <<"(", ToString(t.block), ",", ToString(t.offset), ")">>

tid_in(s) ==
    LET open   == SkipSpaces(s, 1)
        comma  == SkipSpaces(s, open + 2)
        close  == SkipSpaces(s, comma + 2)
    IN  IF /\ close <= Len(s)
           /\ s[open] = "(" /\ s[comma] = "," /\ s[close] = ")"
           /\ IsNumeral(s[open + 1]) /\ IsNumeral(s[comma + 1])
        THEN [block |-> Number(s[open + 1]), offset |-> Number(s[comma + 1])] ELSE Error

tid_cmp(x, y) == CompareSeq(<<x.block, x.offset>>, <<y.block, y.offset>>, CompareNumbers)

\* The upper and the lower half, in words of kByteBits bits instead of 32.
pg_lsn_out(v) == <<ToString(v \div 2^kByteBits), "/", ToString(v % 2^kByteBits)>>

pg_lsn_in(s) ==
    IF Len(s) >= 3 /\ IsNumeral(s[1]) /\ s[2] = "/" /\ IsNumeral(s[3])
    THEN Number(s[1]) * 2^kByteBits + Number(s[3]) ELSE Error

-----------------------------------------------------------------------------

\* The values of each type that its text form can hold. A text equal to the
\* word NULL in an array, a row of a single null, and a text of digits in a row
\* are left out: they are read as something else.
Chars == {"a", "1", ",", Quote, Backslash, Space}

Members(brackets) ==
    {Null} \cup {Member(t) : t \in BoundedSeq(Chars \cup brackets, MaxLen)}

JsonTexts == BoundedSeq({"a", Quote, Backslash, "NL", "CTRL"}, MaxLen)

JsonScalars == {JsonNull, JsonBool(TRUE), JsonBool(FALSE), JsonNumber("1"), JsonNumber("2")}
                   \cup {JsonString(t) : t \in JsonTexts}

JsonNested == {JsonArray(e) : e \in BoundedSeq({JsonNull, JsonString(<<Quote>>)}, MaxLen)}

BitStrings == {ParseBits(s, n) : s \in BoundedSeq({"0", "1"}, kByteBits + 1),
                                 n \in {0, kByteBits + 1}}

Ranges == {r \in [empty : BOOLEAN, lower : Bounds, upper : Bounds,
                  lower_inc : BOOLEAN, upper_inc : BOOLEAN] :
               r.empty => r.lower = NoBound /\ r.upper = NoBound /\ ~r.lower_inc /\ ~r.upper_inc}

AclItems == [grantee : {"0", "1"}, grantor : {"0", "2"}, privs : SUBSET {1, 2, 12}]

Addresses == [family : {"kIpv4"}, bytes : [1..4 -> Octets], netmask_bits : 0..MaxBits("kIpv4")]

\* Queries of up to three words with one operator, as text.
Words == {<<"a">>, <<"b">>, <<"1">>}

QueryTexts ==
    {w \o rest : w \in Words,
                 rest \in {<< >>} \cup {<<Space, o, Space>> \o u : o \in {"&", "|"}, u \in Words}
                             \cup {<<o>> \o u \o <<o>> \o t : o \in {"&", "|"},
                                                            u \in Words, t \in Words}}

Values(k) ==
    CASE k = "array" -> BoundedSeq(Members({"{", "}"}), 1)
                            \cup {<<m, n>> : m \in Members({}), n \in {Null, Member(<<"a">>)}}
      [] k = "row" -> {[i \in DOMAIN r |-> r[i] @@ [int4 |-> LooksNumeric(r[i].text)]] :
                          r \in {<<m>> : m \in Members({"(", ")"}) \ {Null}}
                                    \cup {<<m, n>> : m \in Members({}),
                                                     n \in {Null, Member(<<"a">>)}}}
      [] k = "json" ->
             JsonScalars
                 \cup {JsonArray(e) : e \in BoundedSeq(JsonNested \cup {JsonNumber("1")}, MaxLen)}
                 \cup {JsonObject(p) : p \in BoundedSeq({<<t, v>> : t \in {<<"a">>, <<Quote>>},
                                                                    v \in JsonNested}, MaxLen)}
      [] k = "bytea" -> BoundedSeq({1, 48, 49, 65, 92, 255}, 3)
      [] k = "bits" -> BitStrings
      [] k = "inet" -> Addresses
      [] k = "cidr" -> {a \in Addresses : ~HostBitsSet(a.bytes, a.netmask_bits)}
      [] k = "mac" -> [1..6 -> {<<"0", "1">>, <<"f", "0">>}]
      [] k = "lsn" -> 0..(2^(2 * kByteBits) - 1)
      [] k = "tsquery" -> {tsquery_in(s) : s \in QueryTexts}
      [] k = "range" -> Ranges
      [] k = "acl" -> BoundedSeq(AclItems, 2)
      [] k = "tsvector" ->
             LET entry(l, p) == [lexeme |-> l, positions |-> p]
                 positions == BoundedSeq(Digits, MaxLen)
             IN  {<< >>} \cup {<<entry(<<"a">>, p)>> : p \in positions}
                     \cup {<<entry(<<"1">>, p), entry(<<"a", "b">>, q)>> :
                               p \in positions, q \in positions}
      [] k = "tid" -> [block : Octets, offset : Octets]

Kinds == {"array", "row", "json", "bytea", "bits", "inet", "cidr", "mac", "range", "acl",
          "tsvector", "tsquery", "tid", "lsn"}

Out(k, v) ==
    CASE k = "array" -> array_out(v)         [] k = "row" -> row_out(v)
      [] k = "json" -> json_out(v)           [] k = "bytea" -> ByteaEncode(v)
      [] k = "bits" -> bit_out(v)            [] k \in {"inet", "cidr"} -> inet_out(v)
      [] k = "mac" -> macaddr_out(v)         [] k = "range" -> range_out(v)
      [] k = "acl" -> acl_out(v)             [] k = "tsvector" -> tsvector_out(v)
      [] k = "tsquery" -> tsquery_out(v)     [] k = "tid" -> tid_out(v)
      [] k = "lsn" -> pg_lsn_out(v)

In(k, s) ==
    CASE k = "array" -> array_in(s)          [] k = "row" -> row_in(s)
      [] k = "json" -> json_in(s)            [] k = "bytea" -> ByteaDecode(s)
      [] k = "bits" -> ParseBits(s, -1)      [] k = "inet" -> inet_in(s)
      [] k = "cidr" -> cidr_in(s)            [] k = "mac" -> ParseMac(s, 6)
      [] k = "range" -> range_in(s)          [] k = "acl" -> acl_in(s)
      [] k = "tsvector" -> tsvector_in(s)    [] k = "tsquery" -> tsquery_in(s)
      [] k = "tid" -> tid_in(s)              [] k = "lsn" -> pg_lsn_in(s)

Init == /\ kind \in Kinds
        /\ value \in Values(kind)
        /\ text = << >> /\ back = << >> /\ pc = "value"

Write == /\ pc = "value"
         /\ text' = Out(kind, value)
         /\ pc' = "text"
         /\ UNCHANGED <<kind, value, back>>

Read == /\ pc = "text"
        /\ back' = In(kind, text)
        /\ pc' = "read"
        /\ UNCHANGED <<kind, value, text>>

Next == Write \/ Read

Spec == Init /\ [][Next]_vars

\* What a type's out function writes, its in function reads back as the same
\* value: quotes and backslashes inside quoted members, empty members and
\* nulls, control characters, bytes next to octal digits, half-filled bytes.
TextReadsBack == pc = "read" => back = value

\* The comparison functions.
Order(k, x, y) ==
    CASE k = "array" -> array_cmp(x, y)      [] k = "row" -> row_cmp(x, y)
      [] k = "bytea" -> bytea_cmp(x, y)      [] k = "bits" -> varbit_cmp(x, y)
      [] k = "tid" -> tid_cmp(x, y)

\* A text of an IPv6 address with "::" for the zero groups from i to j.
Compressed(groups, i, j) ==
    FormatIpv6(SubSeq(groups, 1, i - 1)) \o <<":", ":">> \o FormatIpv6(SubSeq(groups, j + 1, kGroups))

\* The bytes of an address as one number.
AsNumber(bytes) == FoldLeft(LAMBDA n, b : n * 2^kByteBits + b, 0, bytes)

\* The operators agree with what their values mean. Comparisons are
\* antisymmetric and call equal only what is equal; ranges are ordered
\* consistently with the numbers they contain; bit operators work bit by bit
\* across the last, half-filled byte; "::" stands for the zero groups wherever
\* it is; cidr refuses just the addresses with bits beyond the mask; and a
\* query of words joined by one operator matches all or any of its words.
OperatorsAgree ==
    pc = "read" =>
    /\ kind \in {"array", "row", "bytea", "bits", "tid"} =>
         \A w \in Values(kind) :
           (kind = "row" => SameShape(value, w)) =>
             /\ Order(kind, value, w) = -Order(kind, w, value)
             /\ Order(kind, value, w) = 0 <=> value = w
    /\ kind = "range" =>
         \A r \in Ranges :
           /\ range_cmp_internal(value, r) = -range_cmp_internal(r, value)
           /\ (/\ r.lower = value.lower
               /\ r.lower_inc = value.lower_inc
               /\ range_cmp_internal(value, r) <= 0)
                 => \A e \in 0..3 : range_contains_elem(value, e) => range_contains_elem(r, e)
           /\ \A q \in Ranges :
                range_cmp_internal(value, r) <= 0 /\ range_cmp_internal(r, q) <= 0
                  => range_cmp_internal(value, q) <= 0
    /\ kind = "bits" =>
         \A v \in BitStrings :
           /\ \A i \in 1..Min({v.bit_len, value.bit_len}) :
                /\ Bit(bit_and(value, v), i) = Bit(value, i) * Bit(v, i)
                /\ Bit(bit_xor(value, v), i) = (IF Bit(value, i) = Bit(v, i) THEN 0 ELSE 1)
                /\ Bit(bit_or(value, v), i) = 1 - Bit(bit_and(bit_not(value), bit_not(v)), i)
           /\ bit_not(bit_not(value)) = value
    /\ kind = "lsn" =>
         \A groups \in [1..kGroups -> 0..1], i \in 1..kGroups, j \in 1..kGroups :
           (i <= j /\ \A g \in i..j : groups[g] = 0) =>
             ParseIpv6(Compressed(groups, i, j)).bytes = groups
    /\ kind = "inet" =>
         \A b \in Octets, n \in 0..MaxBits("kIpv4") :
           inet_cmp(value, [value EXCEPT !.bytes[4] = b, !.netmask_bits = n]) =
             CompareSeq(<<value.bytes[4], value.netmask_bits>>, <<b, n>>, CompareNumbers)
    /\ kind = "inet" =>
         (cidr_in(inet_out(value)) = Error) <=>
             (AsNumber(value.bytes) % 2^(4 * kByteBits - value.netmask_bits) # 0)
    /\ kind = "tsquery" =>
         \A s \in QueryTexts, lexemes \in SUBSET Words :
           LET words == {<<s[i]>> : i \in {j \in DOMAIN s : s[j] \in WordChars}}
           IN  ts_match(lexemes, tsquery_in(s)) =
                 IF "|" \in Range(s) THEN words \cap lexemes # {} ELSE words \subseteq lexemes
=============================================================================
