--------------------------------- MODULE Json ---------------------------------
(***************************************************************************)
(* JSON texts (libjson): the lexer, the parser, the values they make, and  *)
(* their printed form.  Characters are byte codes, since strings are read  *)
(* and written through UTF-8 and UTF-16.  A value is a record whose only   *)
(* field names its type; a real number is a mantissa and a power of ten    *)
(* (at most six digits: more are rounded when they are printed).  The text *)
(* grows piece by piece until the parser has made up its mind.             *)
(***************************************************************************)
EXTENDS Integers, SequencesExt, FiniteSetsExt

CONSTANTS
    Pieces,        \* the texts that inputs are put together from
    MaxPieces,     \* bound: pieces of a text
    IntMax         \* the largest integer std::stoll() takes

VARIABLES
    text,          \* the text given to from_string()
    pieces,        \* the pieces it is made of
    result         \* what from_string() did with it

vars == <<text, pieces, result>>

-----------------------------------------------------------------------------
\* Characters.
quote == 34
backslash == 92
space == {9, 10, 11, 12, 13, 32}
digit1_9 == 49..57
digit == {48} \cup digit1_9
lxdigit == 97..102
uxdigit == 65..70
exponent == {101, 69}
lower_u == 117

\* The escape letters and the characters they stand for: " \ / b f n r t.
Escaped == 34 :> 34 @@ 92 :> 92 @@ 47 :> 47 @@ 98 :> 8 @@ 102 :> 12 @@ 110 :> 10
           @@ 114 :> 13 @@ 116 :> 9
Letter(c) == CHOOSE l \in DOMAIN Escaped : Escaped[l] = c

null_word == <<110, 117, 108, 108>>
true_word == <<116, 114, 117, 101>>
false_word == <<102, 97, 108, 115, 101>>

Spaces(n) == [i \in 1..n |-> 32]
Word(s, i, n) == SubSeq(s, i, Min({i + n - 1, Len(s)}))

\* How reading a piece of input ends: "ok", "eof" when the stream ends in it, or an exception.
Made(str, next) == [st |-> "ok", str |-> str, next |-> next]
Fails(st) == [st |-> st, str |-> <<>>, next |-> 0]

-----------------------------------------------------------------------------
\* UTF-8 and UTF-16.
utf8_encode(cp) ==
    CASE cp < 128 -> <<cp>>
      [] cp \in 128..2047 -> <<192 + cp \div 64, 128 + (cp % 64)>>
      [] cp \in 2048..65535 -> <<224 + cp \div 4096, 128 + ((cp \div 64) % 64), 128 + (cp % 64)>>
      [] OTHER -> <<240 + cp \div 262144, 128 + ((cp \div 4096) % 64), 128 + ((cp \div 64) % 64), 128 + (cp % 64)>>

HexValue(c) == IF c \in digit THEN c - 48 ELSE IF c \in lxdigit THEN c - 87 ELSE c - 55
HexDigit(d) == IF d < 10 THEN 48 + d ELSE 87 + d
Hex4(w) == <<backslash, lower_u>> \o [i \in 1..4 |-> HexDigit((w \div 16^(4 - i)) % 16)]

\* One \uxxxx; only a text with neither the backslash nor the u is refused for them.
utf16_decode_seq(s, i) ==
    LET digits == Word(s, i + 2, 4)
    IN IF i + 1 > Len(s) THEN [w |-> -2, next |-> 0]
       ELSE IF \/ s[i] # backslash /\ s[i + 1] # lower_u
               \/ \E d \in Range(digits) : d \notin digit \cup lxdigit \cup uxdigit
            THEN [w |-> -1, next |-> 0]
       ELSE IF Len(digits) < 4 THEN [w |-> -2, next |-> 0]
       ELSE [w |-> FoldLeft(LAMBDA w, d : 16 * w + HexValue(d), 0, digits), next |-> i + 6]

\* The mutant takes the second half of a pair for a character of its own.
DecodeHalves(s, i) ==
    LET a == utf16_decode_seq(s, i)
    IN IF a.w < 0 THEN Fails(IF a.w = -2 THEN "eof" ELSE "invalid_argument")
       ELSE Made(utf8_encode(a.w), a.next)
utf16_decode(s, i) ==
    LET a == utf16_decode_seq(s, i)
        b == utf16_decode_seq(s, a.next)
        cp == (a.w - 55296) * 1024 + (b.w - 56320) + 65536
    IN IF a.w < 0 THEN Fails(IF a.w = -2 THEN "eof" ELSE "invalid_argument")
       ELSE IF a.w \notin 55296..56319 THEN Made(utf8_encode(a.w), a.next)
       ELSE IF b.w = -2 THEN Fails("eof")
       ELSE IF b.w < 56320 \/ cp > 1114111 THEN Fails("invalid_argument")
       ELSE Made(utf8_encode(cp), b.next)

\* The escapes of the bytes of one character; a stray continuation byte is sign-extended.
utf16_encode(s, i) ==
    LET c == s[i]
        len == IF c >= 240 THEN 4 ELSE IF c >= 224 THEN 3 ELSE IF c >= 192 THEN 2 ELSE 1
        first == IF len = 1 THEN c - 256 ELSE c % 2^(7 - len)
        more == Word(s, i + 1, len - 1)
        dw == FoldLeft(LAMBDA w, d : 64 * w + (d % 64), first, more)
        rest == (dw - 65536) % 2^20
    IN IF \E d \in Range(more) : d < 128 THEN Fails("invalid_argument")
       ELSE IF Len(more) < len - 1 THEN Fails("eof")
       ELSE IF dw \in 0..65535 THEN Made(Hex4(dw), i + len)
       ELSE Made(Hex4(55296 + rest \div 1024) \o Hex4(56320 + (rest % 1024)), i + len)

-----------------------------------------------------------------------------
\* Escaping.  p is what was made so far; both directions stop silently where the input ends
\* inside a sequence.
after(p, q) ==
    CASE q.st = "ok" -> Made(p.str \o q.str, q.next)
      [] q.st = "eof" -> Made(p.str, 0)
      [] OTHER -> q

Unescaped(s, i) ==
    IF s[i] # backslash THEN Made(<<s[i]>>, i + 1)
    ELSE IF i = Len(s) THEN Fails("eof")
    ELSE IF s[i + 1] = lower_u THEN utf16_decode(s, i)
    ELSE IF s[i + 1] \in DOMAIN Escaped THEN Made(<<Escaped[s[i + 1]]>>, i + 2)
    ELSE Fails("invalid_argument")

RECURSIVE unescape_from(_, _)
unescape_from(s, p) ==
    IF p.st # "ok" \/ p.next \notin 1..Len(s) THEN p
    ELSE unescape_from(s, after(p, Unescaped(s, p.next)))
string_unescape(s) == unescape_from(s, Made(<<>>, 1))

EscapeOf(s, i) ==
    IF \E l \in DOMAIN Escaped : Escaped[l] = s[i] THEN Made(<<backslash, Letter(s[i])>>, i + 1)
    ELSE IF s[i] < 128 THEN Made(<<s[i]>>, i + 1)
    ELSE utf16_encode(s, i)

RECURSIVE escape_from(_, _)
escape_from(s, p) ==
    IF p.st # "ok" \/ p.next \notin 1..Len(s) THEN p
    ELSE escape_from(s, after(p, EscapeOf(s, p.next)))
string_escape(s) == escape_from(s, Made(<<>>, 1))

-----------------------------------------------------------------------------
\* The lexer: the token that starts at s[i] and where the next one starts.
Tok(kind, val, next) == [kind |-> kind, val |-> val, next |-> next]
Null == [null |-> TRUE]
Eof(s) == Tok("eof", Null, Len(s) + 1)
\* An exception tells where the lexer was.
Exceptions == {"parsing_error", "invalid_argument", "out_of_range"}
Throws(e, at) == Tok(e, Null, at)

get_word(s, i, word, val) ==
    LET w == Word(s, i, Len(word))
    IN IF Len(w) < Len(word) THEN Eof(s)
       ELSE IF w = word THEN Tok("value", val, i + Len(word)) ELSE Throws("parsing_error", i)

RunEnd(s, i, cs) == Min({k \in i..(Len(s) + 1) : k = Len(s) + 1 \/ s[k] \notin cs})
Number(s, i, k) == FoldLeft(LAMBDA n, c : 10 * n + c - 48, 0, SubSeq(s, i, k - 1))

RECURSIVE Real(_, _)
Real(m, e) == IF m = 0 THEN <<0, 0>> ELSE IF m % 10 = 0 THEN Real(m \div 10, e + 1) ELSE <<m, e>>

\* The mutant knows no sign but the minus.
ExponentNoPlus(s, i) ==
    LET sign == i <= Len(s) /\ s[i] = 45
        first == IF sign THEN i + 1 ELSE i
        start == RunEnd(s, first, {48})
        end == RunEnd(s, start, digit)
    IN IF first > Len(s) THEN [st |-> "eof"]
       ELSE IF s[first] \notin digit \/ end = start THEN [st |-> "parsing_error"]
       ELSE IF end > Len(s) THEN [st |-> "eof"]
       ELSE [st |-> "ok", next |-> end, value |-> (IF sign THEN -1 ELSE 1) * Number(s, start, end)]

\* The exponent at s[i], after its e: the digits after the leading zeros, of which there must
\* be one.
get_exponent(s, i) ==
    LET sign == i <= Len(s) /\ s[i] \in {43, 45}
        first == IF sign THEN i + 1 ELSE i
        start == RunEnd(s, first, {48})
        end == RunEnd(s, start, digit)
    IN IF first > Len(s) THEN [st |-> "eof"]
       ELSE IF s[first] \notin digit THEN [st |-> "parsing_error"]
       ELSE IF end > Len(s) THEN [st |-> "eof"]
       ELSE IF end = start THEN [st |-> "parsing_error"]
       ELSE [st |-> "ok", next |-> end,
             value |-> (IF sign /\ s[i] = 45 THEN -1 ELSE 1) * Number(s, start, end)]

get_number(s, i) ==
    LET sign == IF s[i] = 45 THEN -1 ELSE 1
        start == IF s[i] = 45 THEN i + 1 ELSE i
        whole == IF start <= Len(s) /\ s[start] = 48 THEN start + 1 ELSE RunEnd(s, start, digit)
        dot == whole <= Len(s) /\ s[whole] = 46
        end == IF dot THEN RunEnd(s, whole + 1, digit) ELSE whole
        mantissa == IF dot THEN Number(SubSeq(s, start, whole - 1) \o SubSeq(s, whole + 1, end - 1), 1, end - start)
                    ELSE Number(s, start, whole)
        scale == IF dot THEN whole + 1 - end ELSE 0
        exp == get_exponent(s, end + 1)
    IN IF start > Len(s) THEN Eof(s)
       ELSE IF s[start] \notin digit THEN Throws("parsing_error", start)
       ELSE IF whole > Len(s) THEN Eof(s)
       ELSE IF s[start] = 48 /\ ~dot THEN Throws("parsing_error", whole)
       ELSE IF dot /\ whole + 1 <= Len(s) /\ end = whole + 1 THEN Throws("parsing_error", end)
       ELSE IF end > Len(s) THEN Eof(s)
       ELSE IF s[end] \in exponent
            THEN IF exp.st = "eof" THEN Eof(s) ELSE IF exp.st # "ok" THEN Throws(exp.st, end)
                 ELSE Tok("value", [real |-> Real(sign * mantissa, scale + exp.value)], exp.next)
       ELSE IF dot THEN Tok("value", [real |-> Real(sign * mantissa, scale)], end)
       ELSE IF mantissa > IntMax THEN Throws("out_of_range", whole)
       ELSE Tok("value", [int |-> sign * mantissa], end)

\* A string is unescaped while it is read, and again when it is stored in the token's value.
stored(q, i) == IF q.st = "ok" THEN Tok("string", [string |-> q.str], i + 1) ELSE Throws(q.st, i)

RECURSIVE get_string(_, _, _, _)
get_string(s, i, str, p) ==
    CASE p.st = "eof" \/ (p.st = "ok" /\ p.next > Len(s)) -> Eof(s)
      [] p.st = "invalid_argument" -> Throws(IF s[i + 1] = lower_u THEN p.st ELSE "parsing_error", i)
      [] OTHER -> IF s[p.next] = quote THEN stored(string_unescape(str \o p.str), p.next)
                  ELSE get_string(s, p.next, str \o p.str, Unescaped(s, p.next))

Punctuation == 123 :> "{" @@ 125 :> "}" @@ 91 :> "[" @@ 93 :> "]" @@ 58 :> ":" @@ 44 :> ","

get(s, from) ==
    LET i == RunEnd(s, from, space)
    IN IF i > Len(s) THEN Eof(s)
       ELSE IF s[i] \in DOMAIN Punctuation THEN Tok(Punctuation[s[i]], Null, i + 1)
       ELSE IF s[i] = 110 THEN get_word(s, i, null_word, Null)
       ELSE IF s[i] = 116 THEN get_word(s, i, true_word, [bool |-> TRUE])
       ELSE IF s[i] = 102 THEN get_word(s, i, false_word, [bool |-> FALSE])
       ELSE IF s[i] \in digit \cup {45} THEN get_number(s, i)
       ELSE IF s[i] = quote THEN get_string(s, i, <<>>, Made(<<>>, i + 1))
       ELSE Throws("parsing_error", i)

\* What the parser gets from the lexer: token t and those after it, up to the end or an
\* exception.
RECURSIVE tokens(_, _)
tokens(s, t) == IF t.kind \in {"eof"} \cup Exceptions THEN <<t>> ELSE <<t>> \o tokens(s, get(s, t.next))

-----------------------------------------------------------------------------
\* The parser: a value or an exception, and the last token that was taken.  ts are the tokens
\* and k is the one in hand; at the end, the lexer gives the end again and again.
token(ts, k) == ts[IF k > Len(ts) THEN Len(ts) ELSE k]
Parsed(val, k) == [kind |-> "value", val |-> val, at |-> k]
Refused(e, k) == [kind |-> e, val |-> Null, at |-> k]
Unexpected(ts, k) == Refused(IF token(ts, k).kind \in Exceptions THEN token(ts, k).kind ELSE "parsing_error", k)

\* object::add(): the key is unescaped, and a key that is there keeps its value.
object_add(o, u, val) == o @@ (u.str :> val)

RECURSIVE parse_array(_, _, _)
RECURSIVE parse_object(_, _, _)
Element(ts, k) ==
    CASE token(ts, k).kind \in {"value", "string"} -> Parsed(token(ts, k).val, k)
      [] token(ts, k).kind = "{" -> parse_object(ts, k + 1, <<>>)
      [] token(ts, k).kind = "[" -> parse_array(ts, k + 1, <<>>)
      [] OTHER -> Unexpected(ts, k)

\* arr has the elements so far and e is the next one; the end of the text ends the array.
after_element(ts, arr, e) ==
    IF e.kind # "value" THEN e
    ELSE IF token(ts, e.at + 1).kind = "]" THEN Parsed([array |-> Append(arr, e.val)], e.at + 1)
    ELSE IF token(ts, e.at + 1).kind = "," THEN parse_array(ts, e.at + 2, Append(arr, e.val))
    ELSE Unexpected(ts, e.at + 1)
parse_array(ts, k, arr) ==
    IF token(ts, k).kind = "eof" THEN Parsed([array |-> arr], k)
    ELSE after_element(ts, arr, Element(ts, k))

\* u is the unescaped key.
after_member(ts, obj, u, e) ==
    IF e.kind # "value" THEN e
    ELSE IF u.st # "ok" THEN Refused(u.st, e.at)
    ELSE IF token(ts, e.at + 1).kind = "}" THEN Parsed([object |-> object_add(obj, u, e.val)], e.at + 1)
    ELSE IF token(ts, e.at + 1).kind = "," THEN parse_object(ts, e.at + 2, object_add(obj, u, e.val))
    ELSE Unexpected(ts, e.at + 1)
parse_object(ts, k, obj) ==
    IF token(ts, k).kind = "eof" THEN Parsed([object |-> obj], k)
    ELSE IF token(ts, k).kind # "string" THEN Unexpected(ts, k)
    ELSE IF token(ts, k + 1).kind # ":" THEN Unexpected(ts, k + 1)
    ELSE after_member(ts, obj, string_unescape(token(ts, k).val.string), Element(ts, k + 2))

Parse(ts) ==
    CASE ts[1].kind = "{" -> parse_object(ts, 2, <<>>)
      [] ts[1].kind = "[" -> parse_array(ts, 2, <<>>)
      [] OTHER -> Unexpected(ts, 1)

\* The result tells how far the text was read.
Ended(ts, p) == [p EXCEPT !.at = token(ts, @).next]
ParseAll(ts) == Ended(ts, Parse(ts))
from_string(s) == ParseAll(tokens(s, get(s, 1)))

-----------------------------------------------------------------------------
\* Printing.  A string that cannot be escaped leaves Unprintable, where str() throws.
Unprintable == -1

RECURSIVE Decimal(_)
Decimal(n) == IF n < 0 THEN <<45>> \o Decimal(-n)
              ELSE IF n < 10 THEN <<48 + n>> ELSE Append(Decimal(n \div 10), 48 + (n % 10))

Zeros(n) == [i \in 1..n |-> 48]

\* A double by operator<<: as a decimal of six digits, or with an exponent of two digits.
print_real(m, e) ==
    LET abs == IF m < 0 THEN -m ELSE m
        D == Decimal(abs)
        n == Len(D)
        X == e + n - 1
        exp == IF X < 0 THEN -X ELSE X
        body == IF m = 0 THEN <<48>>
                ELSE IF X < -4 \/ X >= 6
                     THEN <<D[1]>> \o (IF n = 1 THEN <<>> ELSE <<46>> \o Tail(D))
                          \o <<101, IF X < 0 THEN 45 ELSE 43>>
                          \o (IF exp < 10 THEN <<48>> ELSE <<>>) \o Decimal(exp)
                ELSE IF e >= 0 THEN D \o Zeros(e)
                ELSE IF X >= 0 THEN SubSeq(D, 1, n + e) \o <<46>> \o SubSeq(D, n + e + 1, n)
                ELSE <<48, 46>> \o Zeros(-X - 1) \o D
    IN (IF m < 0 THEN <<45>> ELSE <<>>) \o body

Quoted(s) == LET e == string_escape(s)
             IN <<quote>> \o (IF e.st = "ok" THEN e.str ELSE <<Unprintable>>) \o <<quote>>
Break(pretty, indent) == IF pretty THEN <<10>> \o Spaces(indent) ELSE <<32>>
Joined(ss) == FoldLeft(LAMBDA acc, s : (IF acc = <<>> THEN <<>> ELSE acc \o <<44>>) \o s, <<>>, ss)

\* The order of std::map.
KeyBefore(a, b) ==
    \E n \in 0..Min({Len(a), Len(b)}) :
        /\ SubSeq(a, 1, n) = SubSeq(b, 1, n)
        /\ Len(b) > n /\ (Len(a) = n \/ a[n + 1] < b[n + 1])

RECURSIVE str(_, _, _)
object_str(o, pretty, indent) ==
    LET keys == SetToSortSeq(DOMAIN o, KeyBefore)
        member(k) == Break(pretty, indent + 2) \o Quoted(k) \o <<32, 58, 32>> \o str(o[k], pretty, indent + 2)
    IN <<123>> \o Joined([i \in DOMAIN keys |-> member(keys[i])]) \o Break(pretty, indent) \o <<125>>

array_str(a, pretty, indent) ==
    LET element(v) == Break(pretty, indent + 2) \o str(v, pretty, indent + 2)
    IN <<91>> \o Joined([i \in DOMAIN a |-> element(a[i])]) \o Break(pretty, indent) \o <<93>>

str(v, pretty, indent) ==
    CASE "null" \in DOMAIN v -> null_word
      [] "bool" \in DOMAIN v -> IF v.bool THEN true_word ELSE false_word
      [] "int" \in DOMAIN v -> Decimal(v.int)
      [] "real" \in DOMAIN v -> print_real(v.real[1], v.real[2])
      [] "string" \in DOMAIN v -> Quoted(v.string)
      [] "object" \in DOMAIN v -> object_str(v.object, pretty, indent)
      [] "array" \in DOMAIN v -> array_str(v.array, pretty, indent)

-----------------------------------------------------------------------------
\* The lookups of an object, each unescaping the key it is given.
contains(o, key) == string_unescape(key).str \in DOMAIN o
object_get(o, key, default) == IF contains(o, key) THEN o[string_unescape(key).str] ELSE default

get_typed(o, key, type, default) ==
    LET v == object_get(o, key, Null)
    IN IF type \in DOMAIN v THEN v[type] ELSE default

-----------------------------------------------------------------------------
Init == /\ text = <<>>
        /\ pieces = 0
        /\ result = from_string(<<>>)

\* A longer text is only of interest where the parser ran into the end of this one.
Write(p) ==
    /\ pieces < MaxPieces
    /\ result.at > Len(text)
    /\ pieces' = pieces + 1
    /\ text' = text \o p
    /\ result' = from_string(text')

Next == \E p \in Pieces : Write(p)
Spec == Init /\ [][Next]_vars

-----------------------------------------------------------------------------
\* UTF-8: how many bytes the character has that starts with byte c, and the least and the
\* largest second byte where they are not those of every continuation (no code is written
\* longer than it need be, and none is half of a pair).
Continuation == 128..191
CharLen(c) == CASE c < 128 -> 1 [] c \in 194..223 -> 2 [] c \in 224..239 -> 3 [] c \in 240..244 -> 4 [] OTHER -> 0
SecondBytes(c) == CASE c = 224 -> 160..191 [] c = 237 -> 128..159 [] c = 240 -> 144..191 [] c = 244 -> 128..143
                    [] OTHER -> Continuation
Utf8(s) ==
    \A i \in DOMAIN s :
        IF s[i] \in Continuation THEN \E k \in 1..Min({3, i - 1}) : CharLen(s[i - k]) > k
        ELSE /\ CharLen(s[i]) \in 1..(Len(s) + 1 - i)
             /\ \A k \in 1..(CharLen(s[i]) - 1) : s[i + k] \in IF k = 1 THEN SecondBytes(s[i]) ELSE Continuation

\* What the parser does not read back as it was: an integer 0, a real printed without a
\* point or an exponent, a container without members, a string with a backslash in it, and
\* one that is not UTF-8 and so prints as something else or not at all.
Plain(s) == backslash \notin Range(s) /\ Utf8(s)

RECURSIVE ReadsBack(_)
ReadsBack(v) ==
    CASE "int" \in DOMAIN v -> v.int # 0
      [] "real" \in DOMAIN v -> v.real[2] < 0 \/ v.real[2] + Len(Decimal(Max({v.real[1], -v.real[1]}))) > 6
      [] "string" \in DOMAIN v -> Plain(v.string)
      [] "array" \in DOMAIN v -> v.array # <<>> /\ \A i \in DOMAIN v.array : ReadsBack(v.array[i])
      [] "object" \in DOMAIN v -> DOMAIN v.object # {} /\ \A k \in DOMAIN v.object : Plain(k) /\ ReadsBack(v.object[k])
      [] OTHER -> TRUE

\* A value read from any text and printed, in either layout, is read again as the same value,
\* whatever escapes, surrogate pairs, exponents and nesting the text had (lexer.cpp:112,
\* json.cpp:616); the exceptions are the values of ReadsBack.
ParsesBack ==
    result.kind = "value" /\ ReadsBack(result.val) =>
        \A pretty \in BOOLEAN : from_string(str(result.val, pretty, 0)).val = result.val

\* A member is found under the escaped form of its key, with the getter of its type
\* (json.cpp:50, 143): escaping and unescaping are each other's inverse.
MembersFound ==
    result.kind = "value" /\ "object" \in DOMAIN result.val =>
        \A k \in DOMAIN result.val.object : Utf8(k) =>
            LET v == result.val.object[k]
            IN \A type \in DOMAIN v :
                   get_typed(result.val.object, string_escape(k).str, type, v) = v[type]

\* "strings are always stored in memory in their raw, un-escaped form" (libjson/README.md:6):
\* what a string token stores is its text with the escapes replaced, once.
RECURSIVE Raw(_, _, _)
Raw(s, i, raw) ==
    IF s[i] = quote THEN raw ELSE LET p == Unescaped(s, i) IN Raw(s, p.next, raw \o p.str)
StoredRaw ==
    result.kind = "value" => \A i \in DOMAIN text :
        text[i] = quote =>
            LET t == get(text, i)
            IN t.kind = "string" => t.val.string = Raw(text, i + 1, <<>>)
=============================================================================
