--------------------------------- MODULE Uri ---------------------------------
(***************************************************************************)
(* URIs (http/src/common/uri.cpp): parsing a text into components, each    *)
(* validated and percent-decoded by its own rules, printing them back and  *)
(* merging a relative URI into a base.  A text is a sequence of            *)
(* characters; the classes of characters have a few members each.          *)
(***************************************************************************)
EXTENDS Integers, SequencesExt, FiniteSetsExt

CONSTANTS
    Pieces,        \* the texts that inputs are put together from
    MaxPieces,     \* bound: pieces of the URI that is parsed
    MaxRelative,   \* bound: pieces of the URI merged into it
    MaxPort,       \* the largest port
    IntMax         \* the largest int

VARIABLES
    text,          \* the text given to uri(str)
    base,          \* the URI parsed from it
    rel,           \* the relative URI
    target         \* the merged one

vars == <<text, base, rel, target>>

-----------------------------------------------------------------------------
\* Characters.
alpha == {"a", "A", "f", "F"}
digit == {"0", "1", "2", "3", "4", "5"}
unreserved == alpha \cup digit \cup {"."}
subcomponent_delimiter == {";", "=", ",", "(", ")"}
xdigit == digit \cup alpha

\* The value of a digit and the character with a hexadecimal code; codes that matter here
\* have a character of their own, the others are one character outside ASCII.
Digit == [c \in digit |-> CHOOSE d \in 0..9 : ToString(d) = c]
Code == <<"2", "5">> :> "%" @@ <<"2", "F">> :> "/" @@ <<"3", "A">> :> ":" @@ <<"2", "3">> :> "#"
        @@ <<"3", "F">> :> "?" @@ <<"4", "0">> :> "@"
toupper(c) == IF c = "a" THEN "A" ELSE IF c = "f" THEN "F" ELSE c
CharOf(x, y) == IF <<x, toupper(y)>> \in DOMAIN Code THEN Code[<<x, toupper(y)>>] ELSE "high"

\* What a component takes as it is.
Kept == [userinfo |-> unreserved \cup subcomponent_delimiter \cup {":"},
         host |-> unreserved \cup subcomponent_delimiter \cup {":", "[", "]"},
         path |-> unreserved \cup subcomponent_delimiter \cup {"@", ":", "/"},
         query |-> unreserved \cup subcomponent_delimiter \cup {":", "@", "/", "?"}]

uri_percent_encoded(s, i) ==
    i + 2 <= Len(s) /\ s[i] = "%" /\ s[i + 1] \in xdigit /\ s[i + 2] \in xdigit

\* The decoded text; a text with anything but the characters of kept in it is refused.
RECURSIVE decode(_, _)
decode(kept, s) ==
    IF s = <<>> THEN [ok |-> TRUE, str |-> <<>>]
    ELSE IF s[1] \in kept \/ uri_percent_encoded(s, 1)
         THEN LET n == IF s[1] \in kept THEN 1 ELSE 3
                  rest == decode(kept, SubSeq(s, n + 1, Len(s)))
              IN [rest EXCEPT !.str = <<IF n = 1 THEN s[1] ELSE CharOf(s[2], s[3])>> \o @]
         ELSE [ok |-> FALSE, str |-> <<>>]

decode_userinfo(s) == decode(Kept.userinfo, s)
decode_host(s) == decode(Kept.host, s)
decode_path(s) == decode(Kept.path, s)
decode_query(s) == decode(Kept.query, s)

\* The characters printed for c: as an int, a character outside ASCII is negative and takes
\* eight digits.
Encoded(c) ==
    IF c = "high" THEN <<"%", "F", "F", "F", "F", "F", "F", "A", "A">>
    ELSE <<"%">> \o CHOOSE xy \in DOMAIN Code : Code[xy] = c

tolower(c) == IF c = "A" THEN "a" ELSE IF c = "F" THEN "f" ELSE c

encode(kept, s) ==
    FlattenSeq([i \in 1..Len(s) |-> IF s[i] \in kept THEN <<s[i]>> ELSE Encoded(s[i])])
encode_scheme(s) == [i \in 1..Len(s) |-> tolower(s[i])]
encode_userinfo(s) == encode(Kept.userinfo, s)
encode_host(s) == encode(Kept.host, [i \in 1..Len(s) |-> tolower(s[i])])
encode_path(s) == encode(Kept.path, s)
encode_query(s) == encode(Kept.query, s)

-----------------------------------------------------------------------------
\* The first position at or after i with a character of stops, or the end.
UpTo(s, i, stops) == Min({j \in i..Len(s) : s[j] \in stops} \cup {Len(s) + 1})
At(s, i) == IF i \in 1..Len(s) THEN s[i] ELSE ""

NoPath == [component |-> <<>>, m_path |-> <<>>, segments |-> <<>>,
           slash_at_start |-> FALSE, slash_at_end |-> FALSE]
NoUri == [err |-> "none", scheme |-> <<>>, userinfo |-> <<>>, host |-> <<>>, port |-> <<>>,
          path |-> NoPath, query |-> <<>>, fragment |-> <<>>]
Bad(u) == [u EXCEPT !.err = "bad_uri"]

valid_scheme(s) ==
    s # <<>> /\ s[1] \in alpha /\ \A i \in 2..Len(s) : s[i] \in alpha \cup digit \cup {"."}

\* Valid texts of userinfo, query and fragment: what decode() takes, but not empty.
valid_userinfo(s) == s # <<>> /\ decode_userinfo(s).ok
valid_query(s) == s # <<>> /\ decode_query(s).ok
valid_fragment(s) == s # <<>> /\ decode_query(s).ok

\* An IPv6 address in brackets, an IPv4 address, or a name (an IPv4 address is one too).
Ip6 == {<<":", ":">>, <<":", ":", "1">>}

RECURSIVE is_regular_hostname(_)
is_regular_hostname(s) ==
    \/ s = <<>>
    \/ s[1] \in unreserved \cup subcomponent_delimiter /\ is_regular_hostname(Tail(s))
    \/ uri_percent_encoded(s, 1) /\ is_regular_hostname(SubSeq(s, 4, Len(s)))

valid_host(s) ==
    /\ s # <<>>
    /\ IF s[1] = "[" /\ Last(s) = "]"
       THEN SubSeq(s, 2, Len(s) - 1) \in Ip6
       ELSE is_regular_hostname(s)

set_host(u, s) == IF valid_host(s) THEN [u EXCEPT !.host = decode_host(s).str] ELSE Bad(u)

\* The value of a port; stoi() throws when it is no int: then it is IntMax + 1.
AtMost(n) == IF n > IntMax THEN IntMax + 1 ELSE n
Number(s) == FoldLeft(LAMBDA n, c : AtMost(10 * n + Digit[c]), 0, s)

set_port(u, s) ==
    IF s = <<>> \/ \E i \in 1..Len(s) : s[i] \notin digit THEN Bad(u)
    ELSE IF Number(s) > IntMax THEN [u EXCEPT !.err = "out_of_range"]
    ELSE IF Number(s) \notin 1..MaxPort THEN Bad(u) ELSE [u EXCEPT !.port = s]

\* "//" not allowed.
valid_path(s) == decode_path(s).ok /\ \A i \in 1..Len(s) - 1 : <<s[i], s[i + 1]>> # <<"/", "/">>

-----------------------------------------------------------------------------
segments_to_path(segments, at_start, at_end) ==
    IF segments = <<>> THEN <<>>
    ELSE (IF at_start THEN <<"/">> ELSE <<>>)
         \o FlattenSeq([i \in 1..Len(segments) |->
                          (IF i = 1 THEN <<>> ELSE <<"/">>) \o segments[i]])
         \o (IF at_end THEN <<"/">> ELSE <<>>)

DotDot == <<".", ".">>
Dot == <<".">>
Pop(segments) == IF segments = <<>> THEN <<>> ELSE Front(segments)

\* One segment of set(): absolute paths lose their dot segments here.
AddSegment(segments, s, absolute) ==
    IF s = <<>> \/ (absolute /\ s = Dot) THEN segments
    ELSE IF absolute /\ s = DotDot THEN Pop(segments) ELSE Append(segments, s)

RECURSIVE Split(_)
Split(s) ==
    LET ei == UpTo(s, 1, {"/"})
    IN IF s = <<>> THEN <<>>
       ELSE <<SubSeq(s, 1, ei - 1)>> \o Split(SubSeq(s, ei + 1, Len(s)))

\* uri_path::set() on the path p.  Segments of an earlier set() stay.
set_path(p, s) ==
    LET d == decode_path(s).str
        absolute == p.slash_at_start \/ d[1] = "/"
        segs == FoldLeft(LAMBDA acc, x : AddSegment(acc, x, absolute), p.segments, Split(d))
        at_end == p.slash_at_end \/ Last(d) = "/"
    IN [component |-> IF segs = <<>> THEN p.component ELSE segments_to_path(segs, absolute, at_end),
        m_path |-> d, segments |-> segs, slash_at_start |-> absolute, slash_at_end |-> at_end]

-----------------------------------------------------------------------------
\* The parsers of the components, from position i; each gives the URI and the position after it.
parse_scheme(u, s, i) ==
    LET ei == UpTo(s, i, {":"})
        name == SubSeq(s, i, ei - 1)
    IN [u |-> IF valid_scheme(name) THEN [u EXCEPT !.scheme = name] ELSE Bad(u), i |-> ei + 1]

\* The host and port of the authority from its position i on.  Text between a closing
\* bracket and ":" is skipped.
host_port(u, auth, i) ==
    LET close == IF At(auth, i) = "[" THEN UpTo(auth, i, {"]"}) ELSE UpTo(auth, i, {":"}) - 1
        host == SubSeq(auth, i, close)
        v == set_host(u, host)
    IN IF At(auth, i) = "[" /\ At(auth, close) # "]" THEN Bad(u)
       ELSE IF v.err = "none" /\ At(auth, close + 1) = ":"
            THEN set_port(v, SubSeq(auth, close + 2, Len(auth))) ELSE v

\* Mutant: the user information is kept when it is invalid, undecoded.
LaxAuthority(u, s, i) ==
    LET ei == UpTo(s, i + 2, {"/", "?", "#"})
        auth == SubSeq(s, i + 2, ei - 1)
        at == UpTo(auth, 1, {"@"})
    IN [u |-> IF at > Len(auth) THEN host_port(u, auth, 1)
              ELSE host_port([u EXCEPT !.userinfo = SubSeq(auth, 1, at - 1)], auth, at + 1),
        i |-> ei]

parse_authority(u, s, i) ==
    LET ei == UpTo(s, i + 2, {"/", "?", "#"})
        auth == SubSeq(s, i + 2, ei - 1)
        at == UpTo(auth, 1, {"@"})
        info == SubSeq(auth, 1, at - 1)
    IN [u |-> IF at > Len(auth) THEN host_port(u, auth, 1)
              ELSE IF ~valid_userinfo(info) THEN Bad(u)
              ELSE host_port([u EXCEPT !.userinfo = decode_userinfo(info).str], auth, at + 1),
        i |-> ei]

parse_path(u, s, i) ==
    LET ei == UpTo(s, i, {"?", "#"})
        path == SubSeq(s, i, ei - 1)
    IN [u |-> IF valid_path(path) THEN [u EXCEPT !.path = set_path(@, path)] ELSE Bad(u), i |-> ei]

parse_query(u, s, i) ==
    LET ei == UpTo(s, i + 1, {"#"})
        query == SubSeq(s, i + 1, ei - 1)
    IN [u |-> IF valid_query(query) THEN [u EXCEPT !.query = decode_query(query).str]
              ELSE Bad(u), i |-> ei]

parse_fragment(u, s, i) ==
    LET fragment == SubSeq(s, i + 1, Len(s))
    IN [u |-> IF valid_fragment(fragment)
              THEN [u EXCEPT !.fragment = decode_query(fragment).str] ELSE Bad(u),
        i |-> Len(s) + 1]

\* The component at position i, chosen by what is there and by the scheme having been seen.
component(u, s, i, scheme_seen) ==
    CASE s[i] = "/" -> IF At(s, i + 1) = "/" THEN parse_authority(u, s, i) ELSE parse_path(u, s, i)
      [] s[i] = "?" -> parse_query(u, s, i)
      [] s[i] = "#" -> parse_fragment(u, s, i)
      [] OTHER -> IF ~scheme_seen /\ At(s, UpTo(s, i, {":", "/"})) = ":"
                  THEN parse_scheme(u, s, i) ELSE parse_path(u, s, i)

RECURSIVE ParseFrom(_, _, _)
ParseFrom(u, s, i) ==
    IF i > Len(s) \/ u.err # "none" THEN u
    ELSE LET r == component(u, s, i, u.scheme # <<>>) IN ParseFrom(r.u, s, r.i)

parse(s) == ParseFrom(NoUri, s, 1)

\* operator<<: the components that are present.
print(u) ==
    (IF u.scheme = <<>> THEN <<>> ELSE encode_scheme(u.scheme) \o <<":">>)
    \o (IF u.host = <<>> THEN <<>>
        ELSE <<"/", "/">>
             \o (IF u.userinfo = <<>> THEN <<>> ELSE encode_userinfo(u.userinfo) \o <<"@">>)
             \o encode_host(u.host)
             \o (IF u.port = <<>> THEN <<>> ELSE <<":">> \o u.port))
    \o encode_path(u.path.component)
    \o (IF u.query = <<>> THEN <<>> ELSE <<"?">> \o encode_query(u.query))
    \o (IF u.fragment = <<>> THEN <<>> ELSE <<"#">> \o encode_query(u.fragment))

-----------------------------------------------------------------------------
\* Mutant: the last segment of the base stays.
KeepLast(segments) == segments

\* The segments of the base that a relative path is added to.
Parent(segments) == Pop(segments)

\* uri_path::merge().  The new path goes through set(), which decodes it once more; the
\* result has err set when that throws.
merge_path(p, r) ==
    LET segs == FoldLeft(LAMBDA acc, s : IF s = DotDot THEN Pop(acc)
                                         ELSE IF s = Dot THEN acc ELSE Append(acc, s),
                         Parent(p.segments), r.segments)
        path == segments_to_path(segs, p.slash_at_start, r.slash_at_end)
    IN IF r.slash_at_start THEN [err |-> "none", path |-> r]
       ELSE IF segs = <<>> THEN [err |-> "none", path |-> NoPath]
       ELSE IF ~decode_path(path).ok THEN [err |-> "bad_uri", path |-> NoPath]
       ELSE [err |-> "none", path |-> set_path(NoPath, path)]

\* uri::merge().
merge(b, r) ==
    IF r.scheme # <<>> THEN r
    ELSE IF r.host # <<>> THEN [r EXCEPT !.scheme = b.scheme]
    ELSE IF r.path.component # <<>>
         THEN LET p == merge_path(b.path, r.path)
              IN [b EXCEPT !.path = p.path, !.err = p.err, !.query = r.query, !.fragment = r.fragment]
         ELSE [b EXCEPT !.query = IF r.query # <<>> THEN r.query ELSE @, !.fragment = r.fragment]

-----------------------------------------------------------------------------
Texts(n) == {FlattenSeq(p) : p \in UNION {[1..k -> Pieces] : k \in 0..n}}

Init == text = <<>> /\ base = NoUri /\ rel = NoUri /\ target = NoUri

Parse ==
    /\ text = <<>>
    /\ text' \in Texts(MaxPieces) \ {<<>>}
    /\ base' = parse(text')
    /\ UNCHANGED <<rel, target>>

Relatives == {u \in {parse(s) : s \in Texts(MaxRelative)} : u.err = "none"}

\* Only URIs with a host and a path serve as a base here.
Merge ==
    /\ text # <<>> /\ target = NoUri /\ base.err = "none" /\ base.host # <<>> /\ base.path.m_path # <<>>
    /\ rel' \in Relatives
    /\ target' = merge(base, rel')
    /\ UNCHANGED <<text, base>>

Next == Parse \/ Merge
Spec == Init /\ [][Next]_vars

-----------------------------------------------------------------------------
Components(u) == <<u.scheme, u.userinfo, u.host, u.port, u.path.component, u.query, u.fragment>>
Low(u) == [u EXCEPT !.scheme = [i \in 1..Len(@) |-> tolower(@[i])],
                    !.host = [i \in 1..Len(@) |-> tolower(@[i])]]

\* Decoded characters that print as if they had never been encoded: a colon in the host, or
\* before any slash of a relative reference, where the parser takes it for the end of a
\* scheme; and characters outside ASCII, which print wrong.
Ambiguous(u) ==
    \/ \E i \in 1..Len(Components(u)) : "high" \in Range(Components(u)[i])
    \/ ":" \in Range(u.host) /\ u.host[1] # "["
    \/ u.scheme = <<>> /\ At(print(u), 1) \notin {"/", "?", "#"}
       /\ At(print(u), UpTo(print(u), 1, {":", "/"})) = ":"

\* A URI that was parsed prints as a text that parses to the same components, percent
\* signs, dot segments, empty paths and skipped text included (uri.h:421, uri.cpp:897).
PrintsBack ==
    target = NoUri /\ base.err = "none" /\ ~Ambiguous(base) =>
        Components(parse(print(base))) = Components(Low(base))

\* The path the standard gives for a relative path: the text of the base up to its last
\* slash, the relative path after it, and the dot segments removed.
UpToLastSlash(s) == SubSeq(s, 1, Max({i \in 1..Len(s) : s[i] = "/"} \cup {0}))
Resolved(b, r) ==
    FoldLeft(LAMBDA acc, s : AddSegment(acc, s, TRUE), <<>>, Split(UpToLastSlash(b) \o r))

\* Merging follows the standard up to the slash at the end, for a base that ends in a name:
\* one that ends in a slash or in dots loses a segment too much, and a percent sign
\* is decoded twice (uri_path::merge, uri.cpp:590).
MergesAsSpecified ==
    target # NoUri /\ rel.scheme = <<>> /\ rel.host = <<>>
    /\ rel.path.component # <<>> /\ ~rel.path.slash_at_start
    /\ ~base.path.slash_at_end
    /\ Last(Split(base.path.m_path)) \notin {Dot, DotDot}
    /\ "%" \notin Range(base.path.m_path) \cup Range(rel.path.m_path) =>
        target.err = "none" /\ target.path.segments = Resolved(base.path.m_path, rel.path.m_path)

=============================================================================
