------------------------------- MODULE Scanner -------------------------------
(***************************************************************************)
(* The scanner of the lines of an HTTP message                             *)
(* (http/src/common/scanner.cpp).  A text is a sequence of characters; the *)
(* scanner is the number of characters it has consumed.                    *)
(***************************************************************************)
EXTENDS Integers, SequencesExt, FiniteSetsExt

\* Characters.
isdigit(c) == c \in {"0", "1", "2", "4"}
is_whitespace(c) == c = " "
is_tchar(c) ==
    c \notin {" ", "\"", "(", ")", ",", "/", ":", ";", "=", "?", "@", "[", "\\", "]",
              "CR", "LF", "high", "end"}

\* Outside ASCII a character is negative as an int, and so is neither visible nor opaque.
is_vchar(c) == c \notin {" ", "CR", "LF", "high", "end"}
is_quoted(c) == is_whitespace(c) \/ (is_vchar(c) /\ c \notin {"\"", "\\"})
is_commented(c) == is_whitespace(c) \/ (is_vchar(c) /\ c \notin {"(", ")", "\\"})
is_escaped(c) == is_whitespace(c) \/ is_vchar(c)
tolower(c) == IF c = "A" THEN "a" ELSE c
Lower(s) == [i \in 1..Len(s) |-> tolower(s[i])]

\* scanner: cur characters of s are consumed.
peek(s, cur) == IF cur < Len(s) THEN s[cur + 1] ELSE "end"
get(s, cur) == IF cur < Len(s) THEN cur + 1 ELSE cur

\* Mutant: unget() steps back one character before the end only.
UngetEarly(s, cur) == IF cur + 1 < Len(s) THEN cur - 1 ELSE cur

\* unget() does nothing at the end, so the last character, once looked at, is gone.
unget(s, cur) == IF cur < Len(s) THEN cur - 1 ELSE cur

\* Where a run of characters of a class ends, and where the scanner then is.
RunEnd(s, cur, Class(_)) ==
    CHOOSE e \in cur..Len(s) :
        /\ \A i \in cur + 1..e : Class(s[i])
        /\ e = Len(s) \/ ~Class(s[e + 1])
After(s, cur) == unget(s, get(s, cur))

\* A scanner in use: its text and position, what was read, the parameters among it, whether
\* the last special character looked for was there, and what went wrong.  Its callers give
\* up at the first reader that fails, so a reader does nothing after that.
Scan(s) == [s |-> s, cur |-> 0, vals |-> <<>>, pars |-> <<>>, found |-> FALSE, err |-> "none"]
Step(sc, ok, cur, vals) ==
    IF sc.err # "none" THEN sc
    ELSE IF ok THEN [sc EXCEPT !.cur = cur, !.vals = @ \o vals] ELSE [sc EXCEPT !.err = "bad_message"]
char(sc) == peek(sc.s, sc.cur)

\* A run of characters of a class, of which the text t is kept if Good.
Run(sc, Class(_), Good(_), Kept(_)) ==
    LET e == RunEnd(sc.s, sc.cur, Class)
        t == SubSeq(sc.s, sc.cur + 1, e)
    IN Step(sc, Good(t), After(sc.s, e), <<Kept(t)>>)
Same(t) == t
Some(t) == t # <<>>

read_opt_space(sc) == Step(sc, TRUE, After(sc.s, RunEnd(sc.s, sc.cur, is_whitespace)), <<>>)
read_space(sc) == read_opt_space(Step(sc, is_whitespace(char(sc)), sc.cur, <<>>))

\* A special character, which may or must be there.
read_special(sc, c) ==
    [Step(sc, TRUE, IF char(sc) = c THEN sc.cur + 1 ELSE After(sc.s, sc.cur), <<>>)
        EXCEPT !.found = sc.err = "none" /\ char(sc) = c]
required(sc) == Step(sc, sc.found, sc.cur, <<>>)

read_token(sc, lower) == Run(sc, is_tchar, Some, LAMBDA t : IF lower THEN Lower(t) ELSE t)

\* What was read between delimiters, ending at cur.
Delimited(sc, r) == Step(sc, r.ok, r.cur, <<r.val>>)

\* read_qstring() past the opening quote, quotes and escapes kept.
RECURSIVE QString(_, _, _)
QString(s, cur, val) ==
    CASE peek(s, cur) = "\"" -> [ok |-> TRUE, cur |-> cur + 1, val |-> Append(val, "\"")]
      [] peek(s, cur) = "\\" ->
            IF ~is_escaped(peek(s, cur + 1))
            THEN [ok |-> FALSE, cur |-> cur + 1, val |-> val]
            ELSE QString(s, cur + 2, val \o <<"\\", peek(s, cur + 1)>>)
      [] OTHER -> IF is_quoted(peek(s, cur))
                  THEN QString(s, cur + 1, Append(val, peek(s, cur)))
                  ELSE [ok |-> FALSE, cur |-> cur, val |-> val]
read_qstring(sc) == Delimited(sc, QString(sc.s, sc.cur + 1, <<"\"">>))

\* read_parameters(): name=value pairs separated by ";".  What is wrong is thrown as
\* std::invalid_argument.
Thrown(sc) == IF sc.err = "none" THEN sc ELSE [sc EXCEPT !.err = "invalid_argument"]
read_name(sc) == required(read_special(read_opt_space(read_token(sc, TRUE)), "="))
read_value(sc) == IF char(sc) = "\"" THEN read_qstring(sc) ELSE read_token(sc, FALSE)
Paired(sc) ==
    IF sc.err # "none" THEN sc
    ELSE [sc EXCEPT !.pars = Append(@, SubSeq(sc.vals, Len(sc.vals) - 1, Len(sc.vals))),
                    !.vals = SubSeq(@, 1, Len(@) - 2)]
read_parameter(sc) == Paired(read_value(read_opt_space(read_name(sc))))

RECURSIVE read_parameters(_)
more_parameters(sc) == IF sc.found THEN read_parameters(sc) ELSE Thrown(sc)
read_parameters(sc) == more_parameters(read_special(read_opt_space(read_parameter(sc)), ";"))
opt_parameters(sc) == IF sc.found THEN read_parameters(sc) ELSE sc

\* read_all(): up to the end of the line, and read_crlf() after it.
trim(s) ==
    LET in == {i \in 1..Len(s) : ~is_whitespace(s[i])}
    IN IF in = {} THEN <<>>
       ELSE SubSeq(s, CHOOSE i \in in : \A j \in in : i <= j, CHOOSE i \in in : \A j \in in : i >= j)
NotEol(c) == c \notin {"CR", "LF"}
read_all(sc) ==
    LET e == RunEnd(sc.s, sc.cur, NotEol)
    IN Step(sc, TRUE, IF e < Len(sc.s) THEN After(sc.s, e) ELSE e, <<trim(SubSeq(sc.s, sc.cur + 1, e))>>)
read_crlf(sc) == Step(sc, char(sc) \in {"end", "CR", "LF"}, sc.cur, <<>>)

-----------------------------------------------------------------------------
\* The parts of the first line of a message, and of a Via field.
is_uri(c) == c \notin {" ", "\"", "\\", "CR", "LF", "high", "end"}
is_version(c) == is_tchar(c) \/ c = "/"

read_uri(sc) == Run(sc, is_uri, Some, Same)

read_version(sc) == Run(sc, is_version, Some, Same)

read_status(sc) == Run(sc, isdigit, LAMBDA t : Len(t) = 3, Same)

read_reason(sc) == Run(sc, is_escaped, LAMBDA t : trim(t) # <<>>, trim)

\* read_comments() past the opening parenthesis.
RECURSIVE Comments(_, _, _)
Comments(s, cur, val) ==
    CASE peek(s, cur) = ")" -> [ok |-> TRUE, cur |-> cur + 1, val |-> Append(val, ")")]
      [] peek(s, cur) = "\\" ->
            IF is_escaped(peek(s, cur + 1)) THEN Comments(s, cur + 2, val \o <<"\\", peek(s, cur + 1)>>)
            ELSE [ok |-> FALSE, cur |-> cur + 1, val |-> val]
      [] OTHER -> IF is_commented(peek(s, cur)) THEN Comments(s, cur + 1, Append(val, peek(s, cur)))
                  ELSE [ok |-> FALSE, cur |-> cur, val |-> val]

\* Without an opening parenthesis there are none; what is wrong in them is thrown.
read_comments(sc) ==
    IF char(sc) = "(" THEN Thrown(Delimited(sc, Comments(sc.s, sc.cur + 1, <<"(">>)))
    ELSE Step(sc, TRUE, After(sc.s, sc.cur), <<<<>>>>)

=============================================================================
