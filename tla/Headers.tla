------------------------------- MODULE Headers -------------------------------
(***************************************************************************)
(* HTTP header fields: the values of header fields                         *)
(* (http/src/common/hval.cpp) and the lists of fields (headers.cpp), whose *)
(* values are shared between a list and its copies.  One side sets fields  *)
(* and prints them, the other reads the lines through the scanner.         *)
(***************************************************************************)
EXTENDS Scanner

CONSTANTS
    Lists,         \* header lists
    Ids,           \* values, numbered
    Names,         \* names of fields, as a caller spells them
    Texts,         \* texts given to add() and update()
    Settings,      \* of each field, the values given to its setter
    MaxValues,     \* bound: members of a sequence value
    None

VARIABLES
    heap,          \* the values
    list,          \* of each list, its fields: name and value
    err,           \* the exception the reader of the fields sent last got
    want,          \* history: of each list and name, the members put there
    shared,        \* history: lists and names changed through another list
    sent           \* history: the list sent last, and the one it was received in

vars == <<heap, list, err, want, shared, sent>>

-----------------------------------------------------------------------------
\* hval.cpp: a field's value from its text, or the exception.
Throw(e) == [err |-> e, val |-> <<>>]
Value(v) == [err |-> "none", val |-> v]

\* A number.  Of a text without digits stoull() throws; numbers here have one digit each.
parse_number(s) ==
    IF \E i \in 1..Len(s) : ~isdigit(s[i]) THEN Throw("bad_message")
    ELSE IF s = <<>> THEN Throw("invalid_argument") ELSE Value(s)

\* Strings separated by commas.
RECURSIVE parse_strings(_)
more_strings(sc) ==
    IF sc.err # "none" THEN Throw(sc.err)
    ELSE IF sc.found THEN parse_strings(read_opt_space(sc)) ELSE Value(sc.vals)
parse_strings(sc) == more_strings(read_special(read_opt_space(read_token(sc, TRUE)), ","))

\* Tokens with parameters, separated by commas.
Tokenized(sc) ==
    IF sc.err # "none" THEN sc
    ELSE [sc EXCEPT !.vals = Append(Front(@), [name |-> Last(@), parameters |-> sc.pars]), !.pars = <<>>]
read_one(sc) == Tokenized(opt_parameters(read_special(read_opt_space(read_token(sc, TRUE)), ";")))

RECURSIVE parse_tokens(_)
more_tokens(sc) ==
    IF sc.err # "none" THEN Throw(sc.err)
    ELSE IF sc.found THEN parse_tokens(read_opt_space(sc)) ELSE Value(sc.vals)
parse_tokens(sc) == more_tokens(read_special(read_opt_space(read_one(sc)), ","))

\* type/subtype with parameters.
read_media(sc) == read_token(required(read_special(read_token(sc, TRUE), "/")), TRUE)
media_type(sc) ==
    IF sc.err # "none" THEN Throw(sc.err)
    ELSE Value(<<[type |-> sc.vals[1], subtype |-> sc.vals[2], parameters |-> sc.pars]>>)
parse_media_type(sc) ==
    media_type(opt_parameters(read_opt_space(read_special(read_opt_space(read_media(sc)), ";"))))

\* The options, and the media types, that are implemented.
valid_connection(t) == t = <<"a", "b">>
valid_media_type(mt) == mt.type = <<"a", "b">> /\ mt.subtype = <<"a", "b">>

\* What the members of the fields are; every other field has strings.
Kind(n) ==
    CASE n = "content-length" -> "number" [] n = "te" -> "tokens"
      [] n = "connection" -> "options" [] n = "content-type" -> "media" [] OTHER -> "strings"
is_seq(n) == Kind(n) \in {"tokens", "options", "strings"}

\* Validators run on every member.
validated(n, r) ==
    IF r.err # "none" THEN r
    ELSE IF Kind(n) = "options" /\ \E i \in 1..Len(r.val) : ~valid_connection(r.val[i])
    THEN Throw("not_implemented")
    ELSE IF Kind(n) = "media" /\ ~valid_media_type(r.val[1]) THEN Throw("exception") ELSE r

lower_name(name) == IF name = "TE" THEN "te" ELSE name

\* headers::validate().
validate(n, s) ==
    validated(n, CASE Kind(n) = "number" -> parse_number(s)
                   [] Kind(n) = "media" -> parse_media_type(Scan(s))
                   [] Kind(n) = "tokens" -> IF s = <<>> THEN Value(<<>>) ELSE parse_tokens(Scan(s))
                   [] OTHER -> IF s = <<>> THEN Value(<<>>) ELSE parse_strings(Scan(s)))

\* The values of all texts that callers give.
Parsed == [n \in {lower_name(x) : x \in Names} |-> [s \in Texts |-> validate(n, s)]]

\* operator<< of the values: a parameter without a value is printed as its name alone.
PrintParameters(pvec) ==
    FlattenSeq([i \in 1..Len(pvec) |-> <<";">> \o pvec[i][1] \o
                  (IF pvec[i][2] = <<>> THEN <<>> ELSE <<"=">> \o pvec[i][2])])
PrintMember(n, v) ==
    CASE Kind(n) = "number" -> <<v>>
      [] Kind(n) = "media" -> v.type \o <<"/">> \o v.subtype \o PrintParameters(v.parameters)
      [] Kind(n) = "tokens" -> v.name \o PrintParameters(v.parameters)
      [] OTHER -> v
str(n, val) ==
    FlattenSeq([i \in 1..Len(val) |->
        (IF i = 1 \/ Kind(n) = "number" THEN <<>> ELSE <<",", " ">>) \o PrintMember(n, val[i])])

-----------------------------------------------------------------------------
\* The position of a name in the list l; 0 when it has none.
find(l, n) ==
    LET at == {i \in 1..Len(list[l]) : list[l][i].name = n}
    IN IF at = {} THEN 0 ELSE CHOOSE i \in at : \A j \in at : i <= j
ValueOf(l, n) == heap[list[l][find(l, n)].id]

\* The values that the lists ls hold; the others are freed, and new ones take their place.
Held(ls) == UNION {{ls[l][k].id : k \in 1..Len(ls[l])} : l \in Lists}
Freed(h, ls) == [i \in Ids |-> IF i \in Held(ls) THEN h[i] ELSE <<>>]
Unused == SetToSortSeq(Ids \ Held(list), <)
Fresh == IF Unused = <<>> THEN {} ELSE {Unused[1]}

Init ==
    /\ heap = [i \in Ids |-> <<>>] /\ list = [l \in Lists |-> <<>>]
    /\ err = "none" /\ want = [l \in Lists |-> [n \in {} |-> <<>>]]
    /\ shared = {} /\ sent = None

Wanted(l, n, v) == [want EXCEPT ![l] = (n :> v) @@ @]

\* An exception leaves everything as it was.
Fails == UNCHANGED vars

\* The other lists that hold the value i.
Others(l, i) == {m \in Lists \ {l} : \E k \in 1..Len(list[m]) : list[m][k].id = i}

\* add(name, value): the members are appended to the value of a sequence field, in place.
Add(l, name, s) ==
    LET n == lower_name(name)
        r == Parsed[n][s]
        k == find(l, n)
    IN IF r.err # "none" THEN Fails
       ELSE IF k # 0 /\ ~is_seq(n) THEN Fails
       ELSE /\ err' = "none" /\ sent' = None
            /\ IF k = 0
               THEN \E i \in Fresh :
                      /\ heap' = [heap EXCEPT ![i] = r.val]
                      /\ list' = [list EXCEPT ![l] = Append(@, [name |-> n, id |-> i])]
                      /\ want' = Wanted(l, n, r.val) /\ shared' = shared \ {<<l, n>>}
               ELSE /\ Len(ValueOf(l, n)) + Len(r.val) <= MaxValues
                    /\ heap' = [heap EXCEPT ![list[l][k].id] = @ \o r.val]
                    /\ want' = Wanted(l, n, want[l][n] \o r.val)
                    /\ shared' = shared \cup {<<m, n>> : m \in Others(l, list[l][k].id)}
                    /\ UNCHANGED list

\* Mutant: the new value is written over the old one.
ReplaceInPlace(l, name, v) ==
    LET k == find(l, lower_name(name)) IN
    \E i \in IF k = 0 THEN Fresh ELSE {list[l][k].id} :
      /\ heap' = [heap EXCEPT ![i] = v]
      /\ list' = [list EXCEPT ![l] = IF k = 0 THEN Append(@, [name |-> name, id |-> i]) ELSE @]

\* The field found under the lower-cased name gets a value of its own; if there is none, one
\* is added under the name given.
Replace(l, name, v) ==
    LET k == find(l, lower_name(name)) IN
    \E i \in Fresh :
      /\ list' = [list EXCEPT ![l] = IF k = 0 THEN Append(@, [name |-> name, id |-> i])
                                     ELSE [@ EXCEPT ![k].id = i]]
      /\ heap' = Freed([heap EXCEPT ![i] = v], list')

\* update(name, value), which gives the lower-cased name.
Update(l, name, s) ==
    LET n == lower_name(name)
        r == Parsed[n][s]
    IN IF r.err # "none" THEN Fails
       ELSE /\ Replace(l, n, r.val) /\ err' = "none" /\ sent' = None
            /\ want' = Wanted(l, n, r.val) /\ shared' = shared \ {<<l, n>>}

\* update(name, base_value *), which gives the name as the caller spells it, and the setters
\* content_length(), te(), connection(), content_type() and so on, whose names are lower-case.
Set(l, name, v) ==
    LET n == lower_name(name)
        r == validated(n, Value(v))
    IN IF r.err # "none" THEN Fails
       ELSE /\ Replace(l, name, v) /\ err' = "none" /\ sent' = None
            /\ IF name = n \/ find(l, n) # 0
               THEN want' = Wanted(l, n, v) /\ shared' = shared \ {<<l, n>>}
               ELSE UNCHANGED <<want, shared>>

RemoveField(l, name) ==
    LET n == lower_name(name) IN
    /\ find(l, n) # 0
    /\ list' = [list EXCEPT ![l] = RemoveAt(@, find(l, n))]
    /\ want' = [want EXCEPT ![l] = [x \in DOMAIN @ \ {n} |-> @[x]]]
    /\ shared' = shared \ {<<l, n>>}
    /\ err' = "none" /\ sent' = None /\ heap' = Freed(heap, list')

\* The copy constructor and assignment: the values are not copied.
Copy(l, m) ==
    /\ l # m
    /\ list' = [list EXCEPT ![m] = list[l]] /\ want' = [want EXCEPT ![m] = want[l]]
    /\ shared' = {x \in shared : x[1] # m} \cup {<<m, x[2]>> : x \in {y \in shared : y[1] = l}}
    /\ err' = "none" /\ sent' = None /\ heap' = Freed(heap, list')

Move(l, m) ==
    /\ l # m /\ list[l] # <<>>
    /\ list' = [list EXCEPT ![m] = list[l], ![l] = <<>>]
    /\ want' = [want EXCEPT ![m] = want[l], ![l] = [n \in {} |-> <<>>]]
    /\ shared' = {<<m, x[2]>> : x \in {y \in shared : y[1] = l}}
    /\ err' = "none" /\ sent' = None /\ heap' = Freed(heap, list')

\* A line of the list l as it is printed and add(line) of the other side.
Line(l, k) == str(lower_name(list[l][k].name), heap[list[l][k].id]) \o <<"CR", "LF">>
add_value(n, sc) == IF sc.err # "none" THEN Throw(sc.err) ELSE validate(n, sc.vals[1])
add_line(n, line) == add_value(n, read_crlf(read_opt_space(read_all(read_opt_space(Scan(line))))))

\* The fields of l are printed and read into a new list m, under lower-cased names; add()
\* puts fields of one name together, or refuses a second one.
Send(l, m) ==
    /\ l # m /\ list[l] # <<>> /\ list[m] = <<>> /\ Len(Unused) >= Len(list[l])
    /\ sent' = <<l, m>> /\ UNCHANGED shared
    /\ \E r \in {[k \in 1..Len(list[l]) |-> add_line(lower_name(list[l][k].name), Line(l, k))]} :
       LET name == [k \in DOMAIN r |-> lower_name(list[l][k].name)]
           same(k) == SelectSeq([j \in DOMAIN r |-> j], LAMBDA j : name[j] = name[k])
           bad == {k \in DOMAIN r : r[k].err # "none"}
           again == {k \in DOMAIN r : ~is_seq(name[k]) /\ k # same(k)[1]}
           new == SelectSeq([j \in DOMAIN r |-> j], LAMBDA k : k = same(k)[1])
           value(k) == FlattenSeq([i \in DOMAIN same(k) |-> r[same(k)[i]].val])
       IN IF bad \cup again # {}
          THEN /\ err' = IF Min(bad \cup again) \in bad THEN r[Min(bad)].err ELSE "bad_message"
               /\ UNCHANGED <<heap, list, want>>
          ELSE /\ heap' = [i \in Ids |->
                    IF \E k \in DOMAIN new : Unused[k] = i
                    THEN value(new[CHOOSE k \in DOMAIN new : Unused[k] = i]) ELSE heap[i]]
               /\ list' = [list EXCEPT ![m] = [k \in DOMAIN new |-> [name |-> name[new[k]], id |-> Unused[k]]]]
               /\ want' = [want EXCEPT ![m] = [n \in Range(name) |->
                              value(CHOOSE k \in Range(new) : name[k] = n)]]
               /\ err' = "none"

Next ==
    \/ \E l \in Lists, name \in Names : RemoveField(l, name) \/ \E s \in Texts : Add(l, name, s) \/ Update(l, name, s)
    \/ \E l \in Lists, name \in Names \cup DOMAIN Settings :
          lower_name(name) \in DOMAIN Settings /\ \E v \in Settings[lower_name(name)] : Set(l, name, v)
    \/ \E l, m \in Lists : Copy(l, m) \/ Move(l, m) \/ Send(l, m)

Spec == Init /\ [][Next]_vars

-----------------------------------------------------------------------------
\* The fields of a list that a look-up can find.
Findable(l) == {k \in 1..Len(list[l]) : list[l][k].name = lower_name(list[l][k].name)}

\* Each lower-case name has one field, and its value is the members put there under any
\* spelling since it was set last, in order; a copy stays what it was when the other list
\* is updated or loses the field.  Only add() to one of two lists that share a value changes
\* the other as well (headers.h:44, headers.cpp:163).  Fields that update(name, base_value *)
\* added under a name with capitals are left out: nothing finds them again, and a name may
\* have any number of them (headers.cpp:277).
FieldsAsSet ==
    \A l \in Lists :
        /\ DOMAIN want[l] = {list[l][k].name : k \in Findable(l)}
        /\ \A n \in DOMAIN want[l] : <<l, n>> \notin shared => ValueOf(l, n) = want[l][n]
        /\ \A j, k \in Findable(l) : list[l][j].name = list[l][k].name => j = k

\* A value the scanner cannot read back: its last word is one character long, and so is
\* lost, or a parameter has no value.
LastWord(n, val) ==
    LET s == str(n, val)
        words == {i \in 1..Len(s) : ~is_tchar(s[i])}
    IN Len(s) - (IF words = {} THEN 0 ELSE CHOOSE i \in words : \A j \in words : i >= j)
Unreadable(n, val) ==
    \/ Kind(n) # "number" /\ Len(val) > 0 /\ LastWord(n, val) = 1
    \/ Kind(n) \in {"tokens", "media"} /\ \E i \in 1..Len(val) :
          \E p \in Range(val[i].parameters) : p[2] = <<>>

\* What one side sends the other side reads: the same fields with the same members, unless
\* a value ends in a word of one character or a parameter has no value (scanner.h:25), or a
\* field has a name with capitals (headers.cpp:277), which is read as the lower-case one.
ReceivedAsSent ==
    sent # None /\ (\A k \in 1..Len(list[sent[1]]) :
                      /\ k \in Findable(sent[1])
                      /\ ~Unreadable(list[sent[1]][k].name, heap[list[sent[1]][k].id])) =>
        /\ err = "none"
        /\ \A k \in 1..Len(list[sent[1]]) :
              /\ list[sent[2]][k].name = list[sent[1]][k].name
              /\ heap[list[sent[2]][k].id] = heap[list[sent[1]][k].id]

=============================================================================
