-------------------------------- MODULE MCText --------------------------------
(***************************************************************************)
(* The texts the program reads and writes - URIs, header fields, start     *)
(* lines, JSON - and the values it keeps of JSON, each on its own          *)
(* instance.  They share no state, so one run checks them all: a behaviour *)
(* is one of the part that is chosen at first.  Texts are put together     *)
(* from the pieces below.                                                  *)
(***************************************************************************)
EXTENDS Integers, Sequences, TLC

CONSTANTS
    MaxPieces, MaxRelative, MaxPort, IntMax,     \* of Uri; StartLine shares the last two
    Lists, Ids, Names, MaxValues, None,          \* of Headers
    MaxJson, JsonIntMax,                         \* of Json
    Vars, Addrs, MaxKeys, MaxDepth, Scalars,     \* of JsonValue
    MaxLine                                      \* of StartLine

VARIABLES
    part,
    text, base, rel, target,
    heap, list, err, want, shared, sent,
    json, pieces, result,
    val, blocks, broken, trees, leaked,
    message, line, got

UriPieces ==
    {<<"a">>, <<"1">>, <<".">>, <<".", ".">>, <<"/">>, <<"/", "A">>, <<"/", "/", "a">>, <<":">>, <<"?">>,
     <<"#">>, <<"@">>, <<"%", "2", "5">>, <<"%", "3", "A">>, <<"[", ":", ":", "]">>}

ab == <<"a", "b">>
FieldTexts ==
    {<<"1">>, <<"A", "b", ",", " ", "a", "b">>, <<"a", "b", ";", "a">>}
FieldSettings ==
    [te |-> {<<[name |-> ab, parameters |-> <<<<ab, <<"b">>>>>>]>>,
             <<[name |-> ab, parameters |-> <<<<ab, <<"\"", "\\", "\"", ",", "\"">>>>, <<ab, ab>>>>],
               [name |-> ab, parameters |-> <<>>]>>},
     connection |-> {<<ab, ab>>}]

\* [ [" ] { } , " \ \u00E9, the four bytes of U+10001, its \ud800 \udc01 "a": 1 0 .5 e07 - true
JsonPieces ==
    {<<91>>, <<91, 34>>, <<93>>, <<123>>, <<125>>, <<44>>, <<34>>, <<92>>, <<92, 117, 48, 48, 69, 57>>,
     <<240, 144, 128, 129>>, <<92, 117, 100, 56, 48, 48>>, <<92, 117, 100, 99, 48, 49>>, <<34, 97, 34, 58>>, <<49>>,
     <<48>>, <<46, 53>>, <<101, 48, 55>>, <<45>>, <<116, 114, 117, 101>>}

RequestUris ==
    {<<"/", "a">>, <<"/", "a", "?", "f", "=", "1", "#", "a">>, <<"a", ":", "/", "/", "a", "/", "f">>,
     <<"a", ":", "/", "/", "a", ":", "4", "/">>, <<"a", ":", "/", "/", "a">>, <<"/", "%", "2", "5">>,
     <<"/", "a", "/", "%", "2", "F", "f">>, <<"/", "%", "F", "F">>}
HostValues == {None} \cup [host : {<<"a">>, <<"f">>}, port : {0, 4}]
MessageVersions == {<<"1", "1">>, <<"1", "0">>}
Phrases == {<<>>, <<"a">>, <<" ", "a", " ", "f", " ">>, <<" ">>, <<"a", "high", "f">>}
LinePieces ==
    {<<"GET">>, <<" ">>, <<"/", "a">>, <<"A", "/", "1", ".", "1">>, <<"4", "0", "4">>, <<"a">>, <<"high">>,
     <<" ", "(", "a", ")", ",">>, <<"A", "/", "1", ".", "1", " ", "a", ":", "0", "4">>, <<"1">>, <<"%", "2", "5">>}

Uris == INSTANCE Uri WITH Pieces <- UriPieces
Fields == INSTANCE Headers WITH Texts <- FieldTexts, Settings <- FieldSettings
JsonText == INSTANCE Json WITH Pieces <- JsonPieces, MaxPieces <- MaxJson, IntMax <- JsonIntMax, text <- json
Values == INSTANCE JsonValue WITH heap <- blocks, want <- trees
Start == INSTANCE StartLine WITH UriTexts <- RequestUris, HostFields <- HostValues, Versions <- MessageVersions,
                                 Reasons <- Phrases, Pieces <- LinePieces, MaxPieces <- MaxLine, sent <- message

uriVars    == <<text, base, rel, target>>
fieldVars  == <<heap, list, err, want, shared, sent>>
jsonVars   == <<json, pieces, result>>
valueVars  == <<val, blocks, broken, trees, leaked>>
startVars  == <<message, line, got>>
textVars   == <<part, uriVars, fieldVars, jsonVars, valueVars, startVars>>

TextInit ==
    /\ part \in {"uri", "fields", "json", "values", "start"}
    /\ Uris!Init /\ Fields!Init /\ JsonText!Init /\ Values!Init /\ Start!Init

TextNext ==
    /\ \/ part = "uri" /\ Uris!Next /\ UNCHANGED <<fieldVars, jsonVars, valueVars, startVars>>
       \/ part = "fields" /\ Fields!Next /\ UNCHANGED <<uriVars, jsonVars, valueVars, startVars>>
       \/ part = "json" /\ JsonText!Next /\ UNCHANGED <<uriVars, fieldVars, valueVars, startVars>>
       \/ part = "values" /\ Values!Next /\ UNCHANGED <<uriVars, fieldVars, jsonVars, startVars>>
       \/ part = "start" /\ Start!Next /\ UNCHANGED <<uriVars, fieldVars, jsonVars, valueVars>>
    /\ UNCHANGED part

TextSpec == TextInit /\ [][TextNext]_textVars

\* the variables of JSON values are alike, and so are the lists of fields, which are the same
\* model values: no behaviour has both
Alike == Permutations(Vars)

-----------------------------------------------------------------------------
\* A URI that was parsed prints as a text that parses to the same components, but for
\* characters that print as if they had never been encoded; and a relative path is merged as
\* the standard says, for a base that ends in a name (uri's parser and operator<<,
\* uri_path::merge).
UrisReadBack == part = "uri" => Uris!PrintsBack /\ Uris!MergesAsSpecified

\* Each lower-case name has one field whose value is the members put there, and a copy of a
\* list keeps them unless add() is called on one of two lists that share a value; fields that
\* update(name, base_value *) added under a name with capitals are not found again
\* (headers::add, update, remove).
FieldsAsSet == part = "fields" => Fields!FieldsAsSet

\* The other side reads the fields that were sent, unless a value ends in a word of one
\* character, a parameter has no value or a name has capitals (headers::add(line),
\* operator<<, scanner).
ReceivedAsSent == part = "fields" => Fields!ReceivedAsSent

\* A JSON value read from any text and printed, in either layout, is read again as the same
\* value, and a member is found under the escaped form of its key; the exceptions are zero,
\* round reals, empty containers and strings with a backslash (lexer::get, parser,
\* value::str, object::get).
JsonReadsBack == part = "json" => JsonText!ParsesBack /\ JsonText!MembersFound

\* Memory of a JSON value has one owner and none is lost, and a value is what was assigned to
\* it last, whatever is done to the values it was copied or moved from; assignments between a
\* value and its own member end the behaviour, or lose the value (value::copy, move, clean).
ValuesOwnMemory == part = "values" => Values!OwnedOnce /\ Values!ValuesIndependent

\* The other side reads the request or response line that was built, and a line or a Via
\* field that was accepted is accepted with the same parts when it is passed on
\* (request_line, response_line, via's parser and their operator<<).
LinesReadBack == part = "start" => Start!LinesReadBack
=============================================================================
