------------------------------ MODULE StartLine ------------------------------
(***************************************************************************)
(* The first line of HTTP requests and responses: built by one side,       *)
(* printed, and read by the other through the scanner                      *)
(* (http/src/common/request.cpp, response.cpp, version.cpp, method.cpp).   *)
(* Method names are one character each, and the protocol name HTTP is "A". *)
(***************************************************************************)
EXTENDS Scanner, TLC

CONSTANTS
    UriTexts,      \* the URIs of requests
    HostFields,    \* values of the Host field: none, or host and port
    Versions,      \* versions given to with_version()
    Reasons,       \* reason phrases given to with_reason()
    Pieces,        \* what the lines of other peers are put together from
    MaxPieces,     \* bound: pieces of such a line
    MaxPort,
    IntMax,
    None

VARIABLES
    sent,          \* the message that was built
    line,          \* the line of a peer
    got            \* what was read

vars == <<sent, line, got>>

U == INSTANCE Uri WITH MaxRelative <- 0, text <- <<>>, base <- <<>>, rel <- <<>>, target <- <<>>

-----------------------------------------------------------------------------
http_protocol == <<"A">>
MAJOR_VERSION == "1"
MINOR_VERSION == "1"

\* The names of method_type, and the status codes with a phrase of their own.
method_names == {"GET", "PUT"}
method(t) == IF Len(t) = 1 /\ t[1] \in method_names THEN t[1] ELSE None
reason_phrase == <<"2", "0", "0">> :> <<"a", "f">> @@ <<"4", "0", "4">> :> <<"f", " ", "a">>

print_method(m) == <<m>>
print_version(v) ==
    (IF v.protocol = <<>> THEN <<>> ELSE v.protocol \o <<"/">>) \o <<v.major, ".", v.minor>>

\* version(str): what follows the second digit is not looked at.
version(vstr) ==
    LET slash == {i \in 1..Len(vstr) : vstr[i] = "/"}
        at == IF slash = {} THEN 0 ELSE Min(slash)
    IN IF isdigit(peek(vstr, at)) /\ peek(vstr, at + 1) = "." /\ isdigit(peek(vstr, at + 2))
       THEN [err |-> "none", protocol |-> IF at = 0 THEN <<>> ELSE SubSeq(vstr, 1, at - 1),
             major |-> vstr[at + 1], minor |-> vstr[at + 3]]
       ELSE [err |-> "bad_message"]

Bad(e) == [err |-> e]

\* The checks of the version that both kinds of lines make.
version_error(v) ==
    IF v.err # "none" THEN v.err
    ELSE IF v.protocol # http_protocol THEN "bad_message"
    ELSE IF v.major # MAJOR_VERSION \/ v.minor # MINOR_VERSION THEN "version_not_supported" ELSE "none"

-----------------------------------------------------------------------------
\* Mutant: the fragment is printed before the query.
FragmentFirst(r) ==
    print_method(r.method) \o <<" ">> \o U!encode_path(r.uri.path.component)
    \o (IF r.uri.fragment = <<>> THEN <<>> ELSE <<"#">> \o U!encode_query(r.uri.fragment))
    \o (IF r.uri.query = <<>> THEN <<>> ELSE <<"?">> \o U!encode_query(r.uri.query))
    \o <<" ">> \o print_version(r.version) \o <<"CR", "LF">>

\* operator<< of requests: of the URI only the path, the query and the fragment are printed.
print_request(r) ==
    print_method(r.method) \o <<" ">> \o U!encode_path(r.uri.path.component)
    \o (IF r.uri.query = <<>> THEN <<>> ELSE <<"?">> \o U!encode_query(r.uri.query))
    \o (IF r.uri.fragment = <<>> THEN <<>> ELSE <<"#">> \o U!encode_query(r.uri.fragment))
    \o <<" ">> \o print_version(r.version) \o <<"CR", "LF">>

\* sc has read the line; a bad URI is noticed before what comes after it is read.
request_of(sc, uri, ver) ==
    IF uri.err # "none" THEN Bad(uri.err)
    ELSE IF sc.err # "none" \/ method(sc.vals[1]) = None THEN Bad("bad_message")
    ELSE IF version_error(ver) # "none" THEN Bad(version_error(ver))
    ELSE [err |-> "none", method |-> method(sc.vals[1]), uri |-> uri, version |-> ver]
request_parts(sc) ==
    IF Len(sc.vals) < 2 THEN Bad("bad_message")
    ELSE request_of(sc, U!parse(sc.vals[2]), version(Last(sc.vals)))
read_target(sc) == read_uri(read_space(read_token(sc, FALSE)))
request_line(s) == request_parts(read_crlf(read_opt_space(read_version(read_space(read_target(Scan(s)))))))

\* request::validate(): the Host field against the URI; a port in the URI must be in the
\* field too.
validate(host, uri) ==
    /\ host # None
    /\ uri.host = <<>> \/ uri.host = host.host
    /\ uri.port = <<>> \/ (host.port # 0 /\ U!Number(uri.port) = host.port)

validated(host, r) == IF r.err = "none" /\ ~validate(host, r.uri) THEN Bad("bad_message") ELSE r

\* operator<< of responses.
print_response(r) ==
    print_version(r.version) \o <<" ">> \o r.status \o <<" ">> \o r.reason \o <<"CR", "LF">>

response_of(sc, ver) ==
    IF sc.err # "none" THEN Bad(sc.err)
    ELSE IF version_error(ver) # "none" THEN Bad(version_error(ver))
    ELSE [err |-> "none", status |-> sc.vals[2], reason |-> sc.vals[3], version |-> ver]
response_parts(sc) == response_of(sc, IF sc.vals = <<>> THEN Bad(sc.err) ELSE version(sc.vals[1]))
read_code(sc) == read_status(read_space(read_version(sc)))
response_line(s) == response_parts(read_crlf(read_opt_space(read_reason(read_space(read_code(Scan(s)))))))

\* response::validate(): an empty reason gets the phrase of the status.
with_phrase(r) == IF r.reason = <<>> THEN [r EXCEPT !.reason = reason_phrase[r.status]] ELSE r

-----------------------------------------------------------------------------
\* uri_port::numeric_port() printed: the port, which is not 0, without its leading zeros.
numeric_port(port) == SubSeq(port, Min({i \in 1..Len(port) : port[i] # "0"}), Len(port))

\* The Via field (hval.cpp, hval.h): of the URI only the host and the number of the port are
\* printed.  The URI is scanned before the comma is looked for and so takes it in.
print_via(v) ==
    print_version(v.ver) \o <<" ">> \o v.url.host
    \o (IF v.url.host = <<>> \/ v.url.port = <<>> THEN <<>> ELSE <<":">> \o numeric_port(v.url.port))
    \o (IF v.comments = <<>> THEN <<>> ELSE <<" ">> \o v.comments)
print_vias(vs) ==
    FlattenSeq([i \in 1..Len(vs) |-> (IF i = 1 THEN <<>> ELSE <<",", " ">>) \o print_via(vs[i])])

read_by(sc) == read_uri(read_space(read_version(read_opt_space(sc))))
read_via(sc) == read_special(read_opt_space(read_comments(read_opt_space(read_by(sc)))), ",")

RECURSIVE parse_via(_, _)
next_via(sc, viavec) ==
    IF sc.found THEN parse_via(read_opt_space([sc EXCEPT !.vals = <<>>]), viavec)
    ELSE [err |-> "none", vias |-> viavec]
more_vias(sc, ver, given, url, viavec) ==
    IF ver.err # "none" THEN Bad("bad_message")
    ELSE IF given.err # "none" \/ url.err # "none" THEN Bad("bad_uri")
    ELSE IF sc.err # "none" THEN Bad(sc.err)
    ELSE next_via(sc, Append(viavec, [ver |-> ver, url |-> url, comments |-> sc.vals[3]]))
via_parts(sc, viavec) ==
    IF Len(sc.vals) < 2 THEN Bad("bad_message")
    ELSE more_vias(sc, version(sc.vals[1]), U!parse(sc.vals[2]), U!parse(<<"a", ":", "/", "/">> \o sc.vals[2]), viavec)
parse_via(sc, viavec) == via_parts(read_via(sc), viavec)

-----------------------------------------------------------------------------
Init == sent = None /\ line = <<>> /\ got = None

Built(v) == [err |-> "none", protocol |-> http_protocol, major |-> v[1], minor |-> v[2]]

\* A client builds a request, and the server reads it.
Request ==
    /\ line = <<>> /\ sent = None
    /\ \E m \in method_names, t \in UriTexts, v \in Versions, h \in HostFields :
          /\ sent' = [err |-> "none", method |-> m, uri |-> U!parse(t), version |-> Built(v)]
          /\ sent'.uri.err = "none" /\ validate(h, sent'.uri)
          /\ got' = validated(h, request_line(print_request(sent')))
    /\ UNCHANGED line

\* The server builds a response, and the client reads it.
Response ==
    /\ line = <<>> /\ sent = None
    /\ \E st \in DOMAIN reason_phrase, v \in Versions, reason \in Reasons :
          sent' = with_phrase([err |-> "none", status |-> st, reason |-> reason, version |-> Built(v)])
    /\ got' = response_line(print_response(sent'))
    /\ UNCHANGED line

\* Another peer sends a line of its own.
Receive ==
    /\ sent = None /\ Len(line) < MaxPieces
    /\ \E p \in Pieces : line' = Append(line, p)
    /\ \E s \in {FlattenSeq(line') \o <<"CR", "LF">>} :
          got' = [request |-> request_line(s), response |-> response_line(s),
                  via |-> parse_via(Scan(FlattenSeq(line')), <<>>)]
    /\ UNCHANGED sent

Next == Request \/ Response \/ Receive
Spec == Init /\ [][Next]_vars

-----------------------------------------------------------------------------
Printed(u) == <<u.path.component, u.query, u.fragment>>
SameRequest(a, b) == /\ a.err = "none" /\ a.method = b.method /\ a.version = b.version
                     /\ Printed(a.uri) = Printed(b.uri)
SameResponse(a, b) == a.err = "none" /\ a.status = b.status /\ a.reason = trim(b.reason) /\ a.version = b.version

SameVia(a, b) == /\ a.ver = b.ver /\ a.comments = b.comments
                 /\ a.url.host = b.url.host /\ U!Number(a.url.port) = U!Number(b.url.port)
SameVias(a, b) == /\ a.err = "none" /\ Len(a.vias) = Len(b.vias)
                  /\ \A i \in 1..Len(a.vias) : SameVia(a.vias[i], b.vias[i])

\* The messages whose first line does not read back: a request for a URI without a path
\* leaves two spaces in a row, and its version is taken for the URI; characters outside
\* ASCII print wrong, or end the reason.
Readable(r) ==
    IF "method" \in DOMAIN r
    THEN r.uri.path.component # <<>> /\ "high" \notin Range(FlattenSeq(Printed(r.uri)))
    ELSE trim(r.reason) # <<>> /\ "high" \notin Range(r.reason)

\* And of Via fields: a member without a comment takes in the next one, a host that was
\* percent-encoded is printed decoded, one character at the end is lost.
ReadableVias(vs) ==
    /\ \A i \in 1..Len(vs) - 1 : vs[i].comments # <<>>
    /\ \A i \in 1..Len(vs) :
          /\ U!valid_host(vs[i].url.host) /\ "%" \notin Range(vs[i].url.host)
          /\ i = Len(vs) => vs[i].comments # <<>> \/ Len(vs[i].url.host \o vs[i].url.port) > 1

\* The other side reads the message that was built, Host field and URI still in agreement,
\* if it has version 1.1; and a line or a Via field accepted from any peer, whatever its
\* spaces and the text after its version, is accepted with the same parts when it is
\* passed on (request.cpp:149, response.cpp:120, hval.cpp:150, request.h:92).
LinesReadBack ==
    /\ sent # None /\ sent.version.major = "1" /\ sent.version.minor = "1" /\ Readable(sent) =>
          IF "method" \in DOMAIN sent THEN SameRequest(got, sent) ELSE SameResponse(got, sent)
    /\ line # <<>> =>
          /\ got.request.err = "none" /\ Readable(got.request) =>
                SameRequest(request_line(print_request(got.request)), got.request)
          /\ got.response.err = "none" /\ Readable(got.response) =>
                SameResponse(response_line(print_response(got.response)), got.response)
          /\ got.via.err = "none" /\ ReadableVias(got.via.vias) =>
                SameVias(parse_via(Scan(print_vias(got.via.vias)), <<>>), got.via)

=============================================================================
