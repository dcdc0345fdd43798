-------------------------------- MODULE Wire --------------------------------
(***************************************************************************)
(* An HTTP message body on its way: transmitter::send_body() writes it     *)
(* (http/src/common/transmit.cpp), the connection carries it, and a body   *)
(* source reads it on the other side with has_next() and next()            *)
(* (http/src/common/body.cpp) through nio (libnet/src/nio.cpp).  The       *)
(* headers announce how: chunked, or the length that message::validate()   *)
(* took from the body.  The sender is this library, or another             *)
(* implementation of RFC 7230 (marked peer), and other messages may follow *)
(* the first.  Writes fail, connections are cut, reads from a socket time  *)
(* out, and reads from a TLS connection wait.  The stream is a sequence of *)
(* characters, because chunk headers and data share it.                    *)
(***************************************************************************)
EXTENDS Integers, SequencesExt

CONSTANTS
    Chars,        \* the characters of bodies
    Hex,          \* the value of each character that is a hexadecimal digit
    MaxPieces,    \* bound: pieces next() returns, or chunks
    MaxPiece,     \* bound: characters of a piece
    MaxBody,      \* bound: characters of a body
    CHUNKSIZE,    \* the most next() of a socket source reads at once
    INT_MAX       \* the largest int; a size_t is wider

CR == "\r"
LF == "\n"
Zero == "0"
Ext == ";e=v"      \* a chunk extension, as one character
Lines == "lines"   \* the message line, the headers and the empty line, as one character

VARIABLES
    src,          \* the body sent: who sends it, chunked(), length(), its pieces
    sent,         \* pieces next() has returned to send_body()
    spc,          \* the sender: "headers", in send_body() "send", "ok", "failed", or
                  \* "followed" by another message
    wire,         \* characters on the connection that were not read
    closed,       \* no more characters will come
    m_size,       \* the reader's data or current chunk size
    m_read,       \* the reader's data read
    got,          \* the characters next() has returned to the reader
    kind,         \* what the reader reads from: "socket", "tls", a "buffered" one, "stream"
    rpc           \* the reader: "header", "has_next", "next", "done", "error"

vars == <<src, sent, spc, wire, closed, m_size, m_read, got, kind, rpc>>
sender == <<src, sent, spc>>
reader == <<m_size, m_read, got, kind, rpc>>

-----------------------------------------------------------------------------
Data(pieces) == FlattenSeq(pieces)
Pieces == {p \in UNION {[1..n -> UNION {[1..k -> Chars] : k \in 1..MaxPiece}] : n \in 0..MaxPieces} :
             Len(Data(p)) <= MaxBody}

Body(who, chunked, ext, pieces, length) ==
    [who |-> who, chunked |-> chunked, ext |-> ext, pieces |-> pieces, length |-> length]

\* static_cast<int> of a size_t.
static_cast_int(n) == ((n + INT_MAX + 1) % (2 * INT_MAX + 2)) - (INT_MAX + 1)

\* Pieces above INT_MAX, up to one more than wraps around to 0 (bound: of one character).
Long == {<<[i \in 1..n |-> CHOOSE c \in Chars : TRUE]>> : n \in (INT_MAX + 1)..(2 * INT_MAX + 3)}

\* A string or a buffer: one piece, and its length().
from_string ==
    {Body("snf", FALSE, <<>>, p, Len(Data(p))) : p \in Long \cup {q \in Pieces : Len(q) <= 1}}

\* A file: pieces (bound: no character twice in a row), and the size it had when it was opened;
\* it may grow or shrink (bound: by a character) before it is read.  When it shrinks, next()
\* returns nothing, which send_data() refuses.
from_file == UNION {{Body("snf", FALSE, <<>>, p, n) :
                        n \in (Len(Data(p)) - 1)..(Len(Data(p)) + 1) \ {-1, 0}} :
                     p \in {q \in Pieces : \A i \in 2..Len(Data(q)) : Data(q)[i] # Data(q)[i - 1]}}

\* Bodies in chunks, with extensions perhaps (bound: when there is one chunk).
Chunked(who) == UNION {{Body(who, TRUE, e, p, 0) :
                            e \in IF Len(p) = 1 THEN {<<>>, <<Ext>>} ELSE {<<>>}} : p \in Pieces}

\* A functor: each call makes a chunk.
from_functor == Chunked("snf")

\* A socket or stream source that is passed on: its length() does not override that of
\* the class body, which returns 0 (bound: of one piece).
forwarded == {Body("snf", FALSE, <<>>, p, 0) : p \in {q \in Pieces : Len(q) <= 1}}

\* Bodies in chunks from another implementation; those with a length are as from_file.
from_peer == Chunked("peer")

\* What validate_length_chunkiness() makes the headers say.
announced(b) == IF b.chunked THEN [chunked |-> TRUE, length |-> 0]
                ELSE [chunked |-> FALSE, length |-> b.length]

Bodies == from_string \cup from_file \cup from_functor \cup forwarded \cup from_peer

Init ==
    /\ src \in Bodies
    /\ sent = 0 /\ spc = "headers" /\ wire = <<>> /\ closed = FALSE
    /\ m_size = 0 /\ m_read = 0 /\ got = <<>> /\ rpc = "header"
    /\ kind \in {"socket", "tls", "buffered", "stream"}
    /\ kind = "buffered" => src.pieces = <<>>     \* bound: a buffered reader fails before the body
    /\ kind = "tls" => Len(src.pieces) <= 1       \* bound

-----------------------------------------------------------------------------
\* The size of a chunk in hexadecimal, one digit being enough here.
HexOf(n) == CHOOSE c \in DOMAIN Hex : Hex[c] = n

\* What send_body() writes for a piece: a chunk is its size, its data and CRLF, but nothing
\* ends the size.  RFC 7230 ends the size with CRLF.
chunk(who, ext, piece) ==
    <<HexOf(Len(piece))>> \o ext \o (IF who = "peer" THEN <<CR, LF>> ELSE <<>>) \o piece \o <<CR, LF>>

\* What send_data() tries to write: the data up to its length as an int.  (A chunk is never
\* above CHUNKSIZE.)
to_write(data) == SubSeq(data, 1, static_cast_int(Len(data)))

Encoded(b, i) == IF b.chunked THEN chunk(b.who, b.ext, b.pieces[i]) ELSE to_write(b.pieces[i])

LastChunk == <<Zero, CR, LF, CR, LF>>

\* The lines of messages without a body.
Following == <<Lines, Lines>>

\* send_data(): everything is written, or an exception or E_write_failed ends send_body()
\* with a part of it written.  writen() refuses to write nothing.
Write(what, done) ==
    \/ what # <<>> /\ wire' = wire \o what /\ spc' = done
    \/ /\ \E k \in {0} \cup 0..(Len(what) - 1) : wire' = wire \o SubSeq(what, 1, k)
       /\ spc' = "failed"

\* send_request() and send_response() up to send_body().
SendHeaders ==
    /\ spc = "headers" /\ ~closed
    /\ Write(<<Lines>>, "send")
    /\ UNCHANGED <<src, sent, closed, reader>>

\* One turn of the loop of send_body().
SendPiece ==
    /\ spc = "send" /\ ~closed
    /\ sent < Len(src.pieces)
    /\ Write(Encoded(src, sent + 1), "send")
    /\ sent' = sent + 1
    /\ UNCHANGED <<src, closed, reader>>

\* Mutant: the bytes sent are not compared with length().
AllSentAlways(b) == TRUE

\* After the loop: the last chunk, or the check that length() was sent.
all_sent(b) == Len(Data(b.pieces)) = b.length

SendEnd ==
    /\ spc = "send" /\ ~closed
    /\ sent = Len(src.pieces)
    /\ IF src.chunked THEN Write(LastChunk, "ok")
       ELSE spc' = (IF all_sent(src) THEN "ok" ELSE "failed") /\ UNCHANGED wire
    /\ UNCHANGED <<src, sent, closed, reader>>

\* The connection, or the stream, goes on with other messages.
SendFollowing ==
    /\ spc = "ok" /\ ~closed
    /\ wire' = wire \o Following /\ spc' = "followed"
    /\ UNCHANGED <<src, sent, closed, reader>>

\* The connection is closed or cut; what is on it can still be read.
Cut == ~closed /\ closed' = TRUE /\ UNCHANGED <<sender, wire, reader>>

-----------------------------------------------------------------------------
\* Reading: k characters when they are there or the connection is closed (then what is
\* left), and an error when they do not come in time.
Taken(k) == SubSeq(wire, 1, IF Len(wire) < k THEN Len(wire) ELSE k)
Rest(k) == SubSeq(wire, k + 1, Len(wire))
Fail == rpc' = "error" /\ UNCHANGED <<wire, m_size, m_read, got>>

\* Mutant: the time-out has no effect on a socket either.
WaitsAnyway(arrived) == ~arrived /\ ~closed

\* connection::readn() leaves the socket blocking, so that its time-out has no effect: it
\* returns when everything has arrived or the connection is closed.
waits(arrived) == kind = "tls" /\ ~arrived /\ ~closed

\* What follows the first k characters is or will be told from the CRLF that is expected.
CrLfArrived(k) == Len(Rest(k)) >= 2 \/ (Rest(k) # <<>> /\ Rest(k) # <<CR>>)

\* nio::read_buffered() never fills an empty buffer: it fails with E_invalid_state.
buffered_fails == kind = "buffered"

\* The lines of a message do not come or are refused, or have arrived: a body source is made
\* when the headers announce a body.
Receive ==
    /\ rpc = "header"
    /\ ~waits(wire # <<>>)
    /\ \/ rpc' = "error" /\ UNCHANGED <<wire, m_size>>
       \/ /\ ~buffered_fails
          /\ wire # <<>> /\ wire' = Tail(wire)
          /\ m_size' = announced(src).length
          /\ rpc' = IF announced(src).chunked \/ announced(src).length # 0 THEN "has_next" ELSE "done"
    /\ UNCHANGED <<sender, closed, m_read, got, kind>>

\* request_builder and response_builder, from a connection and from a stream.
RecvRequest == kind # "stream" /\ Receive
RecvResponse == kind # "stream" /\ Receive
RecvRequestStream == kind = "stream" /\ Receive
RecvResponseStream == kind = "stream" /\ Receive

\* The characters of a chunk-size line before its LF, read by the scanner: digits, an
\* extension perhaps, then nothing or CR.  -1 when there is no size or something follows.
ChunkSize(line) ==
    LET end == {i \in 1..Len(line) : line[i] \notin DOMAIN Hex}
        n == IF end = {} THEN Len(line) ELSE (CHOOSE i \in end : \A j \in end : i <= j) - 1
        e == IF n < Len(line) /\ line[n + 1] = Ext THEN n + 1 ELSE n
    IN IF n = 0 \/ (e < Len(line) /\ line[e + 1] # CR) THEN -1
       ELSE FoldLeft(LAMBDA v, c : v * 16 + Hex[c], 0, SubSeq(line, 1, n))

LFs == {i \in 1..Len(wire) : wire[i] = LF}
LineEnd == CHOOSE i \in LFs : \A j \in LFs : i <= j

\* Mutant: off by one.
MoreButOne == m_read + 1 < m_size

\* has_next() without looking at the connection.
more == m_read < m_size

\* has_next(): more of the data or of the chunk, or the line with the size of the next
\* chunk; after the last one, CRLF.  m_read goes on counting from chunk to chunk.
HasNext ==
    /\ rpc = "has_next"
    /\ ~more /\ src.chunked =>
          ~waits(LFs # {} /\ (ChunkSize(SubSeq(wire, 1, LineEnd - 1)) = 0 => CrLfArrived(LineEnd)))
    /\ IF more
       THEN rpc' = "next" /\ UNCHANGED <<wire, m_size, m_read, got>>
       ELSE IF ~src.chunked
       THEN rpc' = "done" /\ UNCHANGED <<wire, m_size, m_read, got>>
       ELSE IF LFs = {}
       THEN Fail
       ELSE \E size \in {ChunkSize(SubSeq(wire, 1, LineEnd - 1))} :
              IF size = -1 THEN Fail
              ELSE IF size = 0
              THEN IF IsPrefix(<<CR, LF>>, Rest(LineEnd))
                   THEN /\ wire' = Rest(LineEnd + 2)
                        /\ m_size' = 0 /\ rpc' = "done" /\ UNCHANGED <<m_read, got>>
                   ELSE Fail
              ELSE /\ wire' = Rest(LineEnd)
                   /\ m_size' = size /\ rpc' = IF m_read < size THEN "next" ELSE "done"
                   /\ UNCHANGED <<m_read, got>>
    /\ UNCHANGED <<sender, closed, kind>>

\* How much next() asks for: nothing, when what is left is no positive int.
to_read == LET left == static_cast_int(m_size - m_read)
           IN IF left > CHUNKSIZE THEN CHUNKSIZE ELSE IF left < 0 THEN 0 ELSE left

\* read() of a stream fails at the end of the stream.
stream_read_fails(k) == Len(wire) < k + 1

\* Mutant: a read that times out returns what there is.
ReadsAnyway(k) == k = 0

\* readn() of a socket fails when it is asked for nothing, or out of time.
readn_fails(k) == k = 0 \/ (Len(wire) < k /\ ~closed)

read_fails(k) == IF kind = "stream" THEN stream_read_fails(k) ELSE readn_fails(k)

\* A connection that was cut without the close of TLS makes readn() fail when it meets its end.
CutFails(k) == kind = "tls" /\ closed /\ Len(wire) < k /\ Fail

\* next(): at most CHUNKSIZE characters; a read that meets the end of the connection
\* returns less, or nothing.  The stream source's read() takes one character more than it
\* keeps, and fails when there is none.  After the last character of a chunk comes CRLF.
NextPiece ==
    /\ rpc = "next"
    /\ \E k \in {to_read} :
       LET over == IF kind = "stream" THEN 1 ELSE 0
           data == Taken(k)
           ends == src.chunked /\ m_read + Len(data) >= m_size
       IN /\ ~waits(k = 0 \/ (Len(wire) >= k /\ (ends => CrLfArrived(k))))
          /\ \/ CutFails(k)
             \/ IF read_fails(k) THEN Fail
                ELSE IF ends /\ ~IsPrefix(<<CR, LF>>, Rest(k + over)) THEN Fail
                ELSE /\ wire' = Rest(Len(data) + over + (IF ends THEN 2 ELSE 0))
                     /\ got' = got \o data /\ m_read' = m_read + Len(data)
                     /\ rpc' = "has_next" /\ UNCHANGED m_size
    /\ UNCHANGED <<sender, closed, kind>>

\* body_source_socket, and body_source_istream, which is the same but for its reads.
SocketHasNext == kind # "stream" /\ HasNext
StreamHasNext == kind = "stream" /\ HasNext
SocketNext == kind # "stream" /\ NextPiece
StreamNext == kind = "stream" /\ NextPiece

\* A reader of a socket that waits is one whose next step is not taken yet; Fail is its time-out.
Next == SendHeaders \/ SendPiece \/ SendEnd \/ SendFollowing \/ Cut
        \/ RecvRequest \/ RecvResponse \/ RecvRequestStream \/ RecvResponseStream
        \/ SocketHasNext \/ StreamHasNext \/ SocketNext \/ StreamNext

\* The reader is a thread that goes on while its calls return: those on a socket do, by their
\* time-out, and those on a TLS connection once what they ask for has arrived.
Read == RecvRequest \/ RecvRequestStream \/ HasNext \/ NextPiece

Spec == Init /\ [][Next]_vars /\ WF_vars(Read)

-----------------------------------------------------------------------------
\* The reader has got a prefix of the data, and no more than was announced, at every
\* moment, when the body has a length or is a single chunk from another implementation.
\* (body_source_socket::next, body.cpp:429.)  The stream source drops a character after
\* each read (scanner.cpp:387), and so between the pieces of a body above CHUNKSIZE.
ReadsPrefix ==
    (kind # "stream" /\ (~src.chunked \/ (src.who = "peer" /\ Len(src.pieces) <= 1))) =>
        /\ IsPrefix(got, Data(src.pieces))
        /\ src.chunked \/ Len(got) <= src.length

\* A reader that finds the end of the body has all of it: a body that was cut short, whose
\* sender failed, or that differs from the length announced is never taken for complete
\* unless its announced length was smaller than its data.  A reader of a connection leaves
\* the message that follows untouched.  The stream source takes a character too much with
\* each read, and so completes only a body of up to CHUNKSIZE.
DoneMeansAll ==
    (rpc = "done" /\ (~src.chunked \/ Len(src.pieces) <= 1)
        /\ (src.chunked \/ src.length >= Len(Data(src.pieces)))
        /\ (kind = "stream" => Len(Data(src.pieces)) <= CHUNKSIZE)) =>
        /\ got = Data(src.pieces)
        /\ kind # "stream" => IsPrefix(wire, Following)

\* send_body() reports success only when the whole body is on the wire, with the length
\* that the headers announce (transmit.cpp:96-108), if no piece is above INT_MAX: of a string
\* or a buffer that is, send_data() may write a part only.
SentAsAnnounced ==
    (spc = "ok" /\ ~src.chunked /\ \A i \in DOMAIN src.pieces : Len(src.pieces[i]) <= INT_MAX) =>
        /\ src.length = Len(Data(src.pieces))
        /\ rpc = "header" => wire = <<Lines>> \o Data(src.pieces)

ReadsWhatWasSent == ReadsPrefix /\ DoneMeansAll /\ SentAsAnnounced

\* The whole of a message that RFC 7230 allows, with the length that it announces, was sent.
AllSent ==
    /\ spc \in {"ok", "followed"}
    /\ IF src.chunked THEN src.who = "peer" ELSE src.length = Len(Data(src.pieces))

\* The reading loop of body.h:41 ends, in success or in an exception, unless the connection
\* is cut (with nothing left to read, next() returns nothing and has_next() TRUE) or, being a
\* TLS connection, falls silent before the end of the message.
ReadingEnds == (kind # "tls" \/ AllSent) ~> (rpc \in {"done", "error"} \/ closed)

\* m_read is the data read of the current chunk (body.cpp:349), so that a body that is
\* read to its end was read in full, in however many chunks it came.
ChunksReadInFull ==
    (rpc = "done" /\ src.chunked /\ src.who = "peer") => got = Data(src.pieces)

=============================================================================
