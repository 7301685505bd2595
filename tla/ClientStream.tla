----------------------------- MODULE ClientStream -----------------------------
(***************************************************************************)
(* One connection of a client, as the bytes that go over it:               *)
(* read_client_header and Request::new of src/flexo/src/mirror_flexo.rs,   *)
(* serve_client, serve_request and handle_client_error of main.rs, and the *)
(* reply headers of http_headers.rs.                                       *)
(*                                                                         *)
(* A request header arrives in pieces, a read takes any number of them and *)
(* the next header begins wherever the client has begun it.  Responses are *)
(* a head and the bytes of a body; the client knows where a body ends from *)
(* Content-Length alone.  The arithmetic on lengths is that of a u64 in a  *)
(* release build: it wraps.                                                *)
(*                                                                         *)
(* What try_schedule and the jobs do is the matter of Scheduler and        *)
(* Download; here their outcome is any that the request may have.          *)
(*                                                                         *)
(* An operator Mutant_X is a plausible mistake in the operator below it;   *)
(* nothing uses it, README.md says which property it breaks.               *)
(***************************************************************************)
EXTENDS Integers, Sequences, SequencesExt

CONSTANTS
    MaxHeader,     \* MAX_HEADER_SIZE, in pieces of a header
    MaxSize,       \* bound: the size of a file, in bytes
    Width,         \* the integers are taken modulo this number
    MaxRequests,   \* bound: the requests on the connection
    Kinds,         \* the kinds of requests the client makes
    Pipelines      \* whether the client may send before it has the last answer

AllKinds == {"order", "metrics", "empty", "forbidden", "invalid", "bad"}

ASSUME WidthAssumption == MaxSize \in Nat \ {0} /\ Width \in Nat /\ Width > 2 * MaxSize

ASSUME BoundsAssumption ==
    /\ MaxHeader \in Nat \ {0} /\ MaxRequests \in Nat \ {0}
    /\ Kinds \subseteq AllKinds /\ Pipelines \in BOOLEAN

NoRange == -1

VARIABLES
    requests,     \* what the client has requested so far
    to_server,    \* the pieces of headers that are under way
    buf,          \* those that read_client_header has read for one header
    pc,           \* where the thread of the connection is
    current,      \* the request that is served
    growing,      \* of a growing file: client_received and complete_filesize
    to_client,    \* the heads and bytes of responses that are under way
    pending,      \* the response that the client is receiving
    answers,      \* the responses that the client has received
    open,         \* the client has not closed the connection
    pipelined,    \* history: a request was sent while another was not answered
    replaced      \* history: a file was not the one that try_schedule had seen

serverVars == <<buf, pc, current, growing>>
clientVars == <<requests, pending, answers, open, pipelined>>
vars       == <<serverVars, clientVars, to_server, to_client, replaced>>

\* "bad" is what httparse or Request::new rejects: the syntax, the range or the
\* method.  "empty" is /status or POST /reset-metrics, "forbidden" and "invalid"
\* are paths that are not permitted or not valid.  Only orders look at the range.
Requests ==
    {r \in [kind : Kinds, from : {NoRange} \cup 0..MaxSize, pieces : 1..(MaxHeader + 1)] :
        r.kind # "order" => r.from = NoRange}

Offset(r) == IF r.from = NoRange THEN 0 ELSE r.from

-----------------------------------------------------------------------------
(* Responses. *)

\* size: history, the complete size of the file.
Reply(id, status, length, range, size) ==
    [type |-> "head", id |-> id, status |-> status, length |-> length, range |-> range,
     size |-> size]

\* The bytes from..(end - 1) of the body of id.
Bytes(id, from, end) ==
    [n \in 1..(end - from) |-> [type |-> "byte", id |-> id, at |-> from + n - 1]]

Wrap(n) == n % Width

\* reply_header_success, or reply_header_partial with its Content-Range.
PayloadHead(id, length, size) ==
    LET r     == requests[id].from
        total == Wrap(length + r)
    IN  IF r = NoRange
        THEN Reply(id, 200, length, <<>>, size)
        ELSE Reply(id, 206, length, <<r, Wrap(total - 1), total>>, size)

Mutant_NotSaturating(size, from) == size - from
\* saturating_sub
RemainingContentLength(size, from) == IF size > from THEN size - from ELSE 0

Mutant_WholeLength(filesize, r) == filesize
\* content_length of serve_from_complete_file
LengthOfRest(filesize, r) == Wrap(filesize - Offset(r))

Mutant_FromStart(r) == 0
\* bytes_sent of serve_from_complete_file
BytesSent(r) == Offset(r)

-----------------------------------------------------------------------------
Init ==
    /\ requests = <<>> /\ to_server = <<>> /\ to_client = <<>>
    /\ pc = "reading" /\ buf = <<>> /\ current = 0 /\ growing = <<0, 0>>
    /\ pending = <<>> /\ answers = <<>> /\ open = TRUE
    /\ pipelined = FALSE /\ replaced = FALSE

(* The client. *)

Outstanding == Len(requests) > Len(answers)

SendRequest(r) ==
    /\ open /\ Len(requests) < MaxRequests
    /\ Outstanding => Pipelines
    /\ requests' = Append(requests, r)
    /\ to_server' = to_server \o [n \in 1..r.pieces |-> <<Len(requests) + 1, n>>]
    /\ pipelined' = (pipelined \/ Outstanding)
    /\ UNCHANGED <<serverVars, to_client, pending, answers, open, replaced>>

\* The client expects a head, or the bytes that the last head has promised.
Received == Append(pending, to_client[1])

Receive ==
    /\ open /\ to_client # <<>>
    /\ to_client' = Tail(to_client)
    /\ \/ /\ Received[1].type = "byte"
          /\ open' = FALSE
          /\ UNCHANGED <<pending, answers>>
       \/ /\ Received[1].type = "head"
          /\ IF Len(Received) - 1 = Received[1].length
             THEN pending' = <<>> /\ answers' = Append(answers, Received)
             ELSE pending' = Received /\ UNCHANGED answers
          /\ UNCHANGED open
    /\ UNCHANGED <<requests, pipelined, serverVars, to_server, replaced>>

\* The client has no more requests, or the server has closed the connection.
Close ==
    /\ open
    /\ open' = FALSE
    /\ UNCHANGED <<requests, pending, answers, pipelined, serverVars, to_server, to_client, replaced>>

Disconnect == ~Outstanding /\ Close
EndOfStream == pc = "closed" /\ to_client = <<>> /\ Close

-----------------------------------------------------------------------------
(* read_client_header. *)

\* A header is in the buffer from its first piece on; if the first one is lost,
\* what follows is no request line.  (If only its empty line follows, httparse
\* skips it, which is as if it had been lost as well.)
Complete(b)  == Len(b) >= requests[b[1][1]].pieces
Malformed(b) == b[1][2] # 1 \/ (Complete(b) /\ requests[b[1][1]].kind = "bad")

Mutant_KeepBuffer(b) == b
\* What follows the first header in the buffer is gone.
AfterHeader(b) == <<>>

Goes(here, there) == pc = here /\ pc' = there

ReadHeader ==
    /\ to_server # <<>> /\ Len(buf) < MaxHeader
    /\ \E n \in 1..Len(to_server) :
          LET b == buf \o SubSeq(to_server, 1, n)
          IN  /\ Len(b) <= MaxHeader + 1
              /\ to_server' = SubSeq(to_server, n + 1, Len(to_server))
              /\ \/ /\ n <= MaxHeader /\ ~Malformed(b) /\ Complete(b)
                    /\ Goes("reading", "serving")
                    /\ current' = b[1][1] /\ buf' = AfterHeader(b)
                    /\ UNCHANGED to_client
                 \/ /\ n <= MaxHeader /\ ~Malformed(b) /\ ~Complete(b)
                    /\ Goes("reading", "reading")
                    /\ buf' = b
                    /\ UNCHANGED <<current, to_client>>
                 \* handle_client_error answers, and serve_client returns.
                 \/ /\ n <= MaxHeader /\ Malformed(b)
                    /\ Goes("reading", "closed")
                    /\ to_client' = Append(to_client, Reply(b[1][1], 400, 0, <<>>, 0))
                    /\ UNCHANGED <<current, buf>>
                 \* BufferSizeExceeded
                 \/ /\ n > MaxHeader
                    /\ Goes("reading", "closed")
                    /\ UNCHANGED <<current, buf, to_client>>
    /\ UNCHANGED <<growing, clientVars, replaced>>

BufferSizeExceeded ==
    /\ Len(buf) >= MaxHeader
    /\ Goes("reading", "closed")
    /\ UNCHANGED <<buf, current, growing, clientVars, to_server, to_client, replaced>>

SocketClosed ==
    /\ ~open /\ to_server = <<>>
    /\ Goes("reading", "closed")
    /\ UNCHANGED <<buf, current, growing, clientVars, to_server, to_client, replaced>>

-----------------------------------------------------------------------------
(* serve_request. *)

Serving(kind) == pc = "serving" /\ requests[current].kind = kind

StatusOf(kind) ==
    CASE kind = "forbidden" -> {403}
      [] kind = "invalid"   -> {400}
      [] kind = "empty"     -> {200}
      [] kind = "order"     -> {404, 400, 500}

\* The response is written and the next header is read.
Respond(response) ==
    /\ Goes("serving", "reading")
    /\ to_client' = to_client \o response
    /\ UNCHANGED <<buf, current, growing, clientVars, to_server>>

RespondWithoutBody ==
    /\ \E kind \in {"forbidden", "invalid", "empty", "order"} : \E status \in StatusOf(kind) :
          Serving(kind) /\ Respond(<<Reply(current, status, 0, <<>>, 0)>>)
    /\ UNCHANGED replaced

\* serve_200_ok_body writes the body, and then it is written again.
ServeMetrics ==
    /\ Serving("metrics")
    /\ Respond(<<Reply(current, 200, 1, <<>>, 1)>> \o Bytes(current, 0, 1) \o Bytes(current, 0, 1))
    /\ UNCHANGED replaced

\* Uncacheable: nothing is cached, or less than the client has.
Redirect ==
    /\ Serving("order") /\ requests[current].from > 0
    /\ Respond(<<Reply(current, 301, 0, <<>>, 0)>>)
    /\ UNCHANGED replaced

\* Cached: try_schedule has seen a complete file that is long enough.  The file
\* that is opened is that one or, if it was purged since, the one of the next
\* download, of which less may be there.
ServeFromCompleteFile ==
    /\ Serving("order")
    /\ \E size \in 0..MaxSize : \E filesize \in 0..size :
          /\ Offset(requests[current]) <= size
          /\ replaced' = (replaced \/ filesize # size)
          /\ Respond(<<PayloadHead(current, LengthOfRest(filesize, requests[current]), size)>>
                     \o Bytes(current, BytesSent(requests[current]), filesize))

\* Scheduled or AlreadyInProgress: the complete size is known and the header is
\* written.  Of an order in progress the client may have more than there is.
BeginGrowingFile ==
    /\ Serving("order") /\ Goes("serving", "growing")
    /\ \E size \in 0..MaxSize :
          LET from   == Offset(requests[current])
              length == RemainingContentLength(size, from)
          IN  /\ to_client' = Append(to_client, PayloadHead(current, length, size))
              /\ growing' = <<from, length + from>>
    /\ UNCHANGED <<buf, current, clientVars, to_server, replaced>>

\* The file has grown by some bytes, all of which are sent.  A file that a late flush
\* has made too long (Download_flush_race) is sent beyond complete_filesize as well.
SendFromGrowingFile ==
    /\ pc = "growing" /\ growing[1] < growing[2]
    /\ \E filesize \in (growing[1] + 1)..MaxSize :
          /\ to_client' = to_client \o Bytes(current, growing[1], filesize)
          /\ growing' = [growing EXCEPT ![1] = filesize]
    /\ UNCHANGED <<buf, pc, current, clientVars, to_server, replaced>>

EndGrowingFile ==
    /\ growing[1] >= growing[2]
    /\ Goes("growing", "reading")
    /\ growing' = <<0, 0>>
    /\ UNCHANGED <<buf, current, clientVars, to_server, to_client, replaced>>

\* The file has stopped growing, or there is no file or no size: an error, which
\* handle_client_error answers with a shutdown.
Fail ==
    /\ \/ Serving("order") /\ Goes("serving", "closed")
       \/ growing[1] < growing[2] /\ Goes("growing", "closed")
    /\ growing' = <<0, 0>>
    /\ UNCHANGED <<buf, current, clientVars, to_server, to_client, replaced>>

Server ==
    \/ ReadHeader \/ BufferSizeExceeded \/ SocketClosed
    \/ RespondWithoutBody \/ ServeMetrics \/ Redirect \/ ServeFromCompleteFile
    \/ BeginGrowingFile \/ SendFromGrowingFile \/ EndGrowingFile \/ Fail

Next == Server \/ Receive \/ Disconnect \/ EndOfStream \/ \E r \in Requests : SendRequest(r)

\* The thread of the connection runs on, and the client reads what it is sent.
Fairness == WF_vars(Server) /\ WF_vars(Receive) /\ WF_vars(EndOfStream)

Spec     == Init /\ [][Next]_vars
FairSpec == Spec /\ Fairness

-----------------------------------------------------------------------------
(* Properties. *)

TypeOK ==
    /\ requests \in Seq(Requests) /\ Len(requests) <= MaxRequests
    /\ \A k \in DOMAIN to_server : to_server[k] \in (1..MaxRequests) \X (1..(MaxHeader + 1))
    /\ Len(buf) <= MaxHeader + 1
    /\ pc \in {"reading", "serving", "growing", "closed"}
    /\ current \in 0..Len(requests)
    /\ growing \in (0..MaxSize) \X (0..MaxSize)
    /\ \A k \in DOMAIN to_client :
          to_client[k].type = "head" => to_client[k].length \in 0..(Width - 1)
    /\ Len(answers) <= MaxRequests
    /\ {open, pipelined, replaced} \subseteq BOOLEAN

IdOf(k) == answers[k][1].id

\* On a persistent connection each response that the client receives is one that
\* was sent, whole, and they come in the order of the requests, whatever pieces the
\* headers came in and whichever way each request was served.  If the client waits
\* for each answer, it is the answer to its request; if not, read_client_header may
\* have thrown away the request with its buffer.  The exception is a client that does
\* not wait and is promised more than there is because a file was purged.  After the
\* second body of /metrics, and after what a file has grown too long, nothing more is
\* received: that is no response, and ConnectionKept is about it.
AnswersInOrder ==
    \A k \in DOMAIN answers : ~(pipelined /\ replaced) =>
        /\ \A i \in DOMAIN answers[k] : answers[k][i].id = IdOf(k)
        /\ k > 1 => IdOf(k - 1) < IdOf(k)
        /\ ~pipelined => IdOf(k) = k

\* Who has the answer to an order has the file: the body is what is left of the
\* complete file from the byte that the client asked for, and Content-Range, where
\* there is a byte left, says so.  The exception is a file that was purged after
\* try_schedule had seen it.
RestOfFile ==
    ~replaced =>
        \A k \in DOMAIN answers :
            LET head == answers[k][1]  id == IdOf(k)  from == Offset(requests[id])
            IN  requests[id].kind = "order" /\ head.status \in {200, 206}
                => /\ Tail(answers[k]) = Bytes(id, from, head.size)
                   /\ from < head.size /\ head.status = 206 => head.range = <<from, head.size - 1, head.size>>

\* No client waits for ever: each request is answered or the connection is closed,
\* since Content-Length never promises more than is sent or the connection ends
\* with the file that does not grow.  A client that does not wait and a purged file
\* are left out.
AnsweredOrClosed == \A k \in 1..MaxRequests :
    Len(requests) = k ~> Len(answers) >= k \/ ~open \/ pipelined \/ replaced

\* A client that has received a response whole finds the next one behind it: nothing
\* that serve_request writes makes a persistent connection useless for the request
\* after it.  The code breaks it, no run checks it: /metrics writes its body twice.
ConnectionKept == open /\ pending = <<>> /\ to_client # <<>> => to_client[1].type = "head"
=============================================================================
