-------------------------- MODULE ClientStreamProofs --------------------------
(***************************************************************************)
(* Theorems about ClientStream, for any number of requests on a            *)
(* connection, headers in any pieces, and files and integers of any size.  *)
(***************************************************************************)
EXTENDS ClientStream, SequenceTheorems, TLAPS

(* The inductive invariants. *)

\* What is under way to the server and what it has read of one header.
Unread == buf \o to_server

\* What is under way to the client and what it has received of one response.
Stream == pending \o to_client

Pieces == (1..MaxRequests) \X (1..(MaxHeader + 1))

Ranges == Seq(0..(Width - 1))

Heads == [type : {"head"}, id : Nat, status : Nat, length : 0..(Width - 1),
          range : Ranges, size : Nat]

Items == Heads \cup [type : {"byte"}, id : Nat, at : Nat]

Typed ==
    /\ requests \in Seq(Requests) /\ Len(requests) <= MaxRequests
    /\ to_server \in Seq(Pieces)
    /\ buf \in Seq(Pieces) /\ Len(buf) <= MaxHeader + 1
    /\ pc \in {"reading", "serving", "growing", "closed"}
    /\ current \in 0..Len(requests)
    /\ pc \in {"serving", "growing"} => current # 0
    /\ growing \in (0..MaxSize) \X (0..MaxSize)
    /\ to_client \in Seq(Items)
    /\ pending \in Seq(Items)
    /\ answers \in Seq(Seq(Items))
    /\ open \in BOOLEAN /\ pipelined \in BOOLEAN /\ replaced \in BOOLEAN

\* The pieces arrive as the client has sent them, those of one header without a
\* gap, and none belongs to a request that has been read.
UnreadInv == pc # "closed" =>
    /\ \A i \in 1..Len(Unread) :
          /\ Unread[i][1] \in (current + 1)..Len(requests)
          /\ Unread[i][2] \in 1..requests[Unread[i][1]].pieces
    /\ \A i, j \in 1..Len(Unread) : i < j =>
          /\ Unread[i][1] <= Unread[j][1]
          /\ Unread[i][1] = Unread[j][1] => Unread[j][2] - Unread[i][2] = j - i
    /\ pc # "reading" => buf = <<>>

-----------------------------------------------------------------------------
(* Arithmetic and sequences. *)

LEMMA Widths == MaxSize \in Nat /\ MaxSize >= 1 /\ Width \in Nat /\ Width > 2 * MaxSize /\ Width >= 3
BY WidthAssumption

LEMMA WrapType == ASSUME NEW n \in Int PROVE Wrap(n) \in 0..(Width - 1)
BY Widths DEF Wrap

LEMMA WrapSmall == ASSUME NEW n \in 0..(Width - 1) PROVE Wrap(n) = n
BY Widths DEF Wrap

LEMMA Joined ==
    ASSUME NEW S, NEW s \in Seq(S), NEW r \in Seq(S)
    PROVE  /\ s \o r \in Seq(S) /\ Len(s \o r) = Len(s) + Len(r)
           /\ Len(s) \in Nat /\ Len(r) \in Nat
           /\ \A i \in 1..Len(s) : (s \o r)[i] = s[i]
           /\ \A i \in 1..Len(r) : (s \o r)[Len(s) + i] = r[i]
           /\ \A i \in 1..(Len(s) + Len(r)) : i > Len(s) => (s \o r)[i] = r[i - Len(s)]
OBVIOUS

LEMMA BytesType ==
    ASSUME NEW id \in Nat, NEW from \in Nat, NEW end \in Nat
    PROVE  /\ Bytes(id, from, end) \in Seq(Items)
           /\ Len(Bytes(id, from, end)) = IF end > from THEN end - from ELSE 0
           /\ \A n \in 1..(end - from) :
                 Bytes(id, from, end)[n] = [type |-> "byte", id |-> id, at |-> from + n - 1]
<1> DEFINE k == IF end > from THEN end - from ELSE 0
           f == [n \in 1..k |-> [type |-> "byte", id |-> id, at |-> from + n - 1]]
<1>1. k \in Nat /\ 1..k = 1..(end - from)
  OBVIOUS
<1>2. Bytes(id, from, end) = f
  BY <1>1, Zenon DEF Bytes
<1>3. \A n \in 1..k : [type |-> "byte", id |-> id, at |-> from + n - 1] \in Items
  BY DEF Items
<1>4. f \in Seq(Items) /\ Len(f) = k
  BY <1>1, <1>3
<1> QED
  BY <1>1, <1>2, <1>4

\* A request that the client has made.
LEMMA RequestType ==
    ASSUME Typed, NEW id \in 1..Len(requests)
    PROVE  /\ requests[id] \in Requests
           /\ requests[id].kind \in AllKinds
           /\ requests[id].from = NoRange \/ requests[id].from \in 0..MaxSize
           /\ requests[id].kind # "order" => requests[id].from = NoRange
           /\ requests[id].pieces \in 1..(MaxHeader + 1)
           /\ Offset(requests[id]) \in 0..MaxSize
           /\ id \in 1..MaxRequests /\ id \in Nat
<1>1. requests[id] \in Requests /\ id \in Nat /\ id <= Len(requests) /\ Len(requests) \in Nat
  BY DEF Typed
<1>2. id \in 1..MaxRequests
  BY <1>1, BoundsAssumption DEF Typed
<1> QED
  BY <1>1, <1>2, BoundsAssumption, Widths DEF Requests, Offset, NoRange

LEMMA Ranged ==
    <<>> \in Ranges /\ \A a, b, c \in 0..(Width - 1) : <<a, b, c>> \in Ranges
BY DEF Ranges

LEMMA ReplyType ==
    ASSUME NEW id \in Nat, NEW status \in Nat, NEW length \in 0..(Width - 1),
           NEW range \in Ranges, NEW size \in Nat
    PROVE  Reply(id, status, length, range, size) \in Heads
BY DEF Reply, Heads

LEMMA ReplyFields ==
    ASSUME NEW id, NEW status, NEW length, NEW range, NEW size
    PROVE  /\ Reply(id, status, length, range, size).type = "head"
           /\ Reply(id, status, length, range, size).id = id
           /\ Reply(id, status, length, range, size).status = status
           /\ Reply(id, status, length, range, size).length = length
           /\ Reply(id, status, length, range, size).range = range
           /\ Reply(id, status, length, range, size).size = size
BY DEF Reply

LEMMA PayloadType ==
    ASSUME Typed, NEW id \in 1..Len(requests), NEW length \in 0..(Width - 1), NEW size \in Nat
    PROVE  /\ PayloadHead(id, length, size) \in Heads
           /\ PayloadHead(id, length, size).id = id
           /\ PayloadHead(id, length, size).length = length
<1> DEFINE r == requests[id].from
           total == Wrap(length + r)
<1>1. r = NoRange \/ r \in 0..MaxSize
  BY RequestType
<1>2. <<>> \in Ranges /\ id \in Nat
  BY RequestType, Ranged
<1>3. CASE r = NoRange
  <2>1. PayloadHead(id, length, size) = Reply(id, 200, length, <<>>, size)
    BY <1>3 DEF PayloadHead
  <2>2. Reply(id, 200, length, <<>>, size) \in Heads
    BY <1>2, ReplyType
  <2> QED
    BY <2>1, <2>2, ReplyFields
<1>4. CASE r \in 0..MaxSize /\ r # NoRange
  <2>a. length + r \in Int /\ r \in 0..(Width - 1)
    BY <1>4, Widths
  <2>b. total \in 0..(Width - 1)
    BY <2>a, WrapType
  <2>c. total - 1 \in Int
    BY <2>b, Widths
  <2>d. Wrap(total - 1) \in 0..(Width - 1)
    BY <2>c, WrapType
  <2>1. total \in 0..(Width - 1) /\ Wrap(total - 1) \in 0..(Width - 1) /\ r \in 0..(Width - 1)
    BY <2>a, <2>b, <2>d
  <2> HIDE DEF total
  <2>2. <<r, Wrap(total - 1), total>> \in Ranges
    BY <2>1, Ranged
  <2>3. PayloadHead(id, length, size) = Reply(id, 206, length, <<r, Wrap(total - 1), total>>, size)
    BY <1>4 DEF PayloadHead, total
  <2>4. Reply(id, 206, length, <<r, Wrap(total - 1), total>>, size) \in Heads
    BY <2>2, <1>2, ReplyType
  <2> QED
    BY <2>3, <2>4, ReplyFields
<1> QED
  BY <1>1, <1>3, <1>4

\* What is written goes behind what is under way.
LEMMA Written ==
    ASSUME Typed, NEW r \in Seq(Items), to_client' = to_client \o r, UNCHANGED pending
    PROVE  /\ to_client' \in Seq(Items) /\ Stream' = Stream \o r
           /\ Stream \in Seq(Items) /\ Stream' \in Seq(Items)
<1>1. pending \in Seq(Items) /\ to_client \in Seq(Items)
  BY DEF Typed
<1>2. pending \o (to_client \o r) = (pending \o to_client) \o r
  BY <1>1
<1>3. to_client \o r \in Seq(Items) /\ pending \o to_client \in Seq(Items)
      /\ (pending \o to_client) \o r \in Seq(Items)
  BY <1>1, Joined
<1> QED
  BY <1>2, <1>3 DEF Stream

LEMMA TypedInit == Init => Typed /\ UnreadInv
<1> SUFFICES ASSUME Init PROVE Typed /\ UnreadInv
  OBVIOUS
<1> USE Widths, BoundsAssumption DEF Init
<1>1. /\ <<>> \in Seq(Requests) /\ <<>> \in Seq(Pieces) /\ <<>> \in Seq(Items)
      /\ <<>> \in Seq(Seq(Items)) /\ Len(<<>>) = 0
  BY EmptySeq
<1>2. <<0, 0>> \in (0..MaxSize) \X (0..MaxSize)
  OBVIOUS
<1>3. Len(<<>>) <= MaxRequests /\ Len(<<>>) <= MaxHeader + 1 /\ 0 \in 0..Len(<<>>)
  BY <1>1
<1>6. Typed
  BY <1>1, <1>2, <1>3 DEF Typed
<1>4. Unread = <<>>
  BY DEF Unread
<1>5. UnreadInv
  BY <1>4 DEF UnreadInv
<1> QED
  BY <1>5, <1>6

\* All actions of the server but ReadHeader read nothing.
LEMMA TypedRespond ==
    ASSUME Typed, pc = "serving",
           NEW r \in Seq(Items), Respond(r), replaced' \in BOOLEAN
    PROVE  Typed'
<1>1. to_client' \in Seq(Items)
  BY Written DEF Respond, clientVars
<1> QED
  BY <1>1 DEF Respond, Goes, clientVars, Typed

LEMMA CurrentType ==
    ASSUME Typed, pc \in {"serving", "growing"}
    PROVE  current \in 1..Len(requests) /\ current \in Nat
BY DEF Typed

LEMMA TypedServe ==
    ASSUME Typed,
           RespondWithoutBody \/ ServeMetrics \/ Redirect \/ ServeFromCompleteFile
    PROVE  Typed'
<1> USE DEF Serving
<1>0. pc = "serving" /\ current \in 1..Len(requests) /\ current \in Nat
  BY CurrentType DEF RespondWithoutBody, ServeMetrics, Redirect, ServeFromCompleteFile
<1>1. <<>> \in Ranges /\ replaced \in BOOLEAN /\ 0 \in 0..(Width - 1)
      /\ 1 \in 0..(Width - 1)
  BY Widths, Ranged DEF Typed
<1>2. ASSUME NEW status \in Nat PROVE <<Reply(current, status, 0, <<>>, 0)>> \in Seq(Items)
  <2>1. Reply(current, status, 0, <<>>, 0) \in Heads
    BY <1>0, <1>1, ReplyType
  <2> QED
    BY <2>1 DEF Items
<1>3. CASE RespondWithoutBody
  <2>1. PICK kind \in {"forbidden", "invalid", "empty", "order"} : \E status \in StatusOf(kind) :
           Respond(<<Reply(current, status, 0, <<>>, 0)>>)
    BY <1>3 DEF RespondWithoutBody
  <2>2. StatusOf(kind) \subseteq Nat
    BY DEF StatusOf
  <2> QED
    <3>1. PICK status \in StatusOf(kind) : Respond(<<Reply(current, status, 0, <<>>, 0)>>)
      BY <2>1
    <3>2. <<Reply(current, status, 0, <<>>, 0)>> \in Seq(Items)
      BY <1>2, <2>2
    <3>3. replaced' \in BOOLEAN
      BY <1>1, <1>3 DEF RespondWithoutBody
    <3> QED
      BY <1>0, <3>1, <3>2, <3>3, TypedRespond
<1>4. CASE Redirect
  <2>1. Respond(<<Reply(current, 301, 0, <<>>, 0)>>) /\ replaced' \in BOOLEAN
    BY <1>1, <1>4 DEF Redirect
  <2>2. <<Reply(current, 301, 0, <<>>, 0)>> \in Seq(Items)
    BY <1>2
  <2> QED
    BY <1>0, <2>1, <2>2, TypedRespond
<1>5. CASE ServeMetrics
  <2> DEFINE R == <<Reply(current, 200, 1, <<>>, 1)>> \o Bytes(current, 0, 1) \o Bytes(current, 0, 1)
  <2>1. Reply(current, 200, 1, <<>>, 1) \in Heads
    BY <1>0, <1>1, ReplyType
  <2>2. <<Reply(current, 200, 1, <<>>, 1)>> \in Seq(Items)
    BY <2>1 DEF Items
  <2>3. Bytes(current, 0, 1) \in Seq(Items)
    BY <1>0, BytesType
  <2>4. R \in Seq(Items)
    BY <2>2, <2>3
  <2>5. Respond(R) /\ UNCHANGED replaced
    BY <1>5, Zenon DEF ServeMetrics
  <2> HIDE DEF R
  <2> QED
    BY <1>0, <1>1, <2>4, <2>5, TypedRespond
<1>6. CASE ServeFromCompleteFile
  <2>0. PICK size \in 0..MaxSize : \E filesize \in 0..size :
           /\ replaced' = (replaced \/ filesize # size)
           /\ Respond(<<PayloadHead(current, LengthOfRest(filesize, requests[current]), size)>>
                      \o Bytes(current, BytesSent(requests[current]), filesize))
    BY <1>6 DEF ServeFromCompleteFile
  <2>1. PICK filesize \in 0..size :
           /\ replaced' = (replaced \/ filesize # size)
           /\ Respond(<<PayloadHead(current, LengthOfRest(filesize, requests[current]), size)>>
                      \o Bytes(current, BytesSent(requests[current]), filesize))
    BY <2>0
  <2> DEFINE head == PayloadHead(current, LengthOfRest(filesize, requests[current]), size)
             body == Bytes(current, BytesSent(requests[current]), filesize)
  <2>2. Offset(requests[current]) \in 0..MaxSize /\ size \in Nat /\ filesize \in Nat
    BY <1>0, RequestType, Widths
  <2>3. LengthOfRest(filesize, requests[current]) \in 0..(Width - 1)
    BY <2>2, WrapType DEF LengthOfRest
  <2>4. head \in Items
    BY <1>0, <2>2, <2>3, PayloadType DEF Items
  <2>5. body \in Seq(Items)
    BY <1>0, <2>2, BytesType, Widths DEF BytesSent
  <2> HIDE DEF head, body
  <2>6. <<head>> \o body \in Seq(Items)
    BY <2>4, <2>5
  <2>7. Respond(<<head>> \o body) /\ replaced' \in BOOLEAN
    BY <2>1, <1>1 DEF head, body
  <2> QED
    BY <1>0, <2>6, <2>7, TypedRespond
<1> QED
  BY <1>3, <1>4, <1>5, <1>6

-----------------------------------------------------------------------------
(* What the server reads. *)

LEMMA Split ==
    ASSUME Typed, NEW n \in 1..Len(to_server)
    PROVE  LET b == buf \o SubSeq(to_server, 1, n)
               q == SubSeq(to_server, n + 1, Len(to_server))
           IN  /\ b \in Seq(Pieces) /\ q \in Seq(Pieces) /\ b \o q = Unread
               /\ Len(Unread) = Len(b) + Len(q) /\ Unread[1] = b[1] /\ Len(b) >= 1
               /\ \A i \in 1..Len(q) : q[i] = Unread[Len(b) + i]
<1> DEFINE S == Pieces
           s == buf
           r == to_server
<1>0. s \in Seq(S) /\ r \in Seq(S) /\ n \in 1..Len(r)
  BY DEF Typed
<1> HIDE DEF S, s, r
<1> DEFINE p == SubSeq(r, 1, n)
           q == SubSeq(r, n + 1, Len(r))
           b == s \o p
<1>1. /\ p \in Seq(S) /\ q \in Seq(S) /\ Len(p) = n /\ Len(q) = Len(r) - n
      /\ n \in Nat /\ Len(r) \in Nat /\ Len(s) \in Nat
      /\ \A i \in 1..n : p[i] = r[i]
      /\ \A i \in 1..Len(q) : q[i] = r[n + i]
  <2>1. n \in Nat /\ Len(r) \in Nat /\ Len(s) \in Nat
    BY <1>0
  <2>2. p \in Seq(S) /\ Len(p) = n /\ \A i \in 1..n : p[i] = r[i]
    BY <1>0
  <2>3. q \in Seq(S) /\ Len(q) = Len(r) - n /\ \A i \in 1..Len(q) : q[i] = r[n + i]
    BY <1>0
  <2> QED
    BY <2>1, <2>2, <2>3
<1>2. p \o q = r
  <2>1. p \o q = SubSeq(r, 1, Len(r))
    BY <1>0, <1>1, ConcatAdjacentSubSeq
  <2>2. SubSeq(r, 1, Len(r)) = r
    BY <1>0, SubSeqFull
  <2> QED
    BY <2>1, <2>2
<1> HIDE DEF p, q, b
<1>3. /\ b \in Seq(S) /\ Len(b) = Len(s) + n
      /\ \A i \in 1..Len(s) : b[i] = s[i]
      /\ \A i \in 1..n : b[Len(s) + i] = p[i]
  <2>1. s \in Seq(S) /\ p \in Seq(S) /\ Len(p) = n
    BY <1>0, <1>1
  <2>2. /\ s \o p \in Seq(S) /\ Len(s \o p) = Len(s) + Len(p)
        /\ \A i \in 1..Len(s) : (s \o p)[i] = s[i]
        /\ \A i \in 1..Len(p) : (s \o p)[Len(s) + i] = p[i]
    BY <2>1
  <2> QED
    BY <2>1, <2>2, Zenon DEF b
<1>4. /\ s \o r \in Seq(S) /\ Len(s \o r) = Len(s) + Len(r)
      /\ \A i \in 1..Len(s) : (s \o r)[i] = s[i]
      /\ \A i \in 1..Len(r) : (s \o r)[Len(s) + i] = r[i]
  BY <1>0, Joined
<1>5. \A i \in 1..Len(q) : q[i] = (s \o r)[Len(b) + i]
  <2> SUFFICES ASSUME NEW i \in 1..Len(q) PROVE q[i] = (s \o r)[Len(b) + i]
    OBVIOUS
  <2>1. n + i \in 1..Len(r) /\ Len(s) + (n + i) = Len(b) + i
    BY <1>1, <1>3
  <2>2. (s \o r)[Len(s) + (n + i)] = r[n + i]
    BY <1>4, <2>1
  <2> QED
    BY <1>1, <2>1, <2>2
<1>6. (s \o r)[1] = b[1]
  <2>1. CASE Len(s) = 0
    <3>1. b[1] = p[1] /\ (s \o r)[1] = r[1] /\ p[1] = r[1]
      BY <1>1, <1>3, <1>4, <2>1
    <3> QED
      BY <3>1
  <2>2. CASE Len(s) # 0
    BY <1>1, <1>3, <1>4, <2>2
  <2> QED
    BY <2>1, <2>2
<1>7. b \o q = s \o r
  <2>0. s \in Seq(S) /\ p \in Seq(S) /\ q \in Seq(S)
    BY <1>0, <1>1
  <2>1. (s \o p) \o q = s \o (p \o q)
    BY <2>0
  <2> QED
    BY <1>2, <2>1, Zenon DEF b
<1>8. Len(s \o r) = Len(b) + Len(q) /\ Len(b) >= 1
  BY <1>1, <1>3, <1>4
<1> QED
  BY <1>1, <1>3, <1>5, <1>6, <1>7, <1>8, Zenon DEF p, q, b, s, r, S, Unread

\* The header that ReadHeader takes, if the pieces of it have all come.
Takes == \E k \in 1..Len(Unread) :
    /\ pc = "reading" /\ pc' = "serving" /\ current' = Unread[1][1]
    /\ Unread[1][2] = 1 /\ k >= requests[Unread[1][1]].pieces
    /\ buf' = <<>> /\ to_server' \in Seq(Pieces) /\ Len(to_server') = Len(Unread) - k
    /\ \A i \in 1..Len(to_server') : to_server'[i] = Unread[k + i]
    /\ UNCHANGED to_client

Waits ==
    /\ pc = "reading" /\ pc' = "reading" /\ Unread' = Unread
    /\ to_server' \in Seq(Pieces) /\ buf' \in Seq(Pieces) /\ Len(buf') <= MaxHeader + 1
    /\ UNCHANGED <<current, to_client>>

\* The connection is closed, after an answer to a header that is not valid.
Rejects ==
    /\ pc = "reading" /\ pc' = "closed" /\ Unread # <<>>
    /\ to_server' \in Seq(Pieces) /\ UNCHANGED <<current, buf>>
    /\ \/ to_client' = Append(to_client, Reply(Unread[1][1], 400, 0, <<>>, 0))
       \/ UNCHANGED to_client

LEMMA ReadEffect ==
    ASSUME Typed, UnreadInv, ReadHeader
    PROVE  /\ Takes \/ Waits \/ Rejects
           /\ UNCHANGED <<growing, requests, pending, answers, open, pipelined, replaced>>
<1>1. PICK n \in 1..Len(to_server) :
        LET b == buf \o SubSeq(to_server, 1, n)
        IN  /\ Len(b) <= MaxHeader + 1
            /\ to_server' = SubSeq(to_server, n + 1, Len(to_server))
            /\ \/ /\ n <= MaxHeader /\ ~Malformed(b) /\ Complete(b)
                  /\ Goes("reading", "serving")
                  /\ current' = b[1][1] /\ buf' = AfterHeader(b)
                  /\ UNCHANGED to_client
               \/ /\ n <= MaxHeader /\ ~Malformed(b) /\ ~Complete(b)
                  /\ Goes("reading", "reading")
                  /\ buf' = b
                  /\ UNCHANGED <<current, to_client>>
               \/ /\ n <= MaxHeader /\ Malformed(b)
                  /\ Goes("reading", "closed")
                  /\ to_client' = Append(to_client, Reply(b[1][1], 400, 0, <<>>, 0))
                  /\ UNCHANGED <<current, buf>>
               \/ /\ n > MaxHeader
                  /\ Goes("reading", "closed")
                  /\ UNCHANGED <<current, buf, to_client>>
  BY DEF ReadHeader
<1> DEFINE b == buf \o SubSeq(to_server, 1, n)
           q == SubSeq(to_server, n + 1, Len(to_server))
<1>2. /\ b \in Seq(Pieces) /\ q \in Seq(Pieces)
      /\ b \o q = Unread /\ Len(Unread) = Len(b) + Len(q) /\ Unread[1] = b[1] /\ Len(b) >= 1
      /\ \A i \in 1..Len(q) : q[i] = Unread[Len(b) + i]
  BY Split
<1>3. /\ Len(b) <= MaxHeader + 1
      /\ to_server' = q
      /\ \/ /\ ~Malformed(b) /\ Complete(b)
            /\ Goes("reading", "serving")
            /\ current' = b[1][1] /\ buf' = AfterHeader(b)
            /\ UNCHANGED to_client
         \/ /\ Goes("reading", "reading")
            /\ buf' = b
            /\ UNCHANGED <<current, to_client>>
         \/ /\ Goes("reading", "closed")
            /\ to_client' = Append(to_client, Reply(b[1][1], 400, 0, <<>>, 0))
            /\ UNCHANGED <<current, buf>>
         \/ /\ Goes("reading", "closed")
            /\ UNCHANGED <<current, buf, to_client>>
  BY <1>1
<1>4. UNCHANGED <<growing, requests, pending, answers, open, pipelined, replaced>>
  BY DEF ReadHeader, clientVars
<1> HIDE DEF b, q
<1>5. Len(b) \in Nat /\ Len(q) \in Nat /\ Len(b) \in 1..Len(Unread) /\ Unread # <<>>
  BY <1>2
<1>6. CASE ~Malformed(b) /\ Complete(b) /\ Goes("reading", "serving") /\ current' = b[1][1]
           /\ buf' = AfterHeader(b) /\ UNCHANGED to_client
  <2>1. Unread[1][2] = 1 /\ Len(b) >= requests[Unread[1][1]].pieces /\ buf' = <<>>
    BY <1>2, <1>6 DEF Malformed, Complete, AfterHeader
  <2>2. Len(to_server') = Len(Unread) - Len(b)
    BY <1>2, <1>3, <1>5
  <2>3. Takes
    BY <1>2, <1>3, <1>5, <1>6, <2>1, <2>2 DEF Takes, Goes
  <2> QED
    BY <1>4, <2>3
<1>7. CASE Goes("reading", "reading") /\ buf' = b /\ UNCHANGED <<current, to_client>>
  BY <1>2, <1>3, <1>4, <1>7 DEF Waits, Goes, Unread
<1>8. CASE /\ Goes("reading", "closed") /\ UNCHANGED <<current, buf>>
           /\ \/ to_client' = Append(to_client, Reply(b[1][1], 400, 0, <<>>, 0))
              \/ UNCHANGED to_client
  BY <1>2, <1>3, <1>4, <1>5, <1>8 DEF Rejects, Goes
<1> QED
  BY <1>3, <1>6, <1>7, <1>8
LEMMA UnreadTypes ==
    ASSUME Typed
    PROVE  /\ Unread \in Seq(Pieces) /\ Len(Unread) \in Nat
           /\ \A i \in 1..Len(Unread) : /\ Unread[i] \in Pieces
                                        /\ Unread[i][1] \in Nat /\ Unread[i][2] \in Nat
<1>1. buf \in Seq(Pieces) /\ to_server \in Seq(Pieces)
  BY DEF Typed
<1>2. Unread \in Seq(Pieces)
  BY <1>1, Zenon, ConcatProperties DEF Unread
<1>3. \A x \in Pieces : x[1] \in Nat /\ x[2] \in Nat
  BY BoundsAssumption DEF Pieces
<1> QED
  BY <1>2, <1>3

\* Since read_client_header throws away what it has read beyond one header, and
\* nothing of an earlier one is left, what it reads next belongs to later ones.
LEMMA TakesUnread ==
    ASSUME Typed, UnreadInv, Takes, UNCHANGED requests
    PROVE  UnreadInv' /\ current' \in 1..Len(requests)
<1>1. PICK k \in 1..Len(Unread) :
        /\ pc = "reading" /\ pc' = "serving" /\ current' = Unread[1][1]
        /\ Unread[1][2] = 1 /\ k >= requests[Unread[1][1]].pieces
        /\ buf' = <<>> /\ to_server' \in Seq(Pieces) /\ Len(to_server') = Len(Unread) - k
        /\ \A i \in 1..Len(to_server') : to_server'[i] = Unread[k + i]
  BY DEF Takes
<1>2. Unread' = to_server'
  BY <1>1 DEF Unread
<1>3. /\ Len(Unread) \in Nat /\ Len(to_server') \in Nat /\ k \in Nat /\ current \in Nat
      /\ Len(requests) \in Nat
  BY <1>1, UnreadTypes DEF Typed
<1>4. /\ \A i \in 1..Len(Unread) :
            /\ Unread[i][1] \in (current + 1)..Len(requests)
            /\ Unread[i][2] \in 1..requests[Unread[i][1]].pieces
      /\ \A i, j \in 1..Len(Unread) : i < j =>
            /\ Unread[i][1] <= Unread[j][1]
            /\ Unread[i][1] = Unread[j][1] => Unread[j][2] - Unread[i][2] = j - i
  BY <1>1 DEF UnreadInv
<1>5. current' \in 1..Len(requests)
  BY <1>1, <1>3, <1>4
<1>6. ASSUME NEW i \in 1..Len(to_server')
      PROVE  /\ k + i \in 1..Len(Unread) /\ to_server'[i] = Unread[k + i]
             /\ to_server'[i][1] \in (current' + 1)..Len(requests)
             /\ to_server'[i][2] \in 1..requests[to_server'[i][1]].pieces
  <2>1. k + i \in 1..Len(Unread) /\ to_server'[i] = Unread[k + i] /\ 1 \in 1..Len(Unread)
        /\ 1 < k + i /\ i \in Nat
    BY <1>1, <1>3
  <2> DEFINE u == Unread[k + i]
  <2>2. /\ u[1] \in 1..Len(requests) /\ u[2] \in 1..requests[u[1]].pieces
        /\ current' <= u[1] /\ (current' = u[1] => u[2] - 1 = k + i - 1)
    BY <1>1, <1>3, <1>4, <2>1
  <2>3. requests[u[1]].pieces \in Nat
    <3>1. requests[u[1]].pieces \in 1..(MaxHeader + 1)
      BY <2>2, RequestType
    <3> QED
      BY <3>1, BoundsAssumption
  <2>4. k >= requests[current'].pieces
    BY <1>1
  <2> HIDE DEF u
  <2>5. u[1] # current'
    BY <2>1, <2>2, <2>3, <2>4, <1>3
  <2>6. u[1] \in (current' + 1)..Len(requests)
    BY <2>2, <2>5, <1>3, <1>5
  <2> QED
    BY <2>1, <2>2, <2>6 DEF u
<1>7. ASSUME NEW i \in 1..Len(to_server'), NEW j \in 1..Len(to_server'), i < j
      PROVE  /\ to_server'[i][1] <= to_server'[j][1]
             /\ to_server'[i][1] = to_server'[j][1] =>
                   to_server'[j][2] - to_server'[i][2] = j - i
  <2>1. k + i < k + j /\ (k + j) - (k + i) = j - i
    BY <1>3, <1>7
  <2> QED
    BY <1>4, <1>6, <2>1
<1> QED
  BY <1>1, <1>2, <1>5, <1>6, <1>7 DEF UnreadInv

LEMMA ReadKeeps ==
    ASSUME Typed, UnreadInv, ReadHeader
    PROVE  Typed' /\ UnreadInv'
<1>1. /\ Takes \/ Waits \/ Rejects
      /\ UNCHANGED <<growing, requests, pending, answers, open, pipelined, replaced>>
  BY ReadEffect
<1>2. CASE Takes
  <2>1. UnreadInv' /\ current' \in 1..Len(requests)
    BY <1>1, <1>2, TakesUnread
  <2>2. /\ pc' = "serving" /\ buf' = <<>> /\ to_server' \in Seq(Pieces) /\ UNCHANGED to_client
        /\ current' # 0 /\ current' \in 0..Len(requests)
    BY <1>2, <2>1 DEF Takes
  <2>3. <<>> \in Seq(Pieces) /\ Len(<<>>) <= MaxHeader + 1
    BY BoundsAssumption
  <2> QED
    BY <1>1, <2>1, <2>2, <2>3 DEF Typed
<1>3. CASE Waits
  <2>1. Typed'
    BY <1>1, <1>3 DEF Waits, Typed
  <2>2. UnreadInv'
    BY <1>1, <1>3 DEF Waits, UnreadInv
  <2> QED
    BY <2>1, <2>2
<1>4. CASE Rejects
  <2>1. Unread[1][1] \in Nat
    BY <1>4, UnreadTypes DEF Rejects
  <2> DEFINE h == Reply(Unread[1][1], 400, 0, <<>>, 0)
  <2>2. h \in Items
    <3>1. 0 \in 0..(Width - 1) /\ <<>> \in Ranges /\ 400 \in Nat /\ 0 \in Nat
      BY Widths, Ranged
    <3>2. h \in Heads
      BY <2>1, <3>1, ReplyType
    <3> QED
      BY <3>2 DEF Items
  <2>a. to_client' = Append(to_client, h) \/ to_client' = to_client
    BY <1>4 DEF Rejects
  <2> HIDE DEF h
  <2>b. to_client \in Seq(Items)
    BY DEF Typed
  <2>3. to_client' \in Seq(Items)
    BY <2>a, <2>b, <2>2
  <2>4. pc' = "closed" /\ to_server' \in Seq(Pieces) /\ UNCHANGED <<current, buf>>
    BY <1>4 DEF Rejects
  <2>5. Typed'
    BY <1>1, <2>3, <2>4 DEF Typed
  <2> QED
    BY <2>4, <2>5 DEF UnreadInv
<1> QED
  BY <1>1, <1>2, <1>3, <1>4

\* What a request adds to the stream of pieces.
LEMMA SentEffect ==
    ASSUME Typed, NEW r \in Requests, SendRequest(r)
    PROVE  /\ requests' \in Seq(Requests) /\ Len(requests') = Len(requests) + 1
           /\ requests'[Len(requests) + 1] = r
           /\ \A id \in 1..Len(requests) : requests'[id] = requests[id]
           /\ to_server' \in Seq(Pieces) /\ r.pieces \in 1..(MaxHeader + 1)
           /\ Len(Unread') = Len(Unread) + r.pieces
           /\ \A i \in 1..Len(Unread) : Unread'[i] = Unread[i]
           /\ \A i \in 1..r.pieces : Unread'[Len(Unread) + i] = <<Len(requests) + 1, i>>
<1> DEFINE n == r.pieces
           new == [i \in 1..n |-> <<Len(requests) + 1, i>>]
<1>1. requests \in Seq(Requests) /\ Len(requests) \in Nat /\ Len(requests) + 1 \in 1..MaxRequests
  BY BoundsAssumption DEF Typed, SendRequest
<1>2. requests' = Append(requests, r) /\ to_server' = to_server \o new /\ UNCHANGED buf
  BY DEF SendRequest, serverVars
<1>3. /\ requests' \in Seq(Requests) /\ Len(requests') = Len(requests) + 1
      /\ requests'[Len(requests) + 1] = r
      /\ \A id \in 1..Len(requests) : requests'[id] = requests[id]
  BY <1>1, <1>2
<1>4. n \in 1..(MaxHeader + 1) /\ n \in Nat
  BY BoundsAssumption DEF Requests
<1>5. \A i \in 1..n : <<Len(requests) + 1, i>> \in Pieces
  BY <1>1, <1>4, BoundsAssumption DEF Pieces
<1>6. new \in Seq(Pieces) /\ Len(new) = n /\ \A i \in 1..n : new[i] = <<Len(requests) + 1, i>>
  BY <1>4, <1>5
<1>7. buf \in Seq(Pieces) /\ to_server \in Seq(Pieces)
  BY DEF Typed
<1> HIDE DEF new, n
<1> DEFINE S == Pieces
<1>8. buf \in Seq(S) /\ to_server \in Seq(S) /\ new \in Seq(S)
  BY <1>6, <1>7
<1> HIDE DEF S
<1>9. to_server \o new \in Seq(S) /\ buf \o (to_server \o new) = (buf \o to_server) \o new
      /\ buf \o to_server \in Seq(S)
  BY <1>8
<1>10. /\ Len((buf \o to_server) \o new) = Len(buf \o to_server) + Len(new)
       /\ \A i \in 1..Len(buf \o to_server) :
             ((buf \o to_server) \o new)[i] = (buf \o to_server)[i]
       /\ \A i \in 1..Len(new) :
             ((buf \o to_server) \o new)[Len(buf \o to_server) + i] = new[i]
  <2> DEFINE u == buf \o to_server
  <2>1. u \in Seq(S) /\ new \in Seq(S)
    BY <1>8, <1>9
  <2> HIDE DEF u
  <2>2. /\ Len(u \o new) = Len(u) + Len(new)
        /\ \A i \in 1..Len(u) : (u \o new)[i] = u[i]
        /\ \A i \in 1..Len(new) : (u \o new)[Len(u) + i] = new[i]
    BY <2>1
  <2> QED
    BY <2>2, Zenon DEF u
<1>11. Unread' = Unread \o new
  BY <1>2, <1>9, Zenon DEF Unread
<1>12. /\ Len(Unread') = Len(Unread) + n
       /\ \A i \in 1..Len(Unread) : Unread'[i] = Unread[i]
       /\ \A i \in 1..n : Unread'[Len(Unread) + i] = <<Len(requests) + 1, i>>
  BY <1>6, <1>10, <1>11, Zenon DEF Unread
<1>13. to_server' \in Seq(Pieces)
  BY <1>2, <1>9, Zenon DEF S
<1> QED
  BY <1>3, <1>4, <1>12, <1>13, Zenon DEF n

LEMMA SentKeeps ==
    ASSUME Typed, UnreadInv, NEW r \in Requests, SendRequest(r)
    PROVE  Typed' /\ UnreadInv'
<1> DEFINE U == Len(Unread)
           L == Len(requests)
           n == r.pieces
<1>1. /\ requests' \in Seq(Requests) /\ Len(requests') = L + 1 /\ requests'[L + 1] = r
      /\ \A id \in 1..L : requests'[id] = requests[id]
      /\ to_server' \in Seq(Pieces) /\ n \in 1..(MaxHeader + 1)
      /\ Len(Unread') = U + n
      /\ \A i \in 1..U : Unread'[i] = Unread[i]
      /\ \A i \in 1..n : Unread'[U + i] = <<L + 1, i>>
  BY SentEffect
<1>2. /\ UNCHANGED <<buf, pc, current, growing, to_client, pending, answers, open, replaced>>
      /\ L < MaxRequests /\ pipelined' \in BOOLEAN
  BY DEF SendRequest, serverVars, Typed
<1>3. U \in Nat /\ L \in Nat /\ n \in Nat /\ current \in 0..L
  <2>1. U \in Nat
    BY UnreadTypes
  <2>2. L \in Nat /\ current \in 0..L
    BY DEF Typed
  <2>3. n \in Nat
    BY <1>1, BoundsAssumption
  <2> QED
    BY <2>1, <2>2, <2>3
<1>4. Typed'
  <2>1. Len(requests') <= MaxRequests /\ current' \in 0..Len(requests')
    BY <1>1, <1>2, <1>3, BoundsAssumption
  <2> QED
    BY <1>1, <1>2, <2>1 DEF Typed
<1>5. CASE pc # "closed"
  <2>1. /\ \A i \in 1..U : /\ Unread[i][1] \in (current + 1)..L
                           /\ Unread[i][2] \in 1..requests[Unread[i][1]].pieces
        /\ \A i, j \in 1..U : i < j =>
              /\ Unread[i][1] <= Unread[j][1]
              /\ Unread[i][1] = Unread[j][1] => Unread[j][2] - Unread[i][2] = j - i
        /\ pc # "reading" => buf = <<>>
    BY <1>5 DEF UnreadInv
  <2> HIDE DEF U, L, n
  <2>2. ASSUME NEW i \in 1..(U + n), i > U
        PROVE  Unread'[i][1] = L + 1 /\ Unread'[i][2] = i - U /\ i - U \in 1..n
    <3>1. i - U \in 1..n /\ U + (i - U) = i
      BY <1>3, <2>2
    <3>2. Unread'[i] = <<L + 1, i - U>>
      BY <1>1, <3>1
    <3> QED
      BY <3>1, <3>2
  <2>3. ASSUME NEW i \in 1..(U + n), ~(i > U)
        PROVE  i \in 1..U /\ Unread'[i] = Unread[i]
    <3>1. i \in 1..U
      BY <1>3, <2>3
    <3> QED
      BY <1>1, <3>1
  <2>4. ASSUME NEW i \in 1..(U + n)
        PROVE  /\ Unread'[i][1] \in (current' + 1)..(L + 1)
               /\ Unread'[i][2] \in 1..requests'[Unread'[i][1]].pieces
    <3>1. CASE i > U
      <4>1. Unread'[i][1] = L + 1 /\ Unread'[i][2] \in 1..n
        BY <2>2, <3>1
      <4>2. L + 1 \in (current' + 1)..(L + 1)
        BY <1>2, <1>3
      <4> QED
        BY <1>1, <4>1, <4>2, Zenon DEF n
    <3>2. CASE ~(i > U)
      <4>1. Unread'[i] = Unread[i] /\ Unread[i][1] \in (current + 1)..L
            /\ Unread[i][2] \in 1..requests[Unread[i][1]].pieces
        BY <2>1, <2>3, <3>2
      <4>2. Unread[i][1] \in 1..L /\ Unread[i][1] \in (current' + 1)..(L + 1)
        BY <1>2, <1>3, <4>1
      <4>3. requests'[Unread[i][1]] = requests[Unread[i][1]]
        BY <1>1, <4>2
      <4> QED
        BY <4>1, <4>2, <4>3
    <3> QED
      BY <3>1, <3>2
  <2>5. ASSUME NEW i \in 1..(U + n), NEW j \in 1..(U + n), i < j
        PROVE  /\ Unread'[i][1] <= Unread'[j][1]
               /\ Unread'[i][1] = Unread'[j][1] => Unread'[j][2] - Unread'[i][2] = j - i
    <3>1. CASE i > U /\ j > U
      BY <1>3, <2>2, <3>1
    <3>2. CASE ~(i > U) /\ ~(j > U)
      BY <2>1, <2>3, <2>5, <3>2
    <3>3. CASE ~(i > U) /\ j > U
      <4>1. Unread'[i][1] \in (current + 1)..L /\ Unread'[j][1] = L + 1
        BY <2>1, <2>2, <2>3, <3>3
      <4> QED
        BY <1>3, <4>1
    <3> QED
      BY <1>3, <2>5, <3>1, <3>2, <3>3
  <2> QED
    BY <1>1, <1>2, <1>4, <2>1, <2>4, <2>5 DEF UnreadInv
<1>6. CASE pc = "closed"
  BY <1>2, <1>4, <1>6 DEF UnreadInv
<1> QED
  BY <1>4, <1>5, <1>6

\* The other actions neither send nor take anything.
LEMMA UnreadKept ==
    ASSUME UnreadInv, UNCHANGED <<requests, to_server, buf, current>>,
           pc' # "closed" => pc' = pc \/ pc \in {"serving", "growing"}
    PROVE  UnreadInv'
<1>1. Unread' = Unread
  BY DEF Unread
<1>2. requests' = requests /\ buf' = buf /\ current' = current
  OBVIOUS
<1> QED
  BY <1>1, <1>2 DEF UnreadInv

LEMMA GrowingType ==
    ASSUME Typed
    PROVE  /\ growing = <<growing[1], growing[2]>>
           /\ growing[1] \in 0..MaxSize /\ growing[2] \in 0..MaxSize
BY DEF Typed

\* A range that begins behind the end of the file leaves nothing to send.
LEMMA RemainingType ==
    ASSUME NEW size \in 0..MaxSize, NEW from \in 0..MaxSize
    PROVE  /\ RemainingContentLength(size, from) \in 0..MaxSize
           /\ RemainingContentLength(size, from) \in 0..(Width - 1)
           /\ RemainingContentLength(size, from) + from \in 0..MaxSize
           /\ RemainingContentLength(size, from) + from = IF size > from THEN size ELSE from
BY Widths DEF RemainingContentLength

LEMMA GrowingKeeps ==
    ASSUME Typed, UnreadInv,
           BeginGrowingFile \/ SendFromGrowingFile \/ EndGrowingFile \/ Fail
    PROVE  Typed' /\ UnreadInv'
<1>0. /\ growing[1] \in 0..MaxSize /\ growing[2] \in 0..MaxSize
      /\ 0 \in 0..MaxSize /\ MaxSize \in Nat
  BY GrowingType, Widths
<1>1. CASE BeginGrowingFile
  <2>1. /\ pc = "serving" /\ pc' = "growing" /\ current \in 1..Len(requests)
        /\ UNCHANGED <<buf, current, requests, pending, answers, open, pipelined,
                       to_server, replaced>>
    BY <1>1, CurrentType DEF BeginGrowingFile, Goes, clientVars
  <2>2. PICK size \in 0..MaxSize :
          LET from   == Offset(requests[current])
              length == RemainingContentLength(size, from)
          IN  /\ to_client' = Append(to_client, PayloadHead(current, length, size))
              /\ growing' = <<from, length + from>>
    BY <1>1 DEF BeginGrowingFile
  <2> DEFINE from   == Offset(requests[current])
             length == RemainingContentLength(size, from)
             head   == PayloadHead(current, length, size)
  <2>3. from \in 0..MaxSize
    BY <2>1, RequestType
  <2>4. length \in 0..(Width - 1) /\ length + from \in 0..MaxSize
    BY <2>3, RemainingType
  <2>5. head \in Items
    <3>1. size \in Nat
      BY <1>0
    <3>2. head \in Heads
      BY <2>1, <2>4, <3>1, PayloadType
    <3> QED
      BY <3>2 DEF Items
  <2>6. to_client' = Append(to_client, head) /\ growing' = <<from, length + from>>
    BY <2>2
  <2> HIDE DEF from, length, head
  <2>7. to_client \in Seq(Items)
    BY DEF Typed
  <2>8. to_client' \in Seq(Items)
    BY <2>5, <2>6, <2>7
  <2>9. growing' \in (0..MaxSize) \X (0..MaxSize)
    BY <2>3, <2>4, <2>6
  <2>10. Typed'
    BY <2>1, <2>8, <2>9 DEF Typed
  <2> QED
    BY <2>1, <2>10, UnreadKept
<1>2. CASE SendFromGrowingFile
  <2>1. /\ pc = "growing" /\ current \in 1..Len(requests) /\ current \in Nat
        /\ UNCHANGED <<buf, pc, current, requests, pending, answers, open, pipelined,
                       to_server, replaced>>
    BY <1>2, CurrentType DEF SendFromGrowingFile, clientVars
  <2>2. PICK filesize \in (growing[1] + 1)..MaxSize :
          /\ to_client' = to_client \o Bytes(current, growing[1], filesize)
          /\ growing' = [growing EXCEPT ![1] = filesize]
    BY <1>2 DEF SendFromGrowingFile
  <2>3. filesize \in 0..MaxSize /\ filesize \in Nat /\ growing[1] \in Nat
    BY <1>0
  <2>4. Bytes(current, growing[1], filesize) \in Seq(Items)
    BY <2>1, <2>3, BytesType
  <2>5. to_client' \in Seq(Items)
    <3> DEFINE body == Bytes(current, growing[1], filesize)
    <3>1. to_client \in Seq(Items) /\ body \in Seq(Items) /\ to_client' = to_client \o body
      BY <2>2, <2>4 DEF Typed
    <3> HIDE DEF body
    <3> QED
      BY <3>1
  <2>6. growing' \in (0..MaxSize) \X (0..MaxSize)
    <3> DEFINE a == growing[1]  b == growing[2]
    <3>1. growing = <<a, b>> /\ b \in 0..MaxSize
      BY GrowingType
    <3> HIDE DEF a, b
    <3>2. growing' = <<filesize, b>>
      BY <2>2, <3>1
    <3> QED
      BY <2>3, <3>1, <3>2
  <2>7. Typed'
    BY <2>1, <2>5, <2>6 DEF Typed
  <2> QED
    BY <2>1, <2>7, UnreadKept
<1>3. CASE EndGrowingFile \/ Fail
  <2>1. /\ pc \in {"serving", "growing"} /\ pc' \in {"reading", "closed"}
        /\ UNCHANGED <<buf, current, requests, pending, answers, open, pipelined,
                       to_client, to_server, replaced>>
        /\ growing' = <<0, 0>>
    BY <1>3 DEF EndGrowingFile, Fail, Serving, Goes, clientVars
  <2>2. growing' \in (0..MaxSize) \X (0..MaxSize)
    BY <1>0, <2>1
  <2>3. Typed'
    BY <2>1, <2>2 DEF Typed
  <2> QED
    BY <2>1, <2>3, UnreadKept
<1> QED
  BY <1>1, <1>2, <1>3

LEMMA ServeKeeps ==
    ASSUME Typed, UnreadInv,
           RespondWithoutBody \/ ServeMetrics \/ Redirect \/ ServeFromCompleteFile
    PROVE  Typed' /\ UnreadInv'
<1>1. pc = "serving" /\ pc' = "reading" /\ UNCHANGED <<requests, to_server, buf, current>>
  BY DEF RespondWithoutBody, ServeMetrics, Redirect, ServeFromCompleteFile, Respond, Goes,
         clientVars
<1> QED
  BY <1>1, TypedServe, UnreadKept

LEMMA ClosingKeeps ==
    ASSUME Typed, UnreadInv, BufferSizeExceeded \/ SocketClosed \/ Close
    PROVE  Typed' /\ UnreadInv'
<1>1. /\ UNCHANGED <<requests, to_server, buf, current, growing, to_client, pending, answers,
                     pipelined, replaced>>
      /\ pc' \in {"closed", pc} /\ open' \in {open, FALSE}
  BY DEF BufferSizeExceeded, SocketClosed, Close, Goes, clientVars, serverVars
<1>2. pc' # "closed" => pc = pc'
  BY <1>1
<1>3. Typed'
  BY <1>1 DEF Typed
<1> QED
  BY <1>1, <1>2, <1>3, UnreadKept

\* What the client receives.
LEMMA ReceiveType ==
    ASSUME Typed, Receive
    PROVE  /\ Received \in Seq(Items) /\ Received # <<>> /\ Len(Received) = Len(pending) + 1
           /\ \A i \in 1..Len(pending) : Received[i] = pending[i]
           /\ Received[Len(pending) + 1] = to_client[1]
           /\ to_client # <<>> /\ to_client' = Tail(to_client) /\ to_client' \in Seq(Items)
<1>1. to_client \in Seq(Items) /\ pending \in Seq(Items) /\ to_client # <<>>
      /\ to_client' = Tail(to_client)
  BY DEF Typed, Receive
<1>2. to_client[1] \in Items /\ Tail(to_client) \in Seq(Items)
  BY <1>1
<1> DEFINE x == to_client[1]
<1>3. x \in Items
  BY <1>2
<1> HIDE DEF x
<1>4. /\ Append(pending, x) \in Seq(Items) /\ Append(pending, x) # <<>>
      /\ Len(Append(pending, x)) = Len(pending) + 1
      /\ \A i \in 1..Len(pending) : Append(pending, x)[i] = pending[i]
      /\ Append(pending, x)[Len(pending) + 1] = x
  BY <1>1, <1>3
<1> QED
  BY <1>1, <1>2, <1>4, Zenon DEF Received, x

LEMMA ReceiveKeeps ==
    ASSUME Typed, UnreadInv, Receive
    PROVE  Typed' /\ UnreadInv'
<1>1. /\ Received \in Seq(Items) /\ to_client' \in Seq(Items)
      /\ UNCHANGED <<requests, pipelined, buf, pc, current, growing, to_server, replaced>>
  BY ReceiveType DEF Receive, serverVars
<1>2. /\ pending' \in {pending, <<>>, Received} /\ answers' \in {answers, Append(answers, Received)}
      /\ open' \in {open, FALSE}
  BY DEF Receive
<1>3. pending \in Seq(Items) /\ answers \in Seq(Seq(Items)) /\ <<>> \in Seq(Items)
  BY DEF Typed
<1>4. answers' \in Seq(Seq(Items))
  <2> DEFINE S == Seq(Items)
             x == Received
  <2>1. answers \in Seq(S) /\ x \in S /\ answers' \in {answers, Append(answers, x)}
    BY <1>1, <1>2, <1>3
  <2> HIDE DEF S, x
  <2>2. answers' \in Seq(S)
    BY <2>1
  <2> QED
    BY <2>2 DEF S
<1>5. Typed'
  BY <1>1, <1>2, <1>3, <1>4 DEF Typed
<1> QED
  BY <1>1, <1>5, UnreadKept

LEMMA TypedStep == Typed /\ UnreadInv /\ [Next]_vars => Typed' /\ UnreadInv'
<1> SUFFICES ASSUME Typed, UnreadInv, [Next]_vars PROVE Typed' /\ UnreadInv'
  OBVIOUS
<1>1. CASE Server
  BY <1>1, ReadKeeps, ClosingKeeps, ServeKeeps, GrowingKeeps DEF Server
<1>2. CASE Receive
  BY <1>2, ReceiveKeeps
<1>3. CASE Disconnect \/ EndOfStream
  BY <1>3, ClosingKeeps DEF Disconnect, EndOfStream
<1>4. CASE \E r \in Requests : SendRequest(r)
  BY <1>4, SentKeeps
<1>5. CASE UNCHANGED vars
  <2>1. UNCHANGED <<requests, to_server, buf, current, growing, to_client, pending, answers,
                    pipelined, replaced, pc, open>>
    BY <1>5 DEF vars, serverVars, clientVars
  <2>2. Typed'
    BY <2>1 DEF Typed
  <2> QED
    BY <2>1, <2>2, UnreadKept
<1> QED
  BY <1>1, <1>2, <1>3, <1>4, <1>5 DEF Next

-----------------------------------------------------------------------------
(* What the server has sent and the client has received. *)

IsHead(x) == x.type = "head"

From(id) == Offset(requests[id])

\* Byte n of the response to a request.
ByteOf(id, n) == [type |-> "byte", id |-> id, at |-> From(id) + n - 1]

\* The last request that may have a response.
Served == IF pc = "serving" THEN current - 1 ELSE current

\* What may follow, in the stream, something of the response to id.
After(id, x) == id <= x.id /\ (IsHead(x) => id < x.id)

\* Responses come in the order of the requests, and each has one head.
IdsInv ==
    /\ \A i \in 1..Len(Stream) :
          Stream[i].id \in 1..Len(requests) /\ (pc # "closed" => Stream[i].id <= Served)
    /\ \A i, j \in 1..Len(Stream) : i < j => After(Stream[i].id, Stream[j])
    /\ \A k \in 1..Len(answers) :
          /\ pc # "closed" => IdOf(k) <= Served
          /\ \A i \in 1..Len(Stream) : After(IdOf(k), Stream[i])

\* A head is followed by as many bytes of its response as it promises, unless they
\* are yet to come from a growing file or the promise is not kept.
ResponseOf(h) ==
    LET id == Stream[h].id  end == h + Stream[h].length
    IN  /\ \A i \in (h + 1)..Len(Stream) : i <= end => Stream[i] = ByteOf(id, i - h)
        /\ end > Len(Stream) => replaced \/ pc = "closed" \/ (pc = "growing" /\ id = current)
        /\ pc = "growing" /\ id = current => /\ growing[2] - growing[1] = end - Len(Stream)
                                             /\ growing[1] = From(id) + Len(Stream) - h

ResponseInv == ~(pipelined /\ replaced) =>
    \A h \in 1..Len(Stream) : IsHead(Stream[h]) => ResponseOf(h)

\* The head of a file's response promises what is left of the file.
Promises(head) ==
    requests[head.id].kind = "order" /\ head.status \in {200, 206} =>
        LET from == From(head.id)  total == Wrap(head.length + from)
        IN  /\ head.size \in 0..MaxSize
            /\ head.length = RemainingContentLength(head.size, from)
            /\ head.status = 206 => head.range = <<from, Wrap(total - 1), total>>

HeadInv == ~replaced => \A h \in 1..Len(Stream) : IsHead(Stream[h]) => Promises(Stream[h])

\* A client that waits has one request that is not answered; the server has read it
\* or not, and has begun to answer it or not.
LastRequest == Len(requests) = Len(answers) + 1

AloneInv == ~pipelined =>
    /\ Len(requests) <= Len(answers) + 1
    /\ \A h \in 1..Len(Stream) : IsHead(Stream[h]) =>
          /\ LastRequest /\ Stream[h].id = Len(requests) /\ pc # "serving"
          /\ pc # "closed" => Unread = <<>>
          /\ \A i \in 1..Len(Stream) : IsHead(Stream[i]) => i = h
    /\ pc # "closed" /\ Unread # <<>> => LastRequest /\ Unread[1][1] = Len(requests)
    /\ pc = "serving" => LastRequest /\ Unread = <<>> /\ current = Len(requests)

StreamInv == open => IdsInv /\ ResponseInv /\ HeadInv /\ AloneInv

\* What the client has taken for a response is one.
AnswerOf(k) ==
    /\ answers[k] # <<>> /\ IsHead(answers[k][1])
    /\ IdOf(k) \in k..Len(requests)
    /\ k > 1 => IdOf(k - 1) < IdOf(k)
    /\ Len(answers[k]) = 1 + answers[k][1].length
    /\ ~(pipelined /\ replaced) =>
          \A i \in 2..Len(answers[k]) : answers[k][i] = ByteOf(IdOf(k), i - 1)
    /\ ~replaced => Promises(answers[k][1])
    /\ ~pipelined => IdOf(k) = k

AnswersInv == \A k \in 1..Len(answers) : AnswerOf(k)

-----------------------------------------------------------------------------
(* What the steps do to the stream. *)

LEMMA ItemTypes ==
    ASSUME NEW x \in Items
    PROVE  /\ x.id \in Nat
           /\ IsHead(x) => x \in Heads /\ x.length \in 0..(Width - 1) /\ x.length \in Nat
           /\ ~IsHead(x) => x.type = "byte"
BY Widths DEF Items, Heads, IsHead

LEMMA StreamTypes ==
    ASSUME Typed
    PROVE  /\ Stream \in Seq(Items) /\ Len(Stream) \in Nat
           /\ \A i \in 1..Len(Stream) : /\ Stream[i] \in Items /\ Stream[i].id \in Nat
                                        /\ IsHead(Stream[i]) => Stream[i].length \in Nat
<1>1. pending \in Seq(Items) /\ to_client \in Seq(Items)
  BY DEF Typed
<1>2. Stream \in Seq(Items)
  <2> DEFINE S == Items
  <2>1. pending \in Seq(S) /\ to_client \in Seq(S)
    BY <1>1
  <2> HIDE DEF S
  <2>2. pending \o to_client \in Seq(S)
    BY <2>1
  <2> QED
    BY <2>2 DEF S, Stream
<1>3. Len(Stream) \in Nat /\ \A i \in 1..Len(Stream) : Stream[i] \in Items
  BY <1>2
<1> QED
  BY <1>2, <1>3, ItemTypes

\* r goes to the end of the stream.
Extends(r) ==
    /\ Len(Stream') = Len(Stream) + Len(r)
    /\ \A i \in 1..Len(Stream) : Stream'[i] = Stream[i]
    /\ \A i \in 1..Len(r) : Stream'[Len(Stream) + i] = r[i]

LEMMA WrittenExtends ==
    ASSUME Typed, NEW r \in Seq(Items), to_client' = to_client \o r, UNCHANGED pending
    PROVE  Extends(r)
<1>1. Stream \in Seq(Items) /\ Stream' = Stream \o r
  BY Written
<1> DEFINE s == Stream
           S == Items
<1>2. s \in Seq(S) /\ r \in Seq(S)
  BY <1>1
<1> HIDE DEF s, S
<1>3. /\ Len(s \o r) = Len(s) + Len(r)
      /\ \A i \in 1..Len(s) : (s \o r)[i] = s[i]
      /\ \A i \in 1..Len(r) : (s \o r)[Len(s) + i] = r[i]
  BY <1>2
<1> QED
  BY <1>1, <1>3 DEF Extends, s

\* A response to the current request, or its beginning: the head and what follows.
Answering(head, body) ==
    /\ pc = "serving" /\ pc' \in {"reading", "growing"}
    /\ head \in Heads /\ head.id = current /\ body \in Seq(Items)
    /\ \A i \in 1..Len(body) : ~IsHead(body[i]) /\ body[i].id = current
    /\ \A i \in 1..Len(body) : i <= head.length => body[i] = ByteOf(current, i)
    /\ head.length > Len(body) => replaced' \/ pc' = "growing"
    /\ pc' = "growing" => /\ body = <<>> /\ growing'[2] - growing'[1] = head.length
                          /\ growing'[1] = From(current)
    /\ ~replaced' => Promises(head)
    /\ Len(Stream') = Len(Stream) + 1 + Len(body)
    /\ \A i \in 1..Len(Stream) : Stream'[i] = Stream[i]
    /\ Stream'[Len(Stream) + 1] = head
    /\ \A i \in 1..Len(body) : Stream'[Len(Stream) + 1 + i] = body[i]
    /\ UNCHANGED <<requests, to_server, buf, current, pending, answers, open, pipelined>>
    /\ replaced => replaced'

\* The order of a head and its bytes in the stream.
LEMMA HeadThenBody ==
    ASSUME Typed, NEW head \in Items, NEW body \in Seq(Items),
           to_client' = to_client \o (<<head>> \o body), UNCHANGED pending
    PROVE  /\ Len(Stream') = Len(Stream) + 1 + Len(body)
           /\ \A i \in 1..Len(Stream) : Stream'[i] = Stream[i]
           /\ Stream'[Len(Stream) + 1] = head
           /\ \A i \in 1..Len(body) : Stream'[Len(Stream) + 1 + i] = body[i]
<1> DEFINE S == Items
           r == <<head>> \o body
<1>1. <<head>> \in Seq(S) /\ body \in Seq(S)
  OBVIOUS
<1> HIDE DEF S
<1>2. /\ r \in Seq(S) /\ Len(r) = 1 + Len(body) /\ r[1] = head
      /\ \A i \in 1..Len(body) : r[1 + i] = body[i]
  BY <1>1
<1>3. Len(Stream) \in Nat /\ Len(body) \in Nat
  BY StreamTypes
<1>4. r \in Seq(Items) /\ to_client' = to_client \o r
  BY <1>2 DEF S
<1> HIDE DEF r
<1>5. Extends(r)
  BY <1>4, WrittenExtends
<1>6. 1 \in 1..Len(r) /\ \A i \in 1..Len(body) : 1 + i \in 1..Len(r)
  BY <1>2, <1>3
<1>7. Stream'[Len(Stream) + 1] = head
  BY <1>2, <1>5, <1>6 DEF Extends
<1>8. ASSUME NEW i \in 1..Len(body) PROVE Stream'[Len(Stream) + 1 + i] = body[i]
  <2>1. Stream'[Len(Stream) + (1 + i)] = r[1 + i]
    BY <1>5, <1>6 DEF Extends
  <2>2. Len(Stream) + (1 + i) = Len(Stream) + 1 + i
    BY <1>3
  <2> QED
    BY <1>2, <2>1, <2>2
<1>9. Len(Stream') = Len(Stream) + 1 + Len(body)
  BY <1>2, <1>3, <1>5 DEF Extends
<1> QED
  BY <1>5, <1>7, <1>8, <1>9 DEF Extends

LEMMA ByteFields ==
    ASSUME NEW id, NEW n
    PROVE  ~IsHead(ByteOf(id, n)) /\ ByteOf(id, n).id = id /\ ByteOf(id, n).type = "byte"
BY DEF ByteOf, IsHead

\* The bytes of a file from where the request begins.
LEMMA BodyFromStart ==
    ASSUME Typed, NEW id \in 1..Len(requests), NEW n \in Nat, NEW end \in Nat, n >= From(id)
    PROVE  \A i \in 1..Len(Bytes(id, n, end)) :
              Bytes(id, n, end)[i] = ByteOf(id, n - From(id) + i)
<1>1. id \in Nat /\ From(id) \in Nat
  BY RequestType, Widths DEF From
<1> DEFINE b == Bytes(id, n, end)
<1>2. /\ Len(b) = IF end > n THEN end - n ELSE 0
      /\ \A i \in 1..(end - n) : b[i] = [type |-> "byte", id |-> id, at |-> n + i - 1]
  BY <1>1, BytesType
<1> HIDE DEF b
<1> SUFFICES ASSUME NEW i \in 1..Len(b) PROVE b[i] = ByteOf(id, n - From(id) + i)
  BY DEF b
<1>3. i \in 1..(end - n) /\ i \in Nat
  BY <1>2
<1>4. From(id) + (n - From(id) + i) - 1 = n + i - 1
  BY <1>1, <1>3
<1> QED
  BY <1>2, <1>3, <1>4 DEF ByteOf

LEMMA PayloadPromises ==
    ASSUME Typed, NEW id \in 1..Len(requests), NEW size \in 0..MaxSize,
           NEW length \in 0..(Width - 1), length = RemainingContentLength(size, From(id))
    PROVE  Promises(PayloadHead(id, length, size))
<1> DEFINE r == requests[id].from
           total == Wrap(length + r)
           head == PayloadHead(id, length, size)
<1>1. CASE r = NoRange
  <2>1. head = Reply(id, 200, length, <<>>, size)
    BY <1>1 DEF PayloadHead
  <2>2. head.id = id /\ head.status = 200 /\ head.length = length /\ head.size = size
    BY <2>1, ReplyFields
  <2> HIDE DEF head
  <2> QED
    BY <2>2 DEF Promises, head
<1>2. CASE r # NoRange
  <2>1. head = Reply(id, 206, length, <<r, Wrap(total - 1), total>>, size) /\ From(id) = r
    BY <1>2 DEF PayloadHead, From, Offset
  <2>2. /\ head.id = id /\ head.status = 206 /\ head.length = length /\ head.size = size
        /\ head.range = <<r, Wrap(total - 1), total>>
    BY <2>1, ReplyFields
  <2> HIDE DEF head, r
  <2> QED
    BY <2>1, <2>2 DEF Promises, head
<1> QED
  BY <1>1, <1>2

\* A response that has no body.
LEMMA BareAnswer ==
    ASSUME Typed, pc = "serving", NEW status \in Nat,
           Respond(<<Reply(current, status, 0, <<>>, 0)>>), UNCHANGED replaced,
           requests[current].kind # "order" \/ status \notin {200, 206}
    PROVE  \E head, body : Answering(head, body)
<1> DEFINE head == Reply(current, status, 0, <<>>, 0)
<1>1. current \in Nat /\ 0 \in 0..(Width - 1) /\ <<>> \in Ranges
  BY CurrentType, Widths, Ranged
<1>2. head \in Heads /\ head.id = current /\ head.status = status /\ head.length = 0
  <2>1. head \in Heads
    BY <1>1, ReplyType
  <2> QED
    BY <2>1, ReplyFields
<1>3. /\ pc' = "reading" /\ to_client' = to_client \o <<head>>
      /\ UNCHANGED <<requests, to_server, buf, current, pending, answers, open, pipelined>>
  BY DEF Respond, Goes, clientVars
<1> HIDE DEF head
<1> DEFINE body == <<>>
<1>4. head \in Items /\ body \in Seq(Items) /\ Len(body) = 0
  BY <1>2 DEF Items
<1>5. to_client' = to_client \o (<<head>> \o body)
  BY <1>3, <1>4
<1>6. Promises(head)
  BY <1>2 DEF Promises
<1>a. body = <<>>
  OBVIOUS
<1> HIDE DEF body
<1>7. /\ Len(Stream') = Len(Stream) + 1 + Len(body)
      /\ \A i \in 1..Len(Stream) : Stream'[i] = Stream[i]
      /\ Stream'[Len(Stream) + 1] = head
      /\ \A i \in 1..Len(body) : Stream'[Len(Stream) + 1 + i] = body[i]
  <2>1. head \in Items /\ body \in Seq(Items)
    BY <1>4
  <2>2. UNCHANGED pending /\ to_client' = to_client \o (<<head>> \o body)
    BY <1>3, <1>5
  <2> QED
    BY <2>1, <2>2, HeadThenBody
<1>8. Answering(head, body)
  BY <1>a, <1>2, <1>3, <1>4, <1>6, <1>7 DEF Answering
<1> QED
  BY <1>8

LEMMA PayloadAnswer ==
    ASSUME Typed, Serving("order"), NEW size \in 0..MaxSize, NEW length \in 0..(Width - 1),
           NEW body \in Seq(Items),
           to_client' = to_client \o (<<PayloadHead(current, length, size)>> \o body),
           UNCHANGED <<requests, to_server, buf, current, pending, answers, open, pipelined>>,
           \A i \in 1..Len(body) : body[i] = ByteOf(current, i),
           length > Len(body) => replaced' \/ pc' = "growing",
           pc' \in {"reading", "growing"},
           pc' = "growing" => /\ body = <<>> /\ growing'[2] - growing'[1] = length
                              /\ growing'[1] = From(current),
           ~replaced' => length = RemainingContentLength(size, From(current)),
           replaced => replaced'
    PROVE  \E head : Answering(head, body)
<1> DEFINE head == PayloadHead(current, length, size)
<1>1. pc = "serving" /\ current \in 1..Len(requests) /\ current \in Nat /\ size \in Nat
  BY CurrentType, Widths DEF Serving
<1>2. head \in Heads /\ head.id = current /\ head.length = length
  BY <1>1, PayloadType
<1>3. head \in Items
  BY <1>2 DEF Items
<1>4. ~replaced' => Promises(head)
  BY <1>1, PayloadPromises
<1> HIDE DEF head
<1>5. to_client' = to_client \o (<<head>> \o body)
  BY DEF head
<1>6. /\ Len(Stream') = Len(Stream) + 1 + Len(body)
      /\ \A i \in 1..Len(Stream) : Stream'[i] = Stream[i]
      /\ Stream'[Len(Stream) + 1] = head
      /\ \A i \in 1..Len(body) : Stream'[Len(Stream) + 1 + i] = body[i]
  BY <1>3, <1>5, HeadThenBody
<1>7. \A i \in 1..Len(body) : ~IsHead(body[i]) /\ body[i].id = current
  BY ByteFields
<1>8. Answering(head, body)
  BY <1>1, <1>2, <1>4, <1>6, <1>7 DEF Answering
<1> QED
  BY <1>8

LEMMA CompleteFileAnswer ==
    ASSUME Typed, ServeFromCompleteFile
    PROVE  \E head, body : Answering(head, body)
<1>1. PICK size \in 0..MaxSize : \E filesize \in 0..size :
         /\ Offset(requests[current]) <= size
         /\ replaced' = (replaced \/ filesize # size)
         /\ Respond(<<PayloadHead(current, LengthOfRest(filesize, requests[current]), size)>>
                    \o Bytes(current, BytesSent(requests[current]), filesize))
  BY DEF ServeFromCompleteFile
<1>2. PICK filesize \in 0..size :
         /\ Offset(requests[current]) <= size
         /\ replaced' = (replaced \/ filesize # size)
         /\ Respond(<<PayloadHead(current, LengthOfRest(filesize, requests[current]), size)>>
                    \o Bytes(current, BytesSent(requests[current]), filesize))
  BY <1>1
<1> DEFINE from   == From(current)
           length == LengthOfRest(filesize, requests[current])
           body   == Bytes(current, from, filesize)
<1>3. Serving("order") /\ pc = "serving" /\ current \in 1..Len(requests) /\ current \in Nat
  BY CurrentType DEF ServeFromCompleteFile, Serving
<1>4. /\ from \in 0..MaxSize /\ from \in Nat /\ from <= size /\ size \in 0..MaxSize
      /\ filesize \in Nat /\ filesize <= size /\ size \in Nat
  BY <1>2, <1>3, RequestType, Widths DEF From
<1>5. length \in 0..(Width - 1) /\ (filesize >= from => length = filesize - from)
  <2>1. length = Wrap(filesize - from) /\ filesize - from \in Int
    BY <1>4 DEF LengthOfRest, From
  <2>2. filesize >= from => filesize - from \in 0..(Width - 1)
    BY <1>4, Widths
  <2> QED
    BY <2>1, <2>2, WrapType, WrapSmall
<1>6. /\ body \in Seq(Items) /\ Len(body) = IF filesize > from THEN filesize - from ELSE 0
      /\ \A i \in 1..Len(body) : body[i] = ByteOf(current, i)
  <2>1. /\ body \in Seq(Items) /\ Len(body) = IF filesize > from THEN filesize - from ELSE 0
    BY <1>3, <1>4, BytesType
  <2>2. from >= From(current)
    BY <1>4
  <2>3. \A i \in 1..Len(body) : body[i] = ByteOf(current, from - From(current) + i)
    BY <1>3, <1>4, <2>2, BodyFromStart
  <2> HIDE DEF body
  <2>4. \A i \in 1..Len(body) : from - From(current) + i = i
    BY <1>4
  <2> QED
    BY <2>1, <2>3, <2>4
<1>7. /\ to_client' = to_client \o (<<PayloadHead(current, length, size)>> \o body)
      /\ pc' = "reading" /\ replaced' = (replaced \/ filesize # size)
      /\ UNCHANGED <<requests, to_server, buf, current, pending, answers, open, pipelined>>
  BY <1>2 DEF Respond, Goes, clientVars, BytesSent, From
<1> HIDE DEF length, body, from
<1>8. length > Len(body) => replaced'
  <2>1. CASE filesize >= from
    <3>1. Len(body) = filesize - from
      BY <1>4, <1>6, <2>1
    <3> QED
      BY <1>4, <1>5, <2>1, <3>1
  <2>2. CASE ~(filesize >= from)
    <3>1. filesize # size
      BY <1>4, <2>2
    <3> QED
      BY <1>7, <3>1, Zenon
  <2> QED
    BY <2>1, <2>2
<1>9. ~replaced' => length = RemainingContentLength(size, From(current))
  <2> SUFFICES ASSUME ~replaced' PROVE length = RemainingContentLength(size, from)
    BY DEF from
  <2>1. filesize = size
    BY <1>7
  <2> QED
    BY <1>4, <1>5, <2>1 DEF RemainingContentLength
<1>10. \E head : Answering(head, body)
  BY <1>3, <1>4, <1>5, <1>6, <1>7, <1>8, <1>9, PayloadAnswer
<1> QED
  BY <1>10

LEMMA GrowingFileAnswer ==
    ASSUME Typed, BeginGrowingFile
    PROVE  \E head, body : Answering(head, body)
<1>1. PICK size \in 0..MaxSize :
        LET from   == Offset(requests[current])
            length == RemainingContentLength(size, from)
        IN  /\ to_client' = Append(to_client, PayloadHead(current, length, size))
            /\ growing' = <<from, length + from>>
  BY DEF BeginGrowingFile
<1> DEFINE from   == From(current)
           length == RemainingContentLength(size, from)
           head   == PayloadHead(current, length, size)
           body   == <<>>
<1>2. Serving("order") /\ pc = "serving" /\ current \in 1..Len(requests) /\ current \in Nat
  BY CurrentType DEF BeginGrowingFile, Serving
<1>3. from \in 0..MaxSize
  BY <1>2, RequestType DEF From
<1>4. length \in 0..(Width - 1)
  BY <1>3, RemainingType
<1>5. to_client' = Append(to_client, head) /\ growing' = <<from, length + from>>
  BY <1>1, Zenon DEF From
<1>6. growing'[2] - growing'[1] = length /\ growing'[1] = From(current)
  <2> DEFINE l == length
             f == from
  <2>1. l \in Nat /\ f \in Nat /\ growing' = <<f, l + f>>
    BY <1>3, <1>4, <1>5, Widths
  <2> HIDE DEF l, f
  <2>2. growing'[2] - growing'[1] = l /\ growing'[1] = f
    BY <2>1
  <2> QED
    BY <2>2 DEF l, f
<1>7. head \in Items /\ body \in Seq(Items) /\ Len(body) = 0
  <2>1. size \in Nat
    BY Widths
  <2>2. head \in Heads
    BY <1>2, <1>4, <2>1, PayloadType
  <2> QED
    BY <2>2 DEF Items
<1>8. to_client' = to_client \o (<<PayloadHead(current, length, size)>> \o body)
  <2>1. to_client \in Seq(Items)
    BY DEF Typed
  <2>2. to_client' = Append(to_client, head)
    BY <1>5
  <2> HIDE DEF head
  <2>3. to_client' = to_client \o (<<head>> \o body)
    BY <1>7, <2>1, <2>2
  <2> QED
    BY <2>3 DEF head
<1>9. /\ pc' = "growing" /\ UNCHANGED replaced
      /\ UNCHANGED <<requests, to_server, buf, current, pending, answers, open, pipelined>>
  BY DEF BeginGrowingFile, Goes, clientVars
<1>10. body = <<>>
  OBVIOUS
<1>11. length = RemainingContentLength(size, From(current))
  OBVIOUS
<1> HIDE DEF head, body, length, from
<1>12. \A i \in 1..Len(body) : body[i] = ByteOf(current, i)
  BY <1>7
<1>13. \E h : Answering(h, body)
  BY <1>2, <1>4, <1>6, <1>7, <1>8, <1>9, <1>10, <1>11, <1>12, PayloadAnswer
<1> QED
  BY <1>13

LEMMA MetricsAnswer ==
    ASSUME Typed, ServeMetrics
    PROVE  \E head, body : Answering(head, body)
<1> DEFINE head == Reply(current, 200, 1, <<>>, 1)
           b    == Bytes(current, 0, 1)
           body == b \o b
<1>1. /\ pc = "serving" /\ pc' = "reading" /\ UNCHANGED replaced
      /\ requests[current].kind = "metrics"
      /\ to_client' = to_client \o (<<head>> \o b \o b)
      /\ UNCHANGED <<requests, to_server, buf, current, pending, answers, open, pipelined>>
  BY DEF ServeMetrics, Serving, Respond, Goes, clientVars
<1>2. current \in 1..Len(requests) /\ current \in Nat
  BY <1>1, CurrentType
<1>3. From(current) = 0
  <2>1. requests[current].from = NoRange
    BY <1>1, <1>2, RequestType
  <2> QED
    BY <2>1 DEF From, Offset
<1>4. head \in Heads /\ head \in Items /\ head.id = current /\ head.length = 1
  <2>1. 1 \in 0..(Width - 1) /\ <<>> \in Ranges /\ 200 \in Nat /\ 1 \in Nat
    BY Widths, Ranged
  <2>2. head \in Heads
    BY <1>2, <2>1, ReplyType
  <2> QED
    BY <2>2, ReplyFields DEF Items
<1>5. /\ b \in Seq(Items) /\ Len(b) = 1 /\ b[1] = ByteOf(current, 1)
  <2>1. /\ b \in Seq(Items) /\ Len(b) = IF 1 > 0 THEN 1 - 0 ELSE 0
    BY <1>2, BytesType
  <2>2. \A i \in 1..Len(b) : b[i] = ByteOf(current, 0 - From(current) + i)
    BY <1>2, <1>3, BodyFromStart
  <2> HIDE DEF b
  <2>3. b[1] = ByteOf(current, 0 - 0 + 1)
    BY <1>3, <2>1, <2>2
  <2> QED
    BY <2>1, <2>3
<1>6. Promises(head)
  BY <1>1, <1>4 DEF Promises
<1> HIDE DEF head, b
<1>7. body \in Seq(Items) /\ Len(body) = 2 /\ body[1] = b[1] /\ body[2] = b[1]
  <2> DEFINE S == Items
  <2>1. b \in Seq(S) /\ Len(b) = 1
    BY <1>5
  <2> HIDE DEF S
  <2>2. /\ body \in Seq(S) /\ Len(body) = Len(b) + Len(b)
        /\ \A i \in 1..Len(b) : body[i] = b[i]
        /\ \A i \in 1..Len(b) : body[Len(b) + i] = b[i]
    BY <2>1, Joined
  <2> HIDE DEF body
  <2>3. Len(body) = 2 /\ body[1] = b[1] /\ body[1 + 1] = b[1]
    BY <2>1, <2>2
  <2> QED
    BY <2>2, <2>3 DEF S, body
<1>8. to_client' = to_client \o (<<head>> \o body)
  <2> DEFINE S == Items
             h == <<head>>
  <2>1. h \in Seq(S) /\ b \in Seq(S)
    BY <1>4, <1>5
  <2> HIDE DEF S, h
  <2>2. (h \o b) \o b = h \o (b \o b)
    BY <2>1
  <2> QED
    BY <1>1, <2>2, Zenon DEF h
<1> HIDE DEF body
<1>9. \A i \in 1..Len(body) : body[i] = ByteOf(current, 1) /\ (i <= 1 => i = 1)
  BY <1>5, <1>7
<1>10. \A i \in 1..Len(body) : ~IsHead(body[i]) /\ body[i].id = current
  BY <1>9, ByteFields
<1>11. /\ Len(Stream') = Len(Stream) + 1 + Len(body)
       /\ \A i \in 1..Len(Stream) : Stream'[i] = Stream[i]
       /\ Stream'[Len(Stream) + 1] = head
       /\ \A i \in 1..Len(body) : Stream'[Len(Stream) + 1 + i] = body[i]
  BY <1>1, <1>4, <1>7, <1>8, HeadThenBody
<1>12. Answering(head, body)
  BY <1>1, <1>4, <1>6, <1>7, <1>9, <1>10, <1>11 DEF Answering
<1> QED
  BY <1>12

LEMMA AnswerEffect ==
    ASSUME Typed,
           RespondWithoutBody \/ ServeMetrics \/ Redirect \/ ServeFromCompleteFile \/ BeginGrowingFile
    PROVE  \E head, body : Answering(head, body)
<1>1. CASE RespondWithoutBody
  <2>1. PICK kind \in {"forbidden", "invalid", "empty", "order"} :
           \E status \in StatusOf(kind) :
              Serving(kind) /\ Respond(<<Reply(current, status, 0, <<>>, 0)>>)
    BY <1>1 DEF RespondWithoutBody
  <2>2. PICK status \in StatusOf(kind) :
           Serving(kind) /\ Respond(<<Reply(current, status, 0, <<>>, 0)>>)
    BY <2>1
  <2>3. status \in Nat /\ (kind = "order" => status \notin {200, 206})
    BY DEF StatusOf
  <2>4. pc = "serving" /\ requests[current].kind = kind /\ UNCHANGED replaced
    BY <1>1, <2>2 DEF Serving, RespondWithoutBody
  <2>5. requests[current].kind # "order" \/ status \notin {200, 206}
    BY <2>3, <2>4
  <2>6. Respond(<<Reply(current, status, 0, <<>>, 0)>>)
    BY <2>2
  <2> QED
    BY <2>3, <2>4, <2>5, <2>6, BareAnswer
<1>2. CASE Redirect
  <2>1. pc = "serving" /\ Respond(<<Reply(current, 301, 0, <<>>, 0)>>) /\ UNCHANGED replaced
    BY <1>2 DEF Redirect, Serving
  <2>2. 301 \in Nat /\ 301 \notin {200, 206}
    OBVIOUS
  <2> QED
    BY <2>1, <2>2, BareAnswer
<1> QED
  BY <1>1, <1>2, MetricsAnswer, CompleteFileAnswer, GrowingFileAnswer

-----------------------------------------------------------------------------
(* That each step keeps the invariants of the stream. *)

\* What has been requested does not change, nor does what has happened once.
History ==
    /\ Len(requests) \in Nat /\ Len(requests') \in Nat /\ Len(requests') >= Len(requests)
    /\ \A id \in 1..Len(requests) : requests'[id] = requests[id]
    /\ pipelined => pipelined'
    /\ replaced => replaced'

LEMMA StepHistory ==
    ASSUME Typed, UNCHANGED <<requests, pipelined>>, replaced => replaced'
    PROVE  History
BY DEF Typed, History

LEMMA Stable ==
    ASSUME NEW id \in 1..Len(requests), History
    PROVE  /\ From(id)' = From(id)
           /\ \A n : ByteOf(id, n)' = ByteOf(id, n)
           /\ \A x : x.id = id /\ Promises(x) => Promises(x)'
<1>1. requests'[id] = requests[id]
  BY DEF History
<1>2. From(id)' = From(id)
  BY <1>1 DEF From, Offset
<1>3. ASSUME NEW n PROVE ByteOf(id, n)' = ByteOf(id, n)
  BY <1>2 DEF ByteOf
<1>4. ASSUME NEW x, x.id = id, Promises(x) PROVE Promises(x)'
  BY <1>1, <1>2, <1>4 DEF Promises
<1> QED
  BY <1>2, <1>3, <1>4

LEMMA ServedType ==
    ASSUME Typed
    PROVE  /\ Served \in Nat /\ Served <= current /\ current <= Len(requests)
           /\ current \in Nat /\ Len(requests) \in Nat /\ Len(answers) \in Nat
BY DEF Typed, Served

LEMMA AnswerIds ==
    ASSUME Typed, AnswersInv, NEW k \in 1..Len(answers)
    PROVE  IdOf(k) \in Nat /\ IdOf(k) >= k /\ IdOf(k) <= Len(requests)
<1>1. IdOf(k) \in k..Len(requests)
  BY DEF AnswersInv, AnswerOf
<1>2. k \in Nat /\ Len(requests) \in Nat
  BY ServedType
<1> QED
  BY <1>1, <1>2

\* The responses that the client has received stay what they are.
LEMMA AnswersKept ==
    ASSUME Typed, AnswersInv, History, UNCHANGED answers
    PROVE  AnswersInv'
<1> SUFFICES ASSUME NEW k \in 1..Len(answers) PROVE AnswerOf(k)'
  BY DEF AnswersInv
<1>1. AnswerOf(k)
  BY DEF AnswersInv
<1> PICK a, id : a = answers[k] /\ id = IdOf(k)
  OBVIOUS
<1>2. id \in Nat /\ id >= k /\ id <= Len(requests) /\ k \in Nat /\ k >= 1
  BY AnswerIds, ServedType
<1>3. id \in 1..Len(requests) /\ id \in k..Len(requests')
  BY <1>2 DEF History
<1>4. /\ answers'[k] = a /\ answers' = answers
      /\ IdOf(k)' = id /\ (k > 1 => IdOf(k - 1)' < IdOf(k)')
  BY <1>1 DEF IdOf, AnswerOf
<1>5. ~replaced' => Promises(a[1])'
  <2>1. a[1].id = id
    BY DEF IdOf
  <2>2. ~replaced' => Promises(a[1])
    BY <1>1 DEF History, AnswerOf
  <2> QED
    BY <1>3, <2>1, <2>2, Stable
<1>6. ~(pipelined' /\ replaced') => \A i \in 2..Len(a) : a[i] = ByteOf(id, i - 1)'
  <2>1. ~(pipelined' /\ replaced') => \A i \in 2..Len(a) : a[i] = ByteOf(id, i - 1)
    BY <1>1 DEF History, AnswerOf
  <2> QED
    BY <1>3, <2>1, Stable
<1>7. ~pipelined' => id = k
  BY <1>1 DEF AnswerOf, History
<1>8. a # <<>> /\ IsHead(a[1]) /\ Len(a) = 1 + a[1].length
  BY <1>1 DEF AnswerOf
<1> QED
  BY <1>3, <1>4, <1>5, <1>6, <1>7, <1>8 DEF AnswerOf

\* A response goes behind those to earlier requests.
LEMMA AnsweringKeeps ==
    ASSUME Typed, UnreadInv, StreamInv, AnswersInv, open,
           NEW head, NEW body, Answering(head, body)
    PROVE  StreamInv'
<1> DEFINE L == Len(Stream)
           B == Len(body)
<1>1. /\ IdsInv /\ ResponseInv /\ HeadInv /\ AloneInv
      /\ current \in 1..Len(requests) /\ pc = "serving" /\ Served = current - 1
      /\ current \in Nat /\ Len(requests) \in Nat
  <2>1. pc = "serving"
    BY DEF Answering
  <2> QED
    BY <2>1, CurrentType, ServedType DEF StreamInv, Served
<1>2. /\ L \in Nat /\ B \in Nat
      /\ \A i \in 1..L : Stream[i].id \in Nat /\ (IsHead(Stream[i]) => Stream[i].length \in Nat)
  BY StreamTypes DEF Answering
<1>3. /\ IsHead(head) /\ head.id = current /\ head.length \in Nat
  BY Widths DEF Answering, Heads, IsHead
<1>4. /\ Len(Stream') = L + 1 + B
      /\ \A i \in 1..L : Stream'[i] = Stream[i]
      /\ Stream'[L + 1] = head
      /\ \A i \in 1..B : Stream'[L + 1 + i] = body[i]
  BY DEF Answering
<1>5. /\ pc' \in {"reading", "growing"} /\ (replaced => replaced')
      /\ UNCHANGED <<requests, to_server, buf, current, pending, answers, open, pipelined>>
  BY DEF Answering
<1>6. History
  BY <1>5, StepHistory
<1>7. Served' = current
  BY <1>5 DEF Served
<1> HIDE DEF L, B
<1>8. \A i \in 1..Len(Stream') :
         \/ i \in 1..L /\ Stream'[i] = Stream[i] /\ Stream'[i].id <= current - 1
         \/ i = L + 1 /\ Stream'[i] = head
         \/ i > L + 1 /\ i - L - 1 \in 1..B /\ Stream'[i] = body[i - L - 1]
  <2> SUFFICES ASSUME NEW i \in 1..Len(Stream')
               PROVE  \/ i \in 1..L /\ Stream'[i] = Stream[i] /\ Stream'[i].id <= current - 1
                      \/ i = L + 1 /\ Stream'[i] = head
                      \/ i > L + 1 /\ i - L - 1 \in 1..B /\ Stream'[i] = body[i - L - 1]
    OBVIOUS
  <2>1. i \in Nat /\ i >= 1 /\ i <= L + 1 + B
    BY <1>2, <1>4
  <2>2. CASE i <= L
    BY <1>1, <1>2, <1>4, <2>1, <2>2 DEF IdsInv, L
  <2>3. CASE i = L + 1
    BY <1>4, <2>3
  <2>4. CASE i > L + 1
    <3>1. i - L - 1 \in 1..B /\ L + 1 + (i - L - 1) = i
      BY <1>2, <2>1, <2>4
    <3> QED
      BY <1>4, <2>4, <3>1
  <2> QED
    BY <1>2, <2>1, <2>2, <2>3, <2>4
<1>9. \A i \in 1..B : ~IsHead(body[i]) /\ body[i].id = current
  BY DEF Answering, B
<1>10. \A i \in 1..Len(Stream') :
          /\ Stream'[i].id <= current /\ Stream'[i].id \in 1..Len(requests)
          /\ i > L => Stream'[i].id = current
          /\ i > L /\ IsHead(Stream'[i]) => i = L + 1
  <2> SUFFICES ASSUME NEW i \in 1..Len(Stream')
               PROVE  /\ Stream'[i].id <= current /\ Stream'[i].id \in 1..Len(requests)
                      /\ i > L => Stream'[i].id = current
                      /\ i > L /\ IsHead(Stream'[i]) => i = L + 1
    OBVIOUS
  <2>1. CASE i \in 1..L /\ Stream'[i] = Stream[i] /\ Stream'[i].id <= current - 1
    <3>1. Stream'[i].id \in 1..Len(requests)
      BY <1>1, <2>1 DEF IdsInv, L
    <3> QED
      BY <1>1, <1>2, <2>1, <3>1
  <2>2. CASE i = L + 1 /\ Stream'[i] = head
    BY <1>1, <1>2, <1>3, <2>2
  <2>3. CASE i > L + 1 /\ i - L - 1 \in 1..B /\ Stream'[i] = body[i - L - 1]
    BY <1>1, <1>9, <2>3
  <2> QED
    BY <1>8, <2>1, <2>2, <2>3
<1>11. IdsInv'
  <2>1. \A i \in 1..Len(Stream') :
           Stream'[i].id \in 1..Len(requests') /\ (pc' # "closed" => Stream'[i].id <= Served')
    BY <1>5, <1>7, <1>10
  <2>2. ASSUME NEW i \in 1..Len(Stream'), NEW j \in 1..Len(Stream'), i < j
        PROVE  After(Stream'[i].id, Stream'[j])
    <3>1. CASE j <= L
      <4>1. i \in 1..L /\ j \in 1..L /\ Stream'[i] = Stream[i] /\ Stream'[j] = Stream[j]
        BY <1>2, <1>4, <2>2, <3>1
      <4> QED
        BY <1>1, <2>2, <4>1 DEF IdsInv, L
    <3>2. CASE j > L /\ i <= L
      <4>1. Stream'[j].id = current /\ Stream'[i].id <= current - 1 /\ Stream'[i].id \in Nat
        BY <1>2, <1>8, <1>10, <3>2
      <4> QED
        BY <1>1, <4>1 DEF After
    <3>3. CASE i > L
      <4>1. j > L + 1 /\ j > L /\ j # L + 1
        BY <1>2, <2>2, <3>3
      <4>2. Stream'[i].id = current /\ Stream'[j].id = current /\ ~IsHead(Stream'[j])
        BY <1>10, <3>3, <4>1
      <4> QED
        BY <1>1, <4>2 DEF After
    <3> QED
      BY <1>2, <3>1, <3>2, <3>3
  <2>3. ASSUME NEW k \in 1..Len(answers)
        PROVE  /\ IdOf(k) <= current
               /\ \A i \in 1..Len(Stream') : After(IdOf(k), Stream'[i])
    <3>1. IdOf(k) <= current - 1 /\ \A i \in 1..L : After(IdOf(k), Stream[i])
      BY <1>1, <2>3 DEF IdsInv, L
    <3>2. IdOf(k) \in Nat
      BY <2>3, AnswerIds
    <3>3. ASSUME NEW i \in 1..Len(Stream') PROVE After(IdOf(k), Stream'[i])
      <4>1. CASE i <= L
        BY <1>8, <3>1, <3>3, <4>1, <1>2
      <4>2. CASE i > L
        <5>1. Stream'[i].id = current
          BY <1>10, <3>3, <4>2
        <5> QED
          BY <1>1, <3>1, <3>2, <5>1 DEF After
      <4> QED
        BY <1>2, <4>1, <4>2
    <3> QED
      BY <1>1, <3>1, <3>2, <3>3
  <2> QED
    BY <1>5, <1>7, <2>1, <2>2, <2>3 DEF IdsInv, IdOf
<1>12. ResponseInv'
  <2> SUFFICES ASSUME ~(pipelined' /\ replaced'), NEW h \in 1..Len(Stream'), IsHead(Stream'[h])
               PROVE  ResponseOf(h)'
    BY DEF ResponseInv, IsHead
  <2>1. h \in Nat /\ ~(pipelined /\ replaced)
    BY <1>5
  <2>2. CASE h <= L
    <3> PICK id, length : id = Stream[h].id /\ length = Stream[h].length
      OBVIOUS
    <3>1. /\ h \in 1..L /\ Stream'[h] = Stream[h] /\ IsHead(Stream[h]) /\ id <= current - 1
          /\ id \in 1..Len(requests) /\ length \in Nat
      BY <1>2, <1>4, <1>8, <1>10, <2>1, <2>2
    <3>2. /\ \A i \in (h + 1)..L : i <= h + length => Stream[i] = ByteOf(id, i - h)
          /\ h + length > L => replaced
      BY <1>1, <2>1, <3>1 DEF ResponseInv, ResponseOf, L
    <3>3. h + length <= L
      <4>1. ~replaced
        BY <1>1, <2>1, <3>1 DEF AloneInv, L
      <4> QED
        BY <1>2, <2>1, <3>1, <3>2, <4>1
    <3>4. \A i \in (h + 1)..Len(Stream') : i <= h + length => Stream'[i] = ByteOf(id, i - h)'
      <4>1. \A n : ByteOf(id, n)' = ByteOf(id, n)
        BY <1>6, <3>1, Stable
      <4>2. \A i \in (h + 1)..Len(Stream') : i <= h + length => i \in (h + 1)..L /\ i \in 1..L
        BY <1>2, <1>4, <2>1, <3>1, <3>3
      <4> QED
        BY <1>4, <3>2, <4>1, <4>2
    <3>5. ~(h + length > Len(Stream')) /\ id # current'
      BY <1>1, <1>2, <1>4, <1>5, <2>1, <3>1, <3>3
    <3> QED
      BY <3>1, <3>4, <3>5 DEF ResponseOf
  <2>3. CASE h > L
    <3>1. h = L + 1 /\ Stream'[h] = head
      BY <1>4, <1>10, <2>3
    <3>2. \A i \in (h + 1)..Len(Stream') :
             i <= h + head.length => Stream'[i] = ByteOf(current, i - h)
      <4> SUFFICES ASSUME NEW i \in (h + 1)..Len(Stream'), i <= h + head.length
                   PROVE  Stream'[i] = ByteOf(current, i - h)
        OBVIOUS
      <4>1. i - h \in 1..B /\ i - h <= head.length /\ L + 1 + (i - h) = i
        BY <1>2, <1>3, <1>4, <3>1
      <4>2. Stream'[L + 1 + (i - h)] = body[i - h] /\ body[i - h] = ByteOf(current, i - h)
        BY <1>4, <4>1 DEF Answering, B
      <4> QED
        BY <4>1, <4>2
    <3>3. \A n : ByteOf(current, n)' = ByteOf(current, n)
      BY <1>5 DEF ByteOf, From, Offset
    <3>4. h + head.length > Len(Stream') => replaced' \/ pc' = "growing"
      <4>1. h + head.length > Len(Stream') => head.length > B
        BY <1>2, <1>3, <1>4, <3>1
      <4> QED
        BY <4>1 DEF Answering, B
    <3>5. pc' = "growing" => /\ growing'[2] - growing'[1] = (h + head.length) - Len(Stream')
                             /\ growing'[1] = From(current) + Len(Stream') - h
      <4> SUFFICES ASSUME pc' = "growing"
                   PROVE  /\ growing'[2] - growing'[1] = (h + head.length) - Len(Stream')
                          /\ growing'[1] = From(current) + Len(Stream') - h
        OBVIOUS
      <4>1. body = <<>> /\ growing'[2] - growing'[1] = head.length /\ growing'[1] = From(current)
        BY DEF Answering
      <4>2. B = 0 /\ Len(Stream') = h
        BY <1>2, <1>4, <3>1, <4>1 DEF B
      <4>3. From(current) \in Nat
        BY <1>1, RequestType, Widths DEF From
      <4> QED
        BY <1>2, <1>3, <3>1, <4>1, <4>2, <4>3
    <3>6. From(current)' = From(current) /\ current' = current
      BY <1>5 DEF From, Offset
    <3> QED
      BY <1>3, <3>1, <3>2, <3>3, <3>4, <3>5, <3>6 DEF ResponseOf
  <2> QED
    BY <1>2, <2>1, <2>2, <2>3
<1>13. HeadInv'
  <2> SUFFICES ASSUME ~replaced', NEW h \in 1..Len(Stream'), NEW x, x = Stream'[h], IsHead(x)
               PROVE  Promises(x)'
    BY DEF HeadInv, IsHead
  <2>1. CASE h <= L
    <3>1. x = Stream[h] /\ h \in 1..Len(Stream)
      BY <1>2, <1>4, <2>1 DEF L
    <3>2. Promises(x)
      BY <1>1, <1>5, <3>1 DEF HeadInv
    <3>3. x.id \in 1..Len(requests)
      BY <1>1, <3>1 DEF IdsInv
    <3> QED
      BY <1>6, <3>2, <3>3, Stable
  <2>2. CASE h > L
    <3>1. x = head
      BY <1>4, <1>10, <2>2
    <3>2. Promises(x) /\ x.id \in 1..Len(requests)
      BY <1>1, <1>3, <3>1 DEF Answering
    <3> QED
      BY <1>6, <3>2, Stable
  <2> QED
    BY <1>2, <2>1, <2>2
<1>14. AloneInv'
  <2> SUFFICES ASSUME ~pipelined' PROVE AloneInv'
    BY DEF AloneInv
  <2>1. /\ Len(requests) <= Len(answers) + 1 /\ LastRequest /\ Unread = <<>>
        /\ current = Len(requests)
        /\ \A h \in 1..L : ~IsHead(Stream[h])
    BY <1>1, <1>5 DEF AloneInv, L
  <2>2. Unread' = <<>> /\ LastRequest'
    BY <1>5, <2>1 DEF Unread, LastRequest
  <2>3. \A i \in 1..Len(Stream') : IsHead(Stream'[i]) => i = L + 1 /\ Stream'[i].id = current
    BY <1>2, <1>3, <1>8, <1>10, <2>1
  <2> QED
    BY <1>5, <2>1, <2>2, <2>3 DEF AloneInv, IsHead
<1> QED
  BY <1>11, <1>12, <1>13, <1>14 DEF StreamInv

\* n more bytes of a growing file go behind the head, or what is sent of its body.
Grown(n) ==
    /\ n > 0 /\ Len(Stream') = Len(Stream) + n
    /\ \A i \in 1..Len(Stream) : Stream'[i] = Stream[i]
    /\ growing[1] >= From(current) =>
          \A i \in 1..n : Stream'[Len(Stream) + i] = ByteOf(current, growing[1] - From(current) + i)
    /\ \A i \in 1..n : /\ Stream'[Len(Stream) + i].id = current
                       /\ ~IsHead(Stream'[Len(Stream) + i])
    /\ growing'[1] = growing[1] + n /\ growing'[2] = growing[2]

LEMMA GrowthEffect ==
    ASSUME Typed, SendFromGrowingFile
    PROVE  \E n \in Nat : Grown(n)
<1>1. PICK filesize \in (growing[1] + 1)..MaxSize :
        /\ to_client' = to_client \o Bytes(current, growing[1], filesize)
        /\ growing' = [growing EXCEPT ![1] = filesize]
  BY DEF SendFromGrowingFile
<1> DEFINE from == growing[1]
           body == Bytes(current, from, filesize)
           n    == filesize - from
<1>2. /\ pc = "growing" /\ current \in 1..Len(requests) /\ current \in Nat
      /\ UNCHANGED pending
  BY CurrentType DEF SendFromGrowingFile, clientVars
<1>3. from \in Nat /\ filesize \in Nat /\ n \in Nat /\ n > 0 /\ filesize > from
  BY GrowingType, Widths
<1>4. growing'[1] = from + n /\ growing'[2] = growing[2]
  <2> DEFINE a == growing[1]  b == growing[2]
  <2>1. growing = <<a, b>>
    BY GrowingType
  <2> HIDE DEF a, b
  <2>2. growing' = <<filesize, b>>
    BY <1>1, <2>1
  <2>3. growing'[1] = filesize /\ growing'[2] = b
    BY <2>2
  <2> QED
    BY <1>3, <2>3 DEF b
<1>5. /\ body \in Seq(Items) /\ Len(body) = n
      /\ \A i \in 1..n : body[i] = [type |-> "byte", id |-> current, at |-> from + i - 1]
  BY <1>2, <1>3, BytesType
<1>6. from >= From(current) =>
        \A i \in 1..Len(body) : body[i] = ByteOf(current, from - From(current) + i)
  BY <1>2, <1>3, BodyFromStart
<1>7. to_client' = to_client \o body
  BY <1>1
<1> HIDE DEF body, n, from
<1>8. Extends(body)
  BY <1>2, <1>5, <1>7, WrittenExtends
<1>9. \A i \in 1..n : body[i].id = current /\ ~IsHead(body[i])
  BY <1>5 DEF IsHead
<1>10. /\ Len(Stream') = Len(Stream) + n
       /\ \A i \in 1..Len(Stream) : Stream'[i] = Stream[i]
       /\ \A i \in 1..n : Stream'[Len(Stream) + i] = body[i]
  BY <1>5, <1>8 DEF Extends
<1>11. from >= From(current) =>
         \A i \in 1..n : Stream'[Len(Stream) + i] = ByteOf(current, from - From(current) + i)
  BY <1>5, <1>6, <1>10
<1>12. Grown(n)
  BY <1>3, <1>4, <1>9, <1>10, <1>11 DEF Grown, from
<1> QED
  BY <1>3, <1>12

LEMMA GrowthKeeps ==
    ASSUME Typed, UnreadInv, StreamInv, AnswersInv, open, SendFromGrowingFile
    PROVE  StreamInv'
<1> DEFINE L == Len(Stream)
<1>1. /\ IdsInv /\ ResponseInv /\ HeadInv /\ AloneInv
      /\ current \in 1..Len(requests) /\ pc = "growing" /\ Served = current
      /\ current \in Nat /\ Len(requests) \in Nat
      /\ UNCHANGED <<buf, pc, current, requests, pending, answers, open, pipelined, to_server, replaced>>
  BY CurrentType, ServedType DEF StreamInv, Served, SendFromGrowingFile, clientVars
<1>2. /\ L \in Nat
      /\ \A i \in 1..L : Stream[i].id \in Nat /\ (IsHead(Stream[i]) => Stream[i].length \in Nat)
  BY StreamTypes
<1>3. PICK n \in Nat : Grown(n)
  BY GrowthEffect
<1>4. /\ n > 0 /\ Len(Stream') = L + n
      /\ \A i \in 1..L : Stream'[i] = Stream[i]
      /\ \A i \in 1..n : Stream'[L + i].id = current /\ ~IsHead(Stream'[L + i])
  BY <1>3 DEF Grown
<1>5. History /\ Served' = current
  BY <1>1, StepHistory DEF Served
<1>6. growing[1] \in Nat /\ growing[2] \in Nat /\ From(current) \in Nat
  BY <1>1, GrowingType, RequestType, Widths DEF From
<1> HIDE DEF L
<1>7. \A i \in 1..Len(Stream') :
         \/ i \in 1..L /\ Stream'[i] = Stream[i]
         \/ i > L /\ Stream'[i].id = current /\ ~IsHead(Stream'[i])
  <2> SUFFICES ASSUME NEW i \in 1..Len(Stream'), i > L
               PROVE  Stream'[i].id = current /\ ~IsHead(Stream'[i])
    BY <1>2, <1>4
  <2>1. i - L \in 1..n /\ L + (i - L) = i
    BY <1>2, <1>4
  <2> QED
    BY <1>4, <2>1
<1>8. IdsInv'
  <2>1. \A i \in 1..Len(Stream') :
           Stream'[i].id \in 1..Len(requests') /\ (pc' # "closed" => Stream'[i].id <= Served')
    BY <1>1, <1>5, <1>7 DEF IdsInv, L
  <2>2. ASSUME NEW i \in 1..Len(Stream'), NEW j \in 1..Len(Stream'), i < j
        PROVE  After(Stream'[i].id, Stream'[j])
    <3>1. CASE j <= L
      <4>1. i \in 1..L /\ j \in 1..L /\ Stream'[i] = Stream[i] /\ Stream'[j] = Stream[j]
        BY <1>2, <1>4, <2>2, <3>1
      <4> QED
        BY <1>1, <2>2, <4>1 DEF IdsInv, L
    <3>2. CASE j > L
      <4>1. Stream'[j].id = current /\ ~IsHead(Stream'[j])
        BY <1>2, <1>7, <3>2
      <4>2. Stream'[i].id <= current
        BY <1>1, <1>5, <2>1
      <4> QED
        BY <4>1, <4>2 DEF After
    <3> QED
      BY <1>2, <3>1, <3>2
  <2>3. ASSUME NEW k \in 1..Len(answers)
        PROVE  /\ IdOf(k) <= current
               /\ \A i \in 1..Len(Stream') : After(IdOf(k), Stream'[i])
    <3>1. IdOf(k) <= current /\ \A i \in 1..L : After(IdOf(k), Stream[i])
      BY <1>1, <2>3 DEF IdsInv, L
    <3> QED
      BY <1>7, <3>1 DEF After
  <2> QED
    BY <1>1, <1>5, <2>1, <2>2, <2>3 DEF IdsInv, IdOf
<1>9. ResponseInv'
  <2> SUFFICES ASSUME ~(pipelined' /\ replaced'), NEW h \in 1..Len(Stream'), IsHead(Stream'[h])
               PROVE  ResponseOf(h)'
    BY DEF ResponseInv, IsHead
  <2> PICK id, length : id = Stream[h].id /\ length = Stream[h].length
    OBVIOUS
  <2>1. /\ h \in 1..L /\ h \in Nat /\ Stream'[h] = Stream[h] /\ IsHead(Stream[h])
        /\ ~(pipelined /\ replaced)
    BY <1>1, <1>7
  <2>2. id \in 1..Len(requests) /\ id <= current /\ length \in Nat
    BY <1>1, <1>2, <2>1 DEF IdsInv, L
  <2>3. /\ \A i \in (h + 1)..L : i <= h + length => Stream[i] = ByteOf(id, i - h)
        /\ h + length > L => replaced \/ id = current
        /\ id = current => /\ growing[2] - growing[1] = (h + length) - L
                           /\ growing[1] = From(id) + L - h
    BY <1>1, <2>1 DEF ResponseInv, ResponseOf, L
  <2>4. h + length > L => id = current
    <3>1. replaced => id = Len(requests)
      BY <1>1, <2>1 DEF AloneInv, L
    <3> QED
      BY <1>1, <2>2, <2>3, <3>1
  <2>5. \A i \in (h + 1)..Len(Stream') : i <= h + length => Stream'[i] = ByteOf(id, i - h)
    <3> SUFFICES ASSUME NEW i \in (h + 1)..Len(Stream'), i <= h + length
                 PROVE  Stream'[i] = ByteOf(id, i - h)
      OBVIOUS
    <3>1. CASE i <= L
      <4>1. i \in (h + 1)..L /\ i \in 1..L
        BY <1>2, <2>1, <3>1
      <4> QED
        BY <1>4, <2>3, <4>1
    <3>2. CASE i > L
      <4>1. id = current
        BY <1>2, <2>1, <2>2, <2>4, <3>2
      <4>2. growing[1] = From(current) + L - h
        BY <2>3, <4>1
      <4>3. growing[1] >= From(current) /\ growing[1] - From(current) = L - h
        BY <1>2, <1>6, <2>1, <4>2
      <4>4. i - L \in 1..n /\ L + (i - L) = i /\ (L - h) + (i - L) = i - h
        BY <1>2, <1>4, <2>1, <3>2
      <4>5. Stream'[L + (i - L)] = ByteOf(current, growing[1] - From(current) + (i - L))
        BY <1>3, <4>3, <4>4 DEF Grown, L
      <4> QED
        BY <4>1, <4>3, <4>4, <4>5
    <3> QED
      BY <1>2, <2>1, <3>1, <3>2
  <2>6. h + length > Len(Stream') => id = current'
    BY <1>1, <1>2, <1>4, <2>1, <2>2, <2>4
  <2>7. id = current' => /\ growing'[2] - growing'[1] = (h + length) - Len(Stream')
                         /\ growing'[1] = From(id) + Len(Stream') - h
    <3> SUFFICES ASSUME id = current
                 PROVE  /\ growing'[2] - growing'[1] = (h + length) - (L + n)
                        /\ growing'[1] = From(current) + (L + n) - h
      BY <1>1, <1>4
    <3>1. growing'[1] = growing[1] + n /\ growing'[2] = growing[2]
      BY <1>3 DEF Grown
    <3>2. growing[2] - growing[1] = (h + length) - L /\ growing[1] = From(current) + L - h
      BY <2>3
    <3>3. L \in Nat /\ h \in Nat /\ length \in Nat
      BY <1>2, <2>1, <2>2
    <3> PICK a \in Nat, b \in Nat, f \in Nat :
           a = growing[1] /\ b = growing[2] /\ f = From(current)
      BY <1>6
    <3> PICK l \in Nat, p \in Nat, q \in Nat : l = L /\ p = h /\ q = length
      BY <3>3
    <3>4. b - a = (p + q) - l /\ a = f + l - p
      BY <3>2
    <3>5. b - (a + n) = (p + q) - (l + n)
      <4>1. b - (a + n) = (b - a) - n
        OBVIOUS
      <4>2. (p + q) - (l + n) = ((p + q) - l) - n
        OBVIOUS
      <4> QED
        BY <3>4, <4>1, <4>2
    <3>6. a + n = f + (l + n) - p
      <4>1. f + (l + n) - p = (f + l - p) + n
        OBVIOUS
      <4> QED
        BY <3>4, <4>1
    <3> QED
      BY <3>1, <3>5, <3>6
  <2>8. From(id)' = From(id) /\ \A m : ByteOf(id, m)' = ByteOf(id, m)
    BY <1>5, <2>2, Stable
  <2> QED
    BY <1>1, <2>1, <2>5, <2>6, <2>7, <2>8 DEF ResponseOf
<1>10. HeadInv'
  <2> SUFFICES ASSUME ~replaced', NEW h \in 1..Len(Stream'), NEW x, x = Stream'[h], IsHead(x)
               PROVE  Promises(x)'
    BY DEF HeadInv, IsHead
  <2>1. x = Stream[h] /\ h \in 1..Len(Stream)
    BY <1>7 DEF L
  <2>2. Promises(x) /\ x.id \in 1..Len(requests)
    BY <1>1, <2>1 DEF HeadInv, IdsInv
  <2> QED
    BY <1>5, <2>2, Stable
<1>11. AloneInv'
  <2> SUFFICES ASSUME ~pipelined' PROVE AloneInv'
    BY DEF AloneInv
  <2>1. \A i \in 1..Len(Stream') : IsHead(Stream'[i]) => i \in 1..L /\ Stream'[i] = Stream[i]
    BY <1>7
  <2>2. Unread' = Unread /\ LastRequest' = LastRequest
    BY <1>1 DEF Unread, LastRequest
  <2> QED
    BY <1>1, <2>1, <2>2 DEF AloneInv, IsHead, L
<1> QED
  BY <1>8, <1>9, <1>10, <1>11 DEF StreamInv

\* Steps that neither write nor receive a response.
LEMMA SameStream ==
    ASSUME Typed, Typed', StreamInv, AnswersInv, open, History, Stream' = Stream, UNCHANGED answers,
           pc' # "closed" => pc # "closed" /\ Served' >= Served,
           pc' = "growing" => pc = "growing" /\ UNCHANGED <<growing, current>>,
           pc = "growing" => pc' \in {"growing", "closed"} \/ growing[1] >= growing[2]
    PROVE  IdsInv' /\ ResponseInv' /\ HeadInv'
<1> DEFINE L == Len(Stream)
<1>1. /\ IdsInv /\ ResponseInv /\ HeadInv
      /\ Len(requests) \in Nat /\ Len(requests') \in Nat /\ Len(requests') >= Len(requests)
  BY DEF StreamInv, History
<1>2. /\ L \in Nat
      /\ \A i \in 1..L : Stream[i].id \in Nat /\ (IsHead(Stream[i]) => Stream[i].length \in Nat)
  BY StreamTypes
<1>3. Stream' = Stream /\ Len(Stream') = L /\ answers' = answers
  OBVIOUS
<1> HIDE DEF L
<1>4. IdsInv'
  <2>1. Served \in Nat /\ Served' \in Int
    <3>1. current' \in Int
      BY <1>1 DEF Typed
    <3> QED
      BY <3>1, ServedType DEF Served
  <2>2. \A i \in 1..L :
           /\ Stream'[i].id \in 1..Len(requests')
           /\ pc' # "closed" => Stream'[i].id <= Served'
    BY <1>1, <1>2, <1>3, <2>1 DEF IdsInv, L
  <2>3. \A i, j \in 1..L : i < j => After(Stream'[i].id, Stream'[j])
    BY <1>1, <1>3 DEF IdsInv, L
  <2>4. ASSUME NEW k \in 1..Len(answers)
        PROVE  /\ pc' # "closed" => IdOf(k) <= Served'
               /\ \A i \in 1..L : After(IdOf(k), Stream'[i])
    <3>1. IdOf(k) \in Nat
      BY <2>4, AnswerIds
    <3> QED
      BY <1>1, <1>3, <2>1, <2>4, <3>1 DEF IdsInv, L
  <2>5. \A k : IdOf(k)' = IdOf(k)
    BY <1>3 DEF IdOf
  <2> QED
    BY <1>3, <2>2, <2>3, <2>4, <2>5 DEF IdsInv
<1>5. ResponseInv'
  <2> SUFFICES ASSUME ~(pipelined' /\ replaced'), NEW h \in 1..Len(Stream'), IsHead(Stream'[h])
               PROVE  ResponseOf(h)'
    BY DEF ResponseInv, IsHead
  <2> PICK id, length : id = Stream[h].id /\ length = Stream[h].length
    OBVIOUS
  <2>1. /\ h \in 1..L /\ h \in Nat /\ Stream'[h] = Stream[h] /\ IsHead(Stream[h])
        /\ ~(pipelined /\ replaced)
    BY <1>3 DEF History
  <2>2. id \in 1..Len(requests) /\ length \in Nat
    BY <1>1, <1>2, <2>1 DEF IdsInv, L
  <2>3. /\ \A i \in (h + 1)..L : i <= h + length => Stream[i] = ByteOf(id, i - h)
        /\ h + length > L => replaced \/ pc = "closed" \/ (pc = "growing" /\ id = current)
        /\ pc = "growing" /\ id = current => /\ growing[2] - growing[1] = (h + length) - L
                                             /\ growing[1] = From(id) + L - h
    BY <1>1, <2>1 DEF ResponseInv, ResponseOf, L
  <2>4. h + length > L => replaced' \/ pc' = "closed" \/ (pc' = "growing" /\ id = current')
    <3>1. CASE pc = "growing" /\ id = current /\ growing[1] >= growing[2]
      <4>1. growing[1] \in Nat /\ growing[2] \in Nat /\ growing[2] - growing[1] = (h + length) - L
        <5>1. growing[2] - growing[1] = (h + length) - L
          BY <2>3, <3>1
        <5> QED
          BY <5>1, GrowingType, Widths
      <4>2. ~(h + length > L)
        <5>1. L \in Nat /\ h \in Nat /\ length \in Nat
          BY <1>2, <2>1, <2>2
        <5> QED
          BY <3>1, <4>1, <5>1
      <4> QED
        BY <4>2
    <3> QED
      BY <2>3, <3>1 DEF History
  <2>5. From(id)' = From(id) /\ \A m : ByteOf(id, m)' = ByteOf(id, m)
    BY <2>2, Stable
  <2>6. pc' = "growing" /\ id = current' => /\ growing'[2] - growing'[1] = (h + length) - L
                                            /\ growing'[1] = From(id)' + L - h
    BY <2>3, <2>5
  <2>7. \A i \in (h + 1)..L : i <= h + length => Stream[i] = ByteOf(id, i - h)'
    BY <2>3, <2>5
  <2> QED
    BY <1>3, <2>1, <2>4, <2>6, <2>7 DEF ResponseOf
<1>6. HeadInv'
  <2> SUFFICES ASSUME ~replaced', NEW h \in 1..Len(Stream'), NEW x, x = Stream'[h], IsHead(x)
               PROVE  Promises(x)'
    BY DEF HeadInv, IsHead
  <2>1. x = Stream[h] /\ h \in 1..Len(Stream) /\ ~replaced
    BY <1>3 DEF L, History
  <2>2. Promises(x) /\ x.id \in 1..Len(requests)
    BY <1>1, <2>1 DEF HeadInv, IdsInv
  <2> QED
    BY <2>2, Stable
<1> QED
  BY <1>4, <1>5, <1>6

\* A client that waits sends when it has every answer, so nothing is left of them.
LEMMA SendStream ==
    ASSUME Typed, Typed', StreamInv, AnswersInv, open, NEW r \in Requests, SendRequest(r)
    PROVE  History /\ StreamInv'
<1>1. /\ UNCHANGED <<buf, pc, current, growing, to_client, pending, answers, open, replaced>>
      /\ pipelined' = (pipelined \/ Outstanding)
  BY DEF SendRequest, serverVars
<1>2. /\ Len(requests') = Len(requests) + 1
      /\ \A id \in 1..Len(requests) : requests'[id] = requests[id]
      /\ r.pieces \in 1..(MaxHeader + 1)
      /\ Len(Unread') = Len(Unread) + r.pieces
      /\ \A i \in 1..r.pieces : Unread'[Len(Unread) + i] = <<Len(requests) + 1, i>>
  BY SentEffect
<1>3. Len(requests) \in Nat /\ Len(answers) \in Nat /\ Served \in Nat
  BY ServedType
<1>a. ~pipelined' => ~pipelined /\ ~Outstanding
  BY <1>1, Zenon
<1>4. History
  BY <1>1, <1>a, <1>2, <1>3 DEF History
<1>5. Stream' = Stream /\ Served' = Served
  BY <1>1 DEF Stream, Served
<1>6. IdsInv' /\ ResponseInv' /\ HeadInv'
  BY <1>1, <1>3, <1>4, <1>5, SameStream
<1>7. AloneInv'
  <2> SUFFICES ASSUME ~pipelined' PROVE AloneInv'
    BY DEF AloneInv
  <2>1. ~pipelined /\ Len(requests) <= Len(answers) /\ AloneInv
    BY <1>a, <1>3 DEF Outstanding, StreamInv
  <2>2. Len(requests) = Len(answers)
    <3>1. CASE Len(answers) = 0
      BY <1>3, <2>1, <3>1
    <3>2. CASE Len(answers) # 0
      <4>1. Len(answers) \in 1..Len(answers)
        BY <1>3, <3>2
      <4> QED
        BY <1>3, <2>1, <4>1, AnswerIds
    <3> QED
      BY <3>1, <3>2
  <2>3. ~LastRequest
    BY <1>3, <2>2 DEF LastRequest
  <2>4. /\ \A h \in 1..Len(Stream) : ~IsHead(Stream[h])
        /\ pc = "closed" \/ Unread = <<>>
        /\ pc # "serving"
    BY <2>1, <2>3 DEF AloneInv
  <2>5. Unread = <<>> => Unread'[1][1] = Len(requests')
    <3> SUFFICES ASSUME Unread = <<>> PROVE Unread'[1][1] = Len(requests')
      OBVIOUS
    <3>1. Len(Unread) = 0 /\ 1 \in 1..r.pieces
      BY <1>2, BoundsAssumption
    <3>2. Unread'[0 + 1] = <<Len(requests) + 1, 1>>
      BY <1>2, <3>1
    <3> QED
      BY <1>2, <3>2
  <2>6. LastRequest' /\ Len(requests') <= Len(answers') + 1
    BY <1>1, <1>2, <1>3, <2>2 DEF LastRequest
  <2> QED
    BY <1>1, <1>5, <2>4, <2>5, <2>6 DEF AloneInv, IsHead
<1> QED
  BY <1>4, <1>6, <1>7 DEF StreamInv

\* The connection is closed, or a file has been sent to its end.
LEMMA QuietStream ==
    ASSUME Typed, Typed', StreamInv, AnswersInv, open,
           UNCHANGED <<requests, to_client, pending, answers, open, pipelined, replaced>>,
           \/ pc' = "closed"
           \/ Waits
           \/ EndGrowingFile
    PROVE  StreamInv'
<1>1. History /\ Stream' = Stream
  BY StepHistory DEF Stream
<1>2. AloneInv /\ Served \in Nat /\ current \in Nat
  BY ServedType DEF StreamInv
<1>3. CASE pc' = "closed"
  <2>1. IdsInv' /\ ResponseInv' /\ HeadInv'
    BY <1>1, <1>3, SameStream
  <2>2. AloneInv'
    BY <1>1, <1>2, <1>3 DEF AloneInv, LastRequest, IsHead
  <2> QED
    BY <2>1, <2>2 DEF StreamInv
<1>4. CASE Waits
  <2>1. pc = "reading" /\ pc' = "reading" /\ Unread' = Unread /\ current' = current
    BY <1>4 DEF Waits
  <2>2. Served' = Served
    BY <2>1 DEF Served
  <2>3. IdsInv' /\ ResponseInv' /\ HeadInv'
    BY <1>1, <1>2, <2>1, <2>2, SameStream
  <2>4. AloneInv'
    BY <1>1, <1>2, <2>1 DEF AloneInv, LastRequest, IsHead
  <2> QED
    BY <2>3, <2>4 DEF StreamInv
<1>5. CASE EndGrowingFile
  <2>1. /\ pc = "growing" /\ pc' = "reading" /\ Unread' = Unread /\ current' = current
        /\ growing[1] >= growing[2]
    BY <1>5 DEF EndGrowingFile, Goes, Unread
  <2>2. Served' = Served
    BY <2>1 DEF Served
  <2>3. IdsInv' /\ ResponseInv' /\ HeadInv'
    BY <1>1, <1>2, <2>1, <2>2, SameStream
  <2>4. AloneInv'
    BY <1>1, <1>2, <2>1 DEF AloneInv, LastRequest, IsHead
  <2> QED
    BY <2>3, <2>4 DEF StreamInv
<1> QED
  BY <1>3, <1>4, <1>5

\* A header is taken for the request that is served next.
LEMMA TakesStream ==
    ASSUME Typed, Typed', UnreadInv, UnreadInv', StreamInv, AnswersInv, open, Takes,
           UNCHANGED <<growing, requests, pending, answers, open, pipelined, replaced>>
    PROVE  StreamInv'
<1>1. /\ pc = "reading" /\ pc' = "serving" /\ current' = Unread[1][1] /\ Len(Unread) >= 1
      /\ UNCHANGED to_client /\ 1 \in 1..Len(Unread) /\ Unread # <<>>
  BY UnreadTypes DEF Takes
<1>2. History /\ Stream' = Stream
  BY <1>1, StepHistory DEF Stream
<1>3. current' \in (current + 1)..Len(requests) /\ current \in Nat /\ Len(requests) \in Nat
  BY <1>1, ServedType DEF UnreadInv
<1>4. Served = current /\ Served' = current' - 1
  BY <1>1 DEF Served
<1>5. IdsInv' /\ ResponseInv' /\ HeadInv'
  <2>1. Served' >= Served
    <3>1. \A a, b \in Nat : b \in (a + 1)..Len(requests) => b - 1 >= a
      BY <1>3
    <3>2. current' \in Nat
      BY <1>3
    <3> QED
      BY <1>3, <1>4, <3>1, <3>2
  <2> QED
    BY <1>1, <1>2, <2>1, SameStream
<1>6. AloneInv'
  <2> SUFFICES ASSUME ~pipelined' PROVE AloneInv'
    BY DEF AloneInv
  <2>1. ~pipelined /\ AloneInv
    BY DEF StreamInv
  <2>2. /\ LastRequest /\ current' = Len(requests)
        /\ \A h \in 1..Len(Stream) : ~IsHead(Stream[h])
        /\ Len(requests) <= Len(answers) + 1
    BY <1>1, <2>1 DEF AloneInv
  <2>3. Unread' = <<>>
    <3>1. Unread' \in Seq(Pieces) /\ Len(Unread') \in Nat
      <4>1. buf' \in Seq(Pieces) /\ to_server' \in Seq(Pieces)
        BY DEF Typed
      <4>2. buf' \o to_server' \in Seq(Pieces)
        BY <4>1, Zenon, ConcatProperties
      <4> QED
        BY <4>2 DEF Unread
    <3>2. ~(1 \in 1..Len(Unread'))
      <4>1. 1 \in 1..Len(Unread') => Unread'[1][1] \in (current' + 1)..Len(requests')
        BY <1>1 DEF UnreadInv
      <4> QED
        BY <1>3, <2>2, <4>1
    <3> QED
      BY <3>1, <3>2
  <2>4. LastRequest'
    BY <2>2 DEF LastRequest
  <2> QED
    BY <1>1, <1>2, <2>2, <2>3, <2>4 DEF AloneInv, IsHead
<1> QED
  BY <1>5, <1>6 DEF StreamInv

\* The answer to a header that is not valid is the last.
LEMMA RejectsStream ==
    ASSUME Typed, UnreadInv, StreamInv, AnswersInv, open, Rejects,
           to_client' = Append(to_client, Reply(Unread[1][1], 400, 0, <<>>, 0)),
           UNCHANGED <<growing, requests, pending, answers, open, pipelined, replaced>>
    PROVE  StreamInv'
<1> DEFINE L == Len(Stream)
           id == Unread[1][1]
           x == Reply(id, 400, 0, <<>>, 0)
<1>1. /\ IdsInv /\ ResponseInv /\ HeadInv /\ AloneInv
      /\ pc = "reading" /\ pc' = "closed" /\ Unread # <<>> /\ Served = current
      /\ current \in Nat /\ Len(requests) \in Nat
  BY ServedType DEF StreamInv, Rejects, Served
<1>2. /\ L \in Nat
      /\ \A i \in 1..L : Stream[i].id \in Nat /\ (IsHead(Stream[i]) => Stream[i].length \in Nat)
  BY StreamTypes
<1>3. id \in Nat /\ id \in (current + 1)..Len(requests) /\ id \in 1..Len(requests)
  <2>1. 1 \in 1..Len(Unread)
    BY <1>1, UnreadTypes
  <2>2. id \in (current + 1)..Len(requests)
    BY <1>1, <2>1 DEF UnreadInv
  <2> QED
    BY <1>1, <2>2
<1>4. x \in Items /\ IsHead(x) /\ x.id = id /\ x.length = 0 /\ x.status = 400
  <2>1. 0 \in 0..(Width - 1) /\ <<>> \in Ranges /\ 400 \in Nat /\ 0 \in Nat
    BY Widths, Ranged
  <2>2. x \in Heads
    BY <1>3, <2>1, ReplyType
  <2> QED
    BY <2>2, ReplyFields DEF Items, IsHead
<1>5. Len(Stream') = L + 1 /\ (\A i \in 1..L : Stream'[i] = Stream[i]) /\ Stream'[L + 1] = x
  <2>1. to_client' = Append(to_client, x) /\ to_client \in Seq(Items)
    BY DEF Typed
  <2> HIDE DEF x
  <2>2. to_client' = to_client \o <<x>>
    BY <1>4, <2>1
  <2>3. <<x>> \in Seq(Items) /\ Len(<<x>>) = 1 /\ <<x>>[1] = x /\ 1 \in 1..1
    BY <1>4
  <2>4. Extends(<<x>>)
    BY <2>2, <2>3, WrittenExtends
  <2> QED
    BY <2>3, <2>4 DEF Extends
<1>6. History
  BY StepHistory
<1> HIDE DEF L, x, id
<1>7. \A i \in 1..Len(Stream') : \/ i \in 1..L /\ Stream'[i] = Stream[i]
                                 \/ i = L + 1 /\ Stream'[i] = x
  BY <1>2, <1>5
<1>8. \A i \in 1..L : Stream[i].id <= current /\ Stream[i].id \in 1..Len(requests)
  BY <1>1 DEF IdsInv, L
<1>9. IdsInv'
  <2>1. \A i \in 1..Len(Stream') : Stream'[i].id \in 1..Len(requests')
    BY <1>3, <1>4, <1>7, <1>8
  <2>2. ASSUME NEW i \in 1..Len(Stream'), NEW j \in 1..Len(Stream'), i < j
        PROVE  After(Stream'[i].id, Stream'[j])
    <3>1. i \in 1..L /\ Stream'[i] = Stream[i]
      BY <1>2, <1>5, <2>2
    <3>2. CASE j <= L
      <4>1. j \in 1..L /\ Stream'[j] = Stream[j]
        BY <1>2, <1>5, <3>2
      <4> QED
        BY <1>1, <2>2, <3>1, <4>1 DEF IdsInv, L
    <3>3. CASE j = L + 1
      <4>1. Stream'[j] = x /\ Stream'[i].id \in Nat /\ Stream'[i].id <= current
        BY <1>2, <1>5, <1>8, <3>1, <3>3
      <4> QED
        BY <1>1, <1>3, <1>4, <4>1 DEF After
    <3> QED
      BY <1>2, <1>5, <3>2, <3>3
  <2>3. ASSUME NEW k \in 1..Len(answers), NEW i \in 1..Len(Stream')
        PROVE  After(IdOf(k), Stream'[i])
    <3>1. IdOf(k) <= current /\ IdOf(k) \in Nat /\ \A n \in 1..L : After(IdOf(k), Stream[n])
      BY <1>1, <2>3, AnswerIds DEF IdsInv, L
    <3>2. After(IdOf(k), x)
      BY <1>1, <1>3, <1>4, <3>1 DEF After
    <3> QED
      BY <1>7, <3>1, <3>2
  <2>4. answers' = answers /\ \A k : IdOf(k)' = IdOf(k)
    BY DEF IdOf
  <2> QED
    BY <1>1, <2>1, <2>2, <2>3, <2>4 DEF IdsInv
<1>10. ResponseInv'
  <2> SUFFICES ASSUME ~(pipelined' /\ replaced'), NEW h \in 1..Len(Stream'), IsHead(Stream'[h])
               PROVE  ResponseOf(h)'
    BY DEF ResponseInv, IsHead
  <2>1. CASE h <= L
    <3> PICK m, length : m = Stream[h].id /\ length = Stream[h].length
      OBVIOUS
    <3>1. h \in 1..L /\ h \in Nat /\ Stream'[h] = Stream[h] /\ IsHead(Stream[h])
          /\ ~(pipelined /\ replaced)
      BY <1>2, <1>5, <2>1
    <3>2. m \in 1..Len(requests) /\ length \in Nat
      BY <1>2, <1>8, <3>1
    <3>3. /\ \A i \in (h + 1)..L : i <= h + length => Stream[i] = ByteOf(m, i - h)
          /\ h + length > L => replaced
      BY <1>1, <3>1 DEF ResponseInv, ResponseOf, L
    <3>4. h + length <= L
      <4>1. ~replaced
        BY <1>1, <3>1 DEF AloneInv, L
      <4> QED
        BY <1>2, <3>1, <3>2, <3>3, <4>1
    <3>5. \A i \in (h + 1)..Len(Stream') : i <= h + length => Stream'[i] = ByteOf(m, i - h)'
      <4>1. \A n : ByteOf(m, n)' = ByteOf(m, n)
        BY <1>6, <3>2, Stable
      <4>2. \A i \in (h + 1)..Len(Stream') : i <= h + length => i \in (h + 1)..L /\ i \in 1..L
        BY <1>2, <1>5, <3>1, <3>2, <3>4
      <4> QED
        BY <1>5, <3>3, <4>1, <4>2
    <3> QED
      BY <1>1, <3>1, <3>5 DEF ResponseOf
  <2>2. CASE h > L
    <3>1. h = L + 1 /\ Stream'[h] = x /\ Len(Stream') = h
      BY <1>2, <1>5, <2>2
    <3>2. ~\E i \in (h + 1)..Len(Stream') : TRUE
      BY <1>2, <3>1
    <3> QED
      BY <1>1, <1>4, <3>1, <3>2 DEF ResponseOf
  <2> QED
    BY <1>2, <2>1, <2>2
<1>11. HeadInv'
  <2> SUFFICES ASSUME ~replaced', NEW h \in 1..Len(Stream'), NEW y, y = Stream'[h], IsHead(y)
               PROVE  Promises(y)'
    BY DEF HeadInv, IsHead
  <2>1. Promises(y) /\ y.id \in 1..Len(requests)
    <3>1. CASE h \in 1..L /\ Stream'[h] = Stream[h]
      BY <1>1, <1>8, <3>1 DEF HeadInv, L
    <3>2. CASE Stream'[h] = x
      BY <1>3, <1>4, <3>2 DEF Promises
    <3> QED
      BY <1>7, <3>1, <3>2
  <2> QED
    BY <1>6, <2>1, Stable
<1>12. AloneInv'
  <2> SUFFICES ASSUME ~pipelined' PROVE AloneInv'
    BY DEF AloneInv
  <2>1. /\ LastRequest /\ id = Len(requests) /\ Len(requests) <= Len(answers) + 1
        /\ \A h \in 1..L : ~IsHead(Stream[h])
    BY <1>1 DEF AloneInv, L, id
  <2>2. LastRequest'
    BY <2>1 DEF LastRequest
  <2>3. \A i \in 1..Len(Stream') : IsHead(Stream'[i]) => i = L + 1 /\ Stream'[i] = x
    BY <1>7, <2>1
  <2> QED
    BY <1>1, <1>4, <2>1, <2>2, <2>3 DEF AloneInv, IsHead
<1> QED
  BY <1>9, <1>10, <1>11, <1>12 DEF StreamInv

\* What the client receives is the first of the stream.
LEMMA Taken ==
    ASSUME Typed, Receive
    PROVE  /\ Stream = Received \o to_client'
           /\ Received \in Seq(Items) /\ to_client' \in Seq(Items)
           /\ Len(Received) \in Nat /\ Len(Received) >= 1
           /\ Len(to_client') \in Nat /\ Len(Stream) = Len(Received) + Len(to_client')
           /\ \A i \in 1..Len(Received) : Stream[i] = Received[i]
           /\ \A i \in 1..Len(to_client') : Stream[Len(Received) + i] = to_client'[i]
<1> DEFINE S == Items
           x == to_client[1]
           t == Tail(to_client)
<1>1. /\ pending \in Seq(S) /\ to_client \in Seq(S) /\ to_client # <<>>
      /\ Received = Append(pending, x) /\ to_client' = t
  BY DEF Typed, Receive, Received
<1> HIDE DEF S
<1>2. x \in S /\ t \in Seq(S) /\ to_client = <<x>> \o t
  <2>1. x \in S /\ t \in Seq(S) /\ Len(to_client) = Len(t) + 1
        /\ \A i \in 1..Len(t) : t[i] = to_client[i + 1]
    BY <1>1
  <2> HIDE DEF x, t
  <2>2. <<x>> \in Seq(S) /\ Len(<<x>>) = 1 /\ <<x>>[1] = x
    BY <2>1
  <2>3. /\ <<x>> \o t \in Seq(S) /\ Len(<<x>> \o t) = 1 + Len(t) /\ (<<x>> \o t)[1] = x
        /\ \A i \in 1..Len(t) : (<<x>> \o t)[1 + i] = t[i]
    BY <2>1, <2>2
  <2>4. Len(t) \in Nat /\ to_client[1] = x
    BY <2>1 DEF x
  <2>5. ASSUME NEW i \in 1..Len(to_client) PROVE to_client[i] = (<<x>> \o t)[i]
    <3>1. CASE i = 1
      BY <2>3, <2>4, <3>1
    <3>2. CASE i # 1
      <4>1. i - 1 \in 1..Len(t) /\ 1 + (i - 1) = i /\ (i - 1) + 1 = i
        BY <2>1, <2>4, <3>2
      <4>2. t[i - 1] = to_client[(i - 1) + 1] /\ (<<x>> \o t)[1 + (i - 1)] = t[i - 1]
        BY <2>1, <2>3, <4>1
      <4> QED
        BY <4>1, <4>2
    <3> QED
      BY <3>1, <3>2
  <2>6. Len(to_client) = Len(<<x>> \o t)
    BY <2>1, <2>3, <2>4
  <2> QED
    BY <1>1, <2>1, <2>3, <2>5, <2>6, SeqEqual
<1> HIDE DEF x, t
<1>3. /\ Append(pending, x) \in Seq(S) /\ Append(pending, x) = pending \o <<x>>
      /\ <<x>> \in Seq(S) /\ pending \o <<x>> \in Seq(S)
      /\ Len(Append(pending, x)) >= 1
  BY <1>1, <1>2
<1>4. pending \o to_client = (pending \o <<x>>) \o t
  <2>1. pending \o (<<x>> \o t) = (pending \o <<x>>) \o t
    BY <1>1, <1>2, <1>3
  <2> QED
    BY <1>2, <2>1, Zenon
<1> DEFINE r == Append(pending, x)
<1>5. r \in Seq(S) /\ t \in Seq(S) /\ Stream = r \o t /\ Received = r
  BY <1>1, <1>2, <1>3, <1>4, Zenon DEF Stream
<1>6. Len(r) >= 1
  BY <1>3
<1> HIDE DEF r
<1>7. /\ Len(r) \in Nat /\ Len(t) \in Nat /\ Len(r \o t) = Len(r) + Len(t)
      /\ \A i \in 1..Len(r) : (r \o t)[i] = r[i]
      /\ \A i \in 1..Len(t) : (r \o t)[Len(r) + i] = t[i]
  BY <1>5
<1> QED
  BY <1>1, <1>5, <1>6, <1>7 DEF S

\* The client has received a whole response, the first m items of the stream.
Accepts(m) ==
    /\ m \in 1..Len(Stream) /\ IsHead(Stream[1]) /\ m = 1 + Stream[1].length
    /\ Len(answers') = Len(answers) + 1
    /\ \A k \in 1..Len(answers) : answers'[k] = answers[k]
    /\ Len(answers'[Len(answers) + 1]) = m
    /\ \A i \in 1..m : answers'[Len(answers) + 1][i] = Stream[i]
    /\ Len(Stream') = Len(Stream) - m
    /\ \A i \in 1..Len(Stream') : Stream'[i] = Stream[m + i]

\* The response is not whole yet, or what comes is not one.
LEMMA ReceiveEffect ==
    ASSUME Typed, Receive
    PROVE  /\ UNCHANGED <<requests, pipelined, buf, pc, current, growing, to_server, replaced>>
           /\ \/ ~open' /\ UNCHANGED answers
              \/ open' /\ Stream' = Stream /\ UNCHANGED answers
              \/ open' /\ \E m \in Nat : Accepts(m)
<1> DEFINE r == Received
<1>1. UNCHANGED <<requests, pipelined, buf, pc, current, growing, to_server, replaced>>
  BY DEF Receive, serverVars
<1>2. /\ Stream = r \o to_client' /\ r \in Seq(Items) /\ to_client' \in Seq(Items)
      /\ Len(r) \in Nat /\ Len(r) >= 1
      /\ Len(to_client') \in Nat /\ Len(Stream) = Len(r) + Len(to_client')
      /\ \A i \in 1..Len(r) : Stream[i] = r[i]
      /\ \A i \in 1..Len(to_client') : Stream[Len(r) + i] = to_client'[i]
  BY Taken
<1>3. \/ open' = FALSE /\ UNCHANGED answers
      \/ open' = open /\ open /\ pending' = r /\ UNCHANGED answers
      \/ open' = open /\ open /\ pending' = <<>> /\ answers' = Append(answers, r)
         /\ r[1].type = "head" /\ Len(r) - 1 = r[1].length
  BY DEF Receive
<1> HIDE DEF r
<1>4. CASE open' = FALSE /\ UNCHANGED answers
  BY <1>1, <1>4
<1>5. CASE open' = open /\ open /\ pending' = r /\ UNCHANGED answers
  BY <1>1, <1>2, <1>5 DEF Stream
<1>6. CASE /\ open' = open /\ open /\ pending' = <<>> /\ answers' = Append(answers, r)
           /\ r[1].type = "head" /\ Len(r) - 1 = r[1].length
  <2>1. Stream' = to_client'
    <3> DEFINE S == Items
               c == to_client'
    <3>1. c \in Seq(S)
      BY <1>2
    <3> HIDE DEF S, c
    <3>2. <<>> \o c = c
      BY <3>1
    <3> QED
      BY <1>6, <3>2 DEF Stream, c
  <2>2. /\ Len(answers') = Len(answers) + 1 /\ answers'[Len(answers) + 1] = r
        /\ \A k \in 1..Len(answers) : answers'[k] = answers[k]
    <3> DEFINE S == Seq(Items)
    <3>1. answers \in Seq(S) /\ r \in S
      BY <1>2 DEF Typed
    <3> HIDE DEF S
    <3> QED
      BY <1>6, <3>1
  <2>3. Len(r) \in 1..Len(Stream) /\ IsHead(Stream[1]) /\ Len(r) = 1 + Stream[1].length
    <3>1. Stream[1] = r[1] /\ Len(r) \in 1..Len(Stream)
      BY <1>2
    <3>2. r[1] \in Items
      BY <1>2
    <3>3. r[1].length \in Nat
      BY <1>6, <3>2, ItemTypes DEF IsHead
    <3> QED
      BY <1>2, <1>6, <3>1, <3>3 DEF IsHead
  <2>4. Len(Stream') = Len(Stream) - Len(r)
    BY <1>2, <2>1
  <2>5. \A i \in 1..Len(Stream') : Stream'[i] = Stream[Len(r) + i]
    BY <1>2, <2>1
  <2>6. Accepts(Len(r))
    BY <1>2, <2>2, <2>3, <2>4, <2>5 DEF Accepts
  <2> QED
    BY <1>1, <1>2, <1>6, <2>6
<1> QED
  BY <1>3, <1>4, <1>5, <1>6

\* A whole response leaves the stream with the next one in front.
LEMMA AcceptsKeeps ==
    ASSUME Typed, StreamInv, AnswersInv, open, NEW m \in Nat, Accepts(m),
           UNCHANGED <<requests, pipelined, buf, pc, current, growing, to_server, replaced>>
    PROVE  StreamInv' /\ AnswersInv'
<1> DEFINE L == Len(Stream)
<1> PICK N : N = Len(answers)
  OBVIOUS
<1>1. /\ IdsInv /\ ResponseInv /\ HeadInv /\ AloneInv
      /\ Len(requests) \in Nat /\ N \in Nat
  BY ServedType DEF StreamInv
<1>2. /\ L \in Nat
      /\ \A i \in 1..L : Stream[i].id \in Nat /\ (IsHead(Stream[i]) => Stream[i].length \in Nat)
  BY StreamTypes
<1> PICK a, id : a = answers'[N + 1] /\ id = Stream[1].id
  OBVIOUS
<1>3. /\ m \in 1..L /\ IsHead(Stream[1]) /\ m = 1 + Stream[1].length
      /\ Len(answers') = N + 1 /\ \A k \in 1..N : answers'[k] = answers[k]
      /\ Len(a) = m /\ \A i \in 1..m : a[i] = Stream[i]
      /\ Len(Stream') = L - m /\ \A i \in 1..Len(Stream') : Stream'[i] = Stream[m + i]
  BY DEF Accepts
<1>4. History /\ Served' = Served
  BY StepHistory DEF Served
<1> HIDE DEF L
<1>5. /\ 1 \in 1..L /\ 1 \in 1..m /\ m \in Nat /\ m >= 1 /\ m <= L
      /\ a[1] = Stream[1] /\ Stream[1].length \in Nat
  BY <1>2, <1>3
<1>a. L \in Nat /\ m \in Nat /\ m >= 1 /\ m <= L /\ Len(Stream') = L - m /\ Len(Stream') \in Nat
  BY <1>2, <1>3, <1>5
<1>6. \A i \in 1..Len(Stream') : m + i \in 1..L /\ m + i > m /\ m + i > 1 /\ i \in Nat
  BY <1>a
<1>7. id \in 1..Len(requests) /\ (pc # "closed" => id <= Served)
  BY <1>1, <1>5 DEF IdsInv, L
<1>8. /\ IdOf(N + 1)' = id
      /\ \A k \in 1..N : IdOf(k)' = IdOf(k)
  BY <1>3, <1>5 DEF IdOf
<1>9. \A k \in 1..Len(answers') : k \in 1..N \/ k = N + 1
  BY <1>1, <1>3
<1>10. IdsInv'
  <2>1. \A i \in 1..Len(Stream') :
           Stream'[i].id \in 1..Len(requests') /\ (pc' # "closed" => Stream'[i].id <= Served')
    BY <1>1, <1>3, <1>4, <1>6 DEF IdsInv, L
  <2>2. ASSUME NEW i \in 1..Len(Stream'), NEW j \in 1..Len(Stream'), i < j
        PROVE  After(Stream'[i].id, Stream'[j])
    <3>1. m + i \in 1..L /\ m + j \in 1..L /\ m + i < m + j
      BY <1>5, <1>6, <2>2
    <3>2. After(Stream[m + i].id, Stream[m + j])
      BY <1>1, <3>1 DEF IdsInv, L
    <3> QED
      BY <1>3, <3>2
  <2>3. ASSUME NEW k \in 1..N
        PROVE  /\ pc # "closed" => IdOf(k) <= Served
               /\ \A i \in 1..Len(Stream') : After(IdOf(k), Stream'[i])
    BY <1>1, <1>3, <1>6 DEF IdsInv, L
  <2>4. \A i \in 1..Len(Stream') : After(id, Stream'[i])
    BY <1>1, <1>3, <1>5, <1>6 DEF IdsInv, L
  <2> QED
    BY <1>4, <1>7, <1>8, <1>9, <2>1, <2>2, <2>3, <2>4 DEF IdsInv
<1>11. ResponseInv'
  <2> SUFFICES ASSUME ~(pipelined' /\ replaced'), NEW h \in 1..Len(Stream'), IsHead(Stream'[h])
               PROVE  ResponseOf(h)'
    BY DEF ResponseInv, IsHead
  <2> PICK d, length : d = Stream'[h].id /\ length = Stream'[h].length
    OBVIOUS
  <2>1. /\ h \in Nat /\ m + h \in 1..L /\ Stream'[h] = Stream[m + h] /\ IsHead(Stream[m + h])
        /\ ~(pipelined /\ replaced)
    BY <1>3, <1>6
  <2>2. d \in 1..Len(requests) /\ length \in Nat
    BY <1>1, <1>2, <2>1 DEF IdsInv, L
  <2>3. /\ \A i \in (m + h + 1)..L : i <= m + h + length => Stream[i] = ByteOf(d, i - (m + h))
        /\ m + h + length > L => replaced \/ pc = "closed" \/ (pc = "growing" /\ d = current)
        /\ pc = "growing" /\ d = current => /\ growing[2] - growing[1] = (m + h + length) - L
                                            /\ growing[1] = From(d) + L - (m + h)
    BY <1>1, <2>1 DEF ResponseInv, ResponseOf, L
  <2>4. From(d)' = From(d) /\ \A n : ByteOf(d, n)' = ByteOf(d, n)
    BY <1>4, <2>2, Stable
  <2>5. \A i \in (h + 1)..Len(Stream') : i <= h + length => Stream'[i] = ByteOf(d, i - h)
    <3> SUFFICES ASSUME NEW i \in (h + 1)..Len(Stream'), i <= h + length
                 PROVE  Stream'[i] = ByteOf(d, i - h)
      OBVIOUS
    <3>1. i \in Nat /\ i \in 1..Len(Stream') /\ i > h
      BY <1>a, <2>1
    <3>2. m + i \in (m + h + 1)..L /\ m + i <= m + h + length
      BY <1>a, <2>1, <2>2, <3>1
    <3>3. (m + i) - (m + h) = i - h
      BY <1>5, <2>1, <3>1
    <3>4. Stream'[i] = Stream[m + i] /\ Stream[m + i] = ByteOf(d, (m + i) - (m + h))
      BY <1>3, <2>3, <3>1, <3>2
    <3> QED
      BY <3>3, <3>4
  <2>6. h + length > Len(Stream') => m + h + length > L
    BY <1>a, <2>1, <2>2
  <2>7. (m + h + length) - L = (h + length) - Len(Stream')
    BY <1>a, <2>1, <2>2
  <2>8. pc = "growing" /\ d = current => growing[1] = From(d) + Len(Stream') - h
    <3> SUFFICES ASSUME pc = "growing", d = current PROVE growing[1] = From(d) + Len(Stream') - h
      OBVIOUS
    <3>1. From(d) \in Nat
      BY <2>2, RequestType, Widths DEF From
    <3>2. \A f \in Nat : f + L - (m + h) = f + (L - m) - h
      BY <1>2, <1>5, <2>1
    <3> QED
      BY <1>3, <2>3, <3>1, <3>2
  <2> QED
    BY <2>1, <2>3, <2>4, <2>5, <2>6, <2>7, <2>8 DEF ResponseOf
<1>12. HeadInv'
  <2> SUFFICES ASSUME ~replaced', NEW h \in 1..Len(Stream'), NEW y, y = Stream'[h], IsHead(y)
               PROVE  Promises(y)'
    BY DEF HeadInv, IsHead
  <2>1. y = Stream[m + h] /\ m + h \in 1..L
    BY <1>3, <1>6
  <2>2. Promises(y) /\ y.id \in 1..Len(requests)
    BY <1>1, <2>1 DEF HeadInv, IdsInv, L
  <2> QED
    BY <1>4, <2>2, Stable
<1>13. ~pipelined => /\ LastRequest /\ id = Len(requests) /\ pc # "serving"
                     /\ pc # "closed" => Unread = <<>>
                     /\ \A i \in 1..L : IsHead(Stream[i]) => i = 1
  BY <1>1, <1>3, <1>5 DEF AloneInv, L
<1>14. AloneInv'
  <2> SUFFICES ASSUME ~pipelined' PROVE AloneInv'
    BY DEF AloneInv
  <2>1. ASSUME NEW i \in 1..Len(Stream'), IsHead(Stream'[i]) PROVE FALSE
    <3>1. m + i \in 1..L /\ m + i # 1
      BY <1>a, <1>6
    <3>2. IsHead(Stream[m + i])
      BY <1>3, <2>1
    <3> QED
      BY <1>13, <3>1, <3>2
  <2>2. Len(requests') <= Len(answers') + 1
    BY <1>1, <1>3, <1>13 DEF LastRequest
  <2>3. Unread' = Unread
    <3>1. UNCHANGED <<buf, to_server>>
      OBVIOUS
    <3> QED
      BY <3>1 DEF Unread
  <2> QED
    BY <1>13, <2>1, <2>2, <2>3 DEF AloneInv, IsHead
<1>15. \A k \in 1..N : AnswerOf(k)'
  <2> SUFFICES ASSUME NEW k \in 1..N PROVE AnswerOf(k)'
    OBVIOUS
  <2> PICK b, d : b = answers[k] /\ d = IdOf(k)
    OBVIOUS
  <2>1. /\ b # <<>> /\ IsHead(b[1]) /\ d \in k..Len(requests) /\ b[1].id = d
        /\ k > 1 => IdOf(k - 1) < d
        /\ Len(b) = 1 + b[1].length
        /\ ~(pipelined /\ replaced) => \A i \in 2..Len(b) : b[i] = ByteOf(d, i - 1)
        /\ ~replaced => Promises(b[1])
        /\ ~pipelined => d = k
    BY DEF AnswersInv, AnswerOf, IdOf
  <2>2. answers'[k] = b /\ IdOf(k)' = d /\ k \in Nat /\ k >= 1
    BY <1>1, <1>3, <1>8
  <2>3. k > 1 => IdOf(k - 1)' = IdOf(k - 1)
    <3>1. k > 1 => k - 1 \in 1..N
      BY <1>1, <2>2
    <3> QED
      BY <1>8, <3>1
  <2>4. d \in 1..Len(requests)
    BY <1>1, <2>1, <2>2
  <2>5. \A n : ByteOf(d, n)' = ByteOf(d, n)
    BY <1>4, <2>4, Stable
  <2>6. ~replaced => Promises(b[1])'
    BY <1>4, <2>1, <2>4, Stable
  <2> QED
    BY <2>1, <2>2, <2>3, <2>5, <2>6 DEF AnswerOf
<1>16. AnswerOf(N + 1)'
  <2>1. a # <<>> /\ IsHead(a[1]) /\ a[1].id = id /\ Len(a) = 1 + a[1].length
    BY <1>3, <1>5
  <2>2. N >= 1 => /\ IdOf(N) \in Nat /\ IdOf(N) >= N /\ IdOf(N) < id
                  /\ IdOf(N)' = IdOf(N)
    <3> SUFFICES ASSUME N >= 1
                 PROVE  IdOf(N) \in Nat /\ IdOf(N) >= N /\ IdOf(N) < id /\ IdOf(N)' = IdOf(N)
      OBVIOUS
    <3>1. N \in 1..N /\ N \in 1..Len(answers)
      BY <1>1
    <3>2. After(IdOf(N), Stream[1])
      BY <1>1, <1>5, <3>1 DEF IdsInv, L
    <3> QED
      BY <1>3, <1>8, <3>1, <3>2, AnswerIds DEF After
  <2>3. id \in (N + 1)..Len(requests)
    BY <1>1, <1>7, <2>2
  <2>4. ~(pipelined /\ replaced) => \A i \in 2..Len(a) : a[i] = ByteOf(id, i - 1)
    <3> SUFFICES ASSUME ~(pipelined /\ replaced), NEW i \in 2..Len(a)
                 PROVE  a[i] = ByteOf(id, i - 1)
      OBVIOUS
    <3>1. i \in 1..m /\ i \in (1 + 1)..L /\ i <= 1 + Stream[1].length
      BY <1>a, <1>3
    <3>2. ResponseOf(1)
      BY <1>1, <1>3, <1>5 DEF ResponseInv, L
    <3>3. Stream[i] = ByteOf(id, i - 1)
      BY <3>1, <3>2 DEF ResponseOf, L
    <3> QED
      BY <1>3, <3>1, <3>3
  <2>5. ~replaced => Promises(a[1])
    BY <1>1, <1>3, <1>5 DEF HeadInv, L
  <2>6. /\ \A n : ByteOf(id, n)' = ByteOf(id, n)
        /\ ~replaced => Promises(a[1])'
    BY <1>4, <1>7, <2>1, <2>5, Stable
  <2>7. ~pipelined => id = N + 1
    BY <1>13 DEF LastRequest
  <2>8. N + 1 > 1 => IdOf((N + 1) - 1)' < id
    <3>1. (N + 1) - 1 = N /\ (N + 1 > 1 => N >= 1)
      BY <1>1
    <3> QED
      BY <2>2, <3>1
  <2>9. answers'[N + 1] = a /\ IdOf(N + 1)' = id
    BY <1>8
  <2> QED
    BY <2>1, <2>3, <2>4, <2>6, <2>7, <2>8, <2>9 DEF AnswerOf
<1>17. AnswersInv'
  BY <1>9, <1>15, <1>16 DEF AnswersInv
<1> QED
  BY <1>10, <1>11, <1>12, <1>14, <1>17 DEF StreamInv

LEMMA ServerStream ==
    ASSUME Typed, Typed', UnreadInv, UnreadInv', StreamInv, AnswersInv, Server
    PROVE  StreamInv' /\ AnswersInv'
<1>1. UNCHANGED <<requests, pending, answers, open, pipelined>> /\ (replaced => replaced')
  <2>1. CASE ReadHeader \/ BufferSizeExceeded \/ SocketClosed
    BY <2>1 DEF ReadHeader, BufferSizeExceeded, SocketClosed, clientVars
  <2>2. CASE \/ RespondWithoutBody \/ ServeMetrics \/ Redirect \/ ServeFromCompleteFile
             \/ BeginGrowingFile
    BY <2>2, AnswerEffect DEF Answering
  <2>3. CASE SendFromGrowingFile \/ EndGrowingFile \/ Fail
    BY <2>3 DEF SendFromGrowingFile, EndGrowingFile, Fail, clientVars
  <2> QED
    BY <2>1, <2>2, <2>3 DEF Server
<1>2. UNCHANGED <<requests, pending, answers, open, pipelined>> /\ History
  BY <1>1, StepHistory
<1>3. AnswersInv'
  BY <1>2, AnswersKept
<1>4. StreamInv'
  <2> SUFFICES ASSUME open PROVE StreamInv'
    BY <1>2 DEF StreamInv
  <2>1. CASE ReadHeader
    <3>1. Takes \/ Waits \/ Rejects
      BY <2>1, ReadEffect
    <3>2. UNCHANGED <<growing, requests, pending, answers, open, pipelined, replaced>>
      BY <2>1, ReadEffect
    <3>3. CASE Takes
      BY <3>2, <3>3, TakesStream
    <3>4. CASE Waits
      <4>1. UNCHANGED to_client
        BY <3>4 DEF Waits
      <4> QED
        BY <3>2, <3>4, <4>1, QuietStream
    <3>5. CASE Rejects
      <4>1. \/ to_client' = Append(to_client, Reply(Unread[1][1], 400, 0, <<>>, 0))
            \/ UNCHANGED to_client /\ pc' = "closed"
        BY <3>5 DEF Rejects
      <4> QED
        BY <3>2, <3>5, <4>1, RejectsStream, QuietStream
    <3> QED
      BY <3>1, <3>3, <3>4, <3>5
  <2>2. CASE BufferSizeExceeded \/ SocketClosed
    <3>1. pc' = "closed" /\ UNCHANGED <<to_client, replaced>>
      BY <2>2 DEF BufferSizeExceeded, SocketClosed, Goes
    <3> QED
      BY <1>2, <3>1, QuietStream
  <2>3. CASE \/ RespondWithoutBody \/ ServeMetrics \/ Redirect \/ ServeFromCompleteFile
             \/ BeginGrowingFile
    BY <2>3, AnswerEffect, AnsweringKeeps
  <2>4. CASE SendFromGrowingFile
    BY <2>4, GrowthKeeps
  <2>5. CASE EndGrowingFile \/ Fail
    <3>1. (pc' = "closed" \/ EndGrowingFile) /\ UNCHANGED <<to_client, replaced>>
      BY <2>5 DEF EndGrowingFile, Fail, Goes
    <3> QED
      BY <1>2, <3>1, QuietStream
  <2> QED
    BY <2>1, <2>2, <2>3, <2>4, <2>5 DEF Server
<1> QED
  BY <1>3, <1>4

LEMMA ReceiveStream ==
    ASSUME Typed, Typed', StreamInv, AnswersInv, Receive
    PROVE  StreamInv' /\ AnswersInv'
<1>1. /\ UNCHANGED <<requests, pipelined, buf, pc, current, growing, to_server, replaced>>
      /\ \/ ~open' /\ UNCHANGED answers
         \/ open' /\ Stream' = Stream /\ UNCHANGED answers
         \/ open' /\ \E m \in Nat : Accepts(m)
  BY ReceiveEffect
<1>2. open /\ History
  BY <1>1, StepHistory DEF Receive
<1>3. CASE ~open' /\ UNCHANGED answers
  BY <1>2, <1>3, AnswersKept DEF StreamInv
<1>4. CASE Stream' = Stream /\ UNCHANGED answers
  <2>1. AnswersInv'
    BY <1>2, <1>4, AnswersKept
  <2>2. Served' = Served /\ Unread' = Unread /\ Served \in Nat
    BY <1>1, ServedType DEF Served, Unread
  <2>3. pc' = pc /\ growing' = growing /\ current' = current /\ UNCHANGED <<requests, pipelined>>
    BY <1>1
  <2>4. IdsInv' /\ ResponseInv' /\ HeadInv'
    <3>1. Served' >= Served
      BY <2>2
    <3> QED
      BY <1>2, <1>4, <2>3, <3>1, SameStream
  <2>5. AloneInv'
    BY <1>2, <1>4, <2>2, <2>3 DEF StreamInv, AloneInv, LastRequest, IsHead
  <2> QED
    BY <2>1, <2>2, <2>3, <2>4, <2>5 DEF StreamInv
<1>5. CASE \E m \in Nat : Accepts(m)
  BY <1>1, <1>2, <1>5, AcceptsKeeps
<1> QED
  BY <1>1, <1>3, <1>4, <1>5

LEMMA StreamStep ==
    ASSUME Typed, Typed', UnreadInv, UnreadInv', StreamInv, AnswersInv, [Next]_vars
    PROVE  StreamInv' /\ AnswersInv'
<1>1. CASE Server
  BY <1>1, ServerStream
<1>2. CASE Receive
  BY <1>2, ReceiveStream
<1>3. CASE Disconnect \/ EndOfStream
  <2>1. ~open' /\ UNCHANGED <<requests, pipelined, replaced, answers>>
    BY <1>3 DEF Disconnect, EndOfStream, Close
  <2>2. History
    BY <2>1, StepHistory
  <2> QED
    BY <2>1, <2>2, AnswersKept DEF StreamInv
<1>4. CASE \E r \in Requests : SendRequest(r)
  <2>1. PICK r \in Requests : SendRequest(r)
    BY <1>4
  <2>2. open /\ UNCHANGED answers
    BY <2>1 DEF SendRequest
  <2> QED
    BY <2>1, <2>2, SendStream, AnswersKept
<1>5. CASE UNCHANGED vars
  <2>1. UNCHANGED <<requests, to_server, buf, current, growing, to_client, pending, answers,
                    pipelined, replaced, pc, open>>
    BY <1>5 DEF vars, serverVars, clientVars
  <2>2. History /\ Stream' = Stream /\ Served' = Served /\ Unread' = Unread /\ Served \in Nat
    BY <2>1, StepHistory, ServedType DEF Stream, Served, Unread
  <2>3. AnswersInv'
    BY <2>1, <2>2, AnswersKept
  <2>4. ASSUME open PROVE StreamInv'
    <3>1. pc' = pc /\ growing' = growing /\ current' = current
      BY <2>1
    <3>2. Served' >= Served
      BY <2>2
    <3>3. IdsInv' /\ ResponseInv' /\ HeadInv'
      BY <2>1, <2>2, <2>4, <3>1, <3>2, SameStream
    <3> QED
      BY <2>1, <2>2, <2>4, <3>3 DEF StreamInv, AloneInv, LastRequest, IsHead
  <2> QED
    BY <2>1, <2>3, <2>4 DEF StreamInv
<1> QED
  BY <1>1, <1>2, <1>3, <1>4, <1>5 DEF Next

-----------------------------------------------------------------------------
(* The theorems. *)

IInv == Typed /\ UnreadInv /\ StreamInv /\ AnswersInv

LEMMA StreamInit == Init => StreamInv /\ AnswersInv
<1> SUFFICES ASSUME Init PROVE StreamInv /\ AnswersInv
  OBVIOUS
<1>1. Stream = <<>> /\ Len(Stream) = 0 /\ Unread = <<>>
  BY DEF Init, Stream, Unread
<1>2. answers = <<>> /\ Len(answers) = 0 /\ requests = <<>> /\ Len(requests) = 0 /\ pc = "reading"
  BY DEF Init
<1>3. StreamInv
  BY <1>1, <1>2 DEF StreamInv, IdsInv, ResponseInv, HeadInv, AloneInv
<1> QED
  BY <1>2, <1>3 DEF AnswersInv

\* On every connection what is under way is a sequence of responses, each a head and
\* the bytes it promises, in the order of the requests, and what the client takes for
\* a response is one of them: serve_client reads, serves and answers one request
\* after the other.
THEOREM Streaming == Spec => []IInv
<1>1. Init => IInv
  BY TypedInit, StreamInit DEF IInv
<1>2. IInv /\ [Next]_vars => IInv'
  BY TypedStep, StreamStep DEF IInv
<1> QED
  BY <1>1, <1>2, PTL DEF Spec

\* The client has no more answers than it has made requests.
LEMMA AnswersCounted ==
    ASSUME Typed, AnswersInv
    PROVE  Len(answers) \in Nat /\ Len(answers) <= Len(requests)
<1>1. Len(answers) \in Nat /\ Len(requests) \in Nat
  BY ServedType
<1>2. CASE Len(answers) > 0
  <2>1. Len(answers) \in 1..Len(answers)
    BY <1>1, <1>2
  <2> QED
    BY <1>1, <2>1, AnswerIds
<1> QED
  BY <1>1, <1>2

LEMMA TypesHold == Typed /\ AnswersInv => TypeOK
<1> SUFFICES ASSUME Typed, AnswersInv PROVE TypeOK
  OBVIOUS
<1>1. Len(answers) <= MaxRequests
  <2>1. Len(answers) \in Nat /\ Len(answers) <= Len(requests) /\ Len(requests) \in Nat
    BY AnswersCounted, ServedType
  <2>2. Len(requests) <= MaxRequests /\ MaxRequests \in Nat
    BY BoundsAssumption DEF Typed
  <2> QED
    BY <2>1, <2>2
<1>2. \A k \in DOMAIN to_server : to_server[k] \in (1..MaxRequests) \X (1..(MaxHeader + 1))
  BY DEF Typed, Pieces
<1>3. ASSUME NEW k \in DOMAIN to_client, to_client[k].type = "head"
      PROVE  to_client[k].length \in 0..(Width - 1)
  <2>1. to_client[k] \in Items
    BY <1>3 DEF Typed
  <2> QED
    BY <1>3, <2>1, ItemTypes DEF IsHead
<1>4. {open, pipelined, replaced} \subseteq BOOLEAN
  BY Zenon DEF Typed
<1> QED
  BY <1>1, <1>2, <1>3, <1>4 DEF TypeOK, Typed

\* read_client_header, serve_request and the client keep the types of their variables.
THEOREM TypeCorrect == Spec => []TypeOK
BY Streaming, TypesHold, PTL DEF IInv

LEMMA InOrder == Typed /\ AnswersInv => AnswersInOrder
<1> SUFFICES ASSUME Typed, AnswersInv, NEW k \in DOMAIN answers, ~(pipelined /\ replaced)
             PROVE  /\ \A i \in DOMAIN answers[k] : answers[k][i].id = IdOf(k)
                    /\ k > 1 => IdOf(k - 1) < IdOf(k)
                    /\ ~pipelined => IdOf(k) = k
  BY DEF AnswersInOrder
<1>1. k \in 1..Len(answers) /\ answers[k] \in Seq(Items)
  BY DEF Typed
<1>2. AnswerOf(k)
  BY <1>1 DEF AnswersInv
<1>3. ASSUME NEW i \in DOMAIN answers[k] PROVE answers[k][i].id = IdOf(k)
  <2>1. CASE i = 1
    BY <2>1 DEF IdOf
  <2>2. CASE i # 1
    <3>1. i \in 2..Len(answers[k])
      BY <1>1, <1>3, <2>2
    <3> QED
      BY <1>2, <3>1, ByteFields DEF AnswerOf
  <2> QED
    BY <2>1, <2>2
<1> QED
  BY <1>2, <1>3 DEF AnswerOf

\* What the client receives on a persistent connection are the responses that
\* serve_request has sent, whole and in the order of the requests; a client that
\* waits receives the answer to each request it has made.
THEOREM Ordered == Spec => []AnswersInOrder
BY Streaming, InOrder, PTL DEF IInv

\* Content-Range of reply_header_partial, where there is a byte left of the file.
LEMMA RangeOfRest ==
    ASSUME NEW size \in 0..MaxSize, NEW from \in 0..MaxSize, from < size,
           NEW length, length = RemainingContentLength(size, from)
    PROVE  Wrap(length + from) = size /\ Wrap(size - 1) = size - 1
<1>1. length + from = size
  BY Widths DEF RemainingContentLength
<1>2. size \in 0..(Width - 1) /\ size - 1 \in 0..(Width - 1)
  BY Widths
<1> QED
  BY <1>1, <1>2, WrapSmall

\* A response whose body is what is left of a file.
IsRest(answer, id, from, size) ==
    /\ Len(answer) = 1 + (IF size > from THEN size - from ELSE 0)
    /\ \A i \in 2..Len(answer) :
          answer[i] = [type |-> "byte", id |-> id, at |-> from + (i - 1) - 1]

LEMMA TailIsBytes ==
    ASSUME NEW answer \in Seq(Items), NEW id \in Nat, NEW from \in Nat, NEW size \in Nat,
           IsRest(answer, id, from, size)
    PROVE  Tail(answer) = Bytes(id, from, size)
<1> DEFINE S == Items
           t == Tail(answer)
           b == Bytes(id, from, size)
<1> USE DEF IsRest
<1>1. /\ b \in Seq(S) /\ Len(b) = IF size > from THEN size - from ELSE 0
      /\ \A n \in 1..(size - from) : b[n] = [type |-> "byte", id |-> id, at |-> from + n - 1]
  BY BytesType
<1>2. /\ t \in Seq(S) /\ Len(t) = Len(answer) - 1
      /\ \A n \in 1..Len(t) : t[n] = answer[n + 1]
  <2>1. Len(answer) \in Nat /\ Len(answer) >= 1
    OBVIOUS
  <2>2. answer # <<>>
    BY <2>1
  <2> QED
    BY <2>2
<1> HIDE DEF S, t, b
<1>3. Len(t) = Len(b) /\ Len(b) \in Nat
  BY <1>1, <1>2
<1>4. ASSUME NEW n \in 1..Len(t) PROVE t[n] = b[n]
  <2>1. n + 1 \in 2..Len(answer) /\ (n + 1) - 1 = n /\ n \in 1..(size - from)
    BY <1>1, <1>3
  <2>2. t[n] = answer[n + 1] /\ answer[n + 1] = [type |-> "byte", id |-> id, at |-> from + n - 1]
    BY <1>2, <2>1
  <2> QED
    BY <1>1, <2>1, <2>2
<1>5. t = b
  BY <1>1, <1>2, <1>3, <1>4, SeqEqual
<1> QED
  BY <1>5 DEF t, b

LEMMA WholeRestOfFile == Typed /\ AnswersInv => RestOfFile
<1> SUFFICES ASSUME Typed, AnswersInv, ~replaced, NEW k \in DOMAIN answers,
                    requests[IdOf(k)].kind = "order", answers[k][1].status \in {200, 206}
             PROVE  LET head == answers[k][1]  id == IdOf(k)  from == Offset(requests[id])
                    IN  /\ Tail(answers[k]) = Bytes(id, from, head.size)
                        /\ from < head.size /\ head.status = 206
                           => head.range = <<from, head.size - 1, head.size>>
  BY DEF RestOfFile
<1> PICK answer, id : answer = answers[k] /\ id = IdOf(k)
  OBVIOUS
<1> PICK head, from : head = answer[1] /\ from = From(id)
  OBVIOUS
<1>1. k \in 1..Len(answers) /\ answer \in Seq(Items) /\ head.id = id /\ k \in Nat
  <2>1. k \in 1..Len(answers) /\ answers[k] \in Seq(Items) /\ Len(answers) \in Nat
    <3> DEFINE S == Seq(Items)
    <3>1. answers \in Seq(S)
      BY DEF Typed
    <3> HIDE DEF S
    <3>2. k \in 1..Len(answers) /\ answers[k] \in S /\ Len(answers) \in Nat
      BY <3>1
    <3> QED
      BY <3>2 DEF S
  <2>2. head.id = id
    BY DEF IdOf
  <2> QED
    BY <2>1, <2>2
<1>2. AnswerOf(k)
  BY <1>1 DEF AnswersInv
<1>3. /\ Len(answer) = 1 + head.length /\ Promises(head)
      /\ \A i \in 2..Len(answer) : answer[i] = ByteOf(id, i - 1)
  BY <1>2 DEF AnswerOf
<1>4. requests[head.id].kind = "order" /\ head.status \in {200, 206} /\ From(head.id) = from
  BY <1>1
<1>5. id \in 1..Len(requests) /\ id \in Nat
  BY <1>1, AnswerIds
<1>6. from \in 0..MaxSize /\ from \in Nat
  BY <1>5, RequestType, Widths DEF From
<1> PICK size, length : size = head.size /\ length = head.length
  OBVIOUS
<1>7. /\ size \in 0..MaxSize /\ size \in Nat /\ length = RemainingContentLength(size, from)
      /\ head.status = 206
         => head.range = <<from, Wrap(Wrap(length + from) - 1), Wrap(length + from)>>
  BY <1>3, <1>4, Widths DEF Promises
<1>8. length \in Nat /\ length = IF size > from THEN size - from ELSE 0
  BY <1>6, <1>7 DEF RemainingContentLength
<1>9. Tail(answer) = Bytes(id, from, size)
  <2>1. Len(answer) = 1 + (IF size > from THEN size - from ELSE 0)
    BY <1>3, <1>8
  <2>2. \A i \in 2..Len(answer) : answer[i] = [type |-> "byte", id |-> id, at |-> from + (i - 1) - 1]
    BY <1>3 DEF ByteOf
  <2>3. IsRest(answer, id, from, size)
    BY <2>1, <2>2 DEF IsRest
  <2>4. answer \in Seq(Items) /\ id \in Nat /\ from \in Nat /\ size \in Nat
    BY <1>1, <1>5, <1>6, <1>7
  <2> QED
    BY <2>3, <2>4, TailIsBytes
<1>10. ASSUME from < size, head.status = 206 PROVE head.range = <<from, size - 1, size>>
  <2>1. Wrap(length + from) = size /\ Wrap(size - 1) = size - 1
    BY <1>6, <1>7, <1>10, RangeOfRest
  <2> QED
    BY <1>7, <1>10, <2>1
<1> QED
  BY <1>9, <1>10 DEF From

\* The answer to an order is what is left of the complete file from the byte that
\* the client has asked for, and Content-Length and Content-Range say so, in spite of
\* arithmetic that wraps: saturating_sub, content_length and reply_header_partial.
\* The exception is a file that was purged after try_schedule had seen it.
THEOREM WholeRest == Spec => []RestOfFile
BY Streaming, WholeRestOfFile, PTL DEF IInv

=============================================================================
