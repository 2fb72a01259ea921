--------------------------- MODULE HttpsConnProofs ---------------------------
(***************************************************************************)
(* For every set of hosts and descriptors and every length of a redirect   *)
(* chain: the keep-alive fetch leaks no socket and closes none twice,      *)
(* every request goes to the host it is meant for, and responses stay in   *)
(* sync with the requests.                                                 *)
(*                                                                         *)
(* ConnInv strengthens SocketsAccounted and RightHost by what each place   *)
(* of the program knows of the connection: none while one is being opened, *)
(* a socket but no session during the handshake, a live session to         *)
(* job.host from there to the end of the exchange.  SyncInv adds what is   *)
(* on the connection: see the second half.                                 *)
(***************************************************************************)
EXTENDS HttpsConn, SequenceTheorems, TLAPS

F == INSTANCE Iteration WITH op <- FeedOne

\* conn has the fields of struct tls13_https_conn, and job its three; what they
\* hold does not matter here.
ConnType ==
    conn \in [alive : BOOLEAN, sock : Fd \cup {NoFd}, host : {conn.host},
              stash : {conn.stash}]

JobType ==
    job \in [host : {job.host}, step : {job.step}, attempt : {job.attempt}]

\* What the place the client is at says of the connection.
AtPc ==
    /\ pc = "open" => ~conn.alive
    /\ pc = "handshake" =>
            ~conn.alive /\ conn.sock \in Fd /\ conn.host = job.host
    /\ pc \in {"send", "read"} => conn.alive /\ conn.host = job.host

LiveHasSocket == conn.alive => conn.sock \in Fd

ConnInv == ConnType /\ JobType /\ SocketsAccounted /\ LiveHasSocket /\ AtPc

USE HttpsAssumption

\* At the start there is no connection and no socket.
LEMMA InitConn == Init => ConnInv
  BY DEF Init, ConnInv, ConnType, JobType, SocketsAccounted, LiveHasSocket,
         AtPc, NoConn

\* tls13_https_conn_close, wherever no handshake is under way: no socket is
\* open afterwards, whether one was before or not.
LEMMA CloseConnFacts ==
  ASSUME ConnInv, pc # "handshake", CloseConn
  PROVE  /\ fds' = {}
         /\ ~conn'.alive
         /\ ConnType'
  <1>1. conn' = [conn EXCEPT !.alive = FALSE, !.sock = NoFd, !.stash = <<>>]
    BY DEF CloseConn
  <1>2. conn' = [alive |-> FALSE, sock |-> NoFd, host |-> conn.host, stash |-> <<>>]
    BY <1>1 DEF ConnInv, ConnType
  <1>4. ~conn'.alive /\ ConnType'
    BY <1>2 DEF ConnType
  <1>5. fds' = {}
    BY DEF ConnInv, SocketsAccounted, LiveHasSocket, CloseConn
  <1>6. QED
    BY <1>4, <1>5

\* A closed connection satisfies the invariant wherever the client goes next,
\* but for the places where it needs one.
LEMMA ClosedInv ==
  ASSUME ConnInv, pc # "handshake", CloseConn, JobType',
         pc' \in {"idle", "step", "open"}
  PROVE  ConnInv'
  <1>1. fds' = {} /\ ~conn'.alive /\ ConnType'
    BY CloseConnFacts
  <1>2. QED
    BY <1>1 DEF ConnInv, SocketsAccounted, LiveHasSocket, AtPc

\* A step that leaves the connection and the sockets alone, and does not go to
\* a place that needs a session unless there is one.
LEMMA KeptInv ==
  ASSUME ConnInv, JobType', ConnType',
         fds' = fds, conn'.alive = conn.alive, conn'.sock = conn.sock,
         pc # "handshake", AtPc', pc' # "handshake"
  PROVE  ConnInv'
  BY DEF ConnInv, SocketsAccounted, LiveHasSocket

\* The end of a job (EndJob) resets what the loops of the fetch keep.
LEMMA EndJobFacts ==
  ASSUME EndJob
  PROVE  pc' = "idle" /\ JobType'
  BY DEF EndJob, JobType

\* The places of the client before the request: the redirect loop, and
\* https_conn_open_host.
LEMMA OpeningInv ==
  ASSUME ConnInv,
         \/ \E h \in Host : StartJob(h)
         \/ StepReuses \/ StepOpens \/ StepLimit
         \/ Connect \/ ConnectFails \/ HandshakeOk \/ HandshakeFails
  PROVE  ConnInv'
  <1>1. ASSUME NEW h \in Host, StartJob(h) PROVE ConnInv'
    <2>1. JobType' /\ AtPc' /\ ConnType' /\ pc # "handshake" /\ pc' # "handshake"
      BY <1>1 DEF StartJob, JobType, AtPc, ConnType, ConnInv
    <2>2. QED
      BY <1>1, <2>1, KeptInv DEF StartJob
  <1>2. CASE StepReuses
    <2>1. job' = [job EXCEPT !.attempt = 0]
      BY <1>2 DEF StepReuses
    <2>2. JobType' /\ job'.host = job.host
      BY <2>1 DEF ConnInv, JobType
    <2>3. AtPc' /\ ConnType' /\ pc # "handshake" /\ pc' # "handshake"
      BY <1>2, <2>2 DEF StepReuses, Reusable, AtPc, ConnType, ConnInv
    <2>4. QED
      BY <1>2, <2>2, <2>3, KeptInv DEF StepReuses
  <1>3. CASE StepOpens
    <2>1. job' = [job EXCEPT !.attempt = 0]
      BY <1>3 DEF StepOpens
    <2>2. JobType'
      BY <2>1 DEF ConnInv, JobType
    <2>3. QED
      BY <1>3, <2>2, ClosedInv DEF StepOpens
  <1>4. CASE StepLimit
    BY <1>4, EndJobFacts, KeptInv
       DEF StepLimit, KeepConn, AtPc, ConnType, ConnInv
  <1>5. CASE Connect
    <2>1. PICK s \in Fd :
            /\ fds' = fds \cup {s}
            /\ conn' = [alive |-> FALSE, sock |-> s, host |-> job.host,
                        stash |-> <<>>]
      BY <1>5 DEF Connect
    <2>2. fds' = {conn'.sock} /\ ConnType' /\ AtPc' /\ JobType'
      BY <1>5, <2>1
         DEF Connect, ConnInv, SocketsAccounted, AtPc, ConnType, JobType
    <2>3. QED
      BY <1>5, <2>1, <2>2 DEF Connect, ConnInv, SocketsAccounted, LiveHasSocket
  <1>6. CASE ConnectFails
    BY <1>6, EndJobFacts, KeptInv
       DEF ConnectFails, KeepConn, AtPc, ConnType, ConnInv
  <1>7. CASE HandshakeOk
    <2>1. conn' = [conn EXCEPT !.alive = TRUE]
      BY <1>7 DEF HandshakeOk
    <2>2. /\ conn'.alive /\ conn'.sock = conn.sock /\ conn'.host = conn.host
          /\ ConnType'
      BY <2>1 DEF ConnInv, ConnType
    <2>3. JobType' /\ AtPc'
      BY <1>7, <2>2 DEF HandshakeOk, ConnInv, JobType, AtPc
    <2>4. QED
      BY <1>7, <2>2, <2>3
         DEF HandshakeOk, ConnInv, SocketsAccounted, LiveHasSocket, AtPc
  <1>8. CASE HandshakeFails
    <2>1. conn' = [conn EXCEPT !.sock = NoFd]
      BY <1>8 DEF HandshakeFails
    <2>2. ~conn'.alive /\ ConnType'
      BY <1>8, <2>1 DEF HandshakeFails, ConnInv, ConnType, AtPc
    <2>3. fds' = {}
      BY <1>8 DEF HandshakeFails, ConnInv, SocketsAccounted
    <2>4. pc' = "idle" /\ JobType'
      BY <1>8, EndJobFacts DEF HandshakeFails
    <2>5. QED
      BY <2>2, <2>3, <2>4 DEF ConnInv, SocketsAccounted, LiveHasSocket, AtPc
  <1>9. QED
    BY <1>1, <1>2, <1>3, <1>4, <1>5, <1>6, <1>7, <1>8

\* The exchange, tls13_https_conn_get_status_location_and_body: it touches the
\* stash only, and the server touches nothing of the client's.
LEMMA ExchangeInv ==
  ASSUME ConnInv, Send \/ ReadRecord \/ ReadEof \/ ReadFails \/ Peer
  PROVE  ConnInv'
  <1>1. CASE Send
    <2>1. UNCHANGED <<job, fds>> /\ pc = "send" /\ pc' \in {"read", "retry", "decide"}
      BY <1>1 DEF Send, Outcome
    <2>2. \/ conn' = conn
          \/ \E st : conn' = [conn EXCEPT !.stash = st]
      BY <1>1 DEF Send
    <2>3. /\ conn'.alive = conn.alive /\ conn'.sock = conn.sock
          /\ conn'.host = conn.host /\ ConnType'
      BY <2>2 DEF ConnInv, ConnType
    <2>4. JobType' /\ AtPc'
      BY <2>1, <2>3 DEF ConnInv, JobType, AtPc
    <2>5. QED
      BY <2>1, <2>3, <2>4, KeptInv
  <1>2. CASE ReadRecord
    <2>1. UNCHANGED <<job, fds>> /\ pc = "read" /\ pc' \in {"read", "retry", "decide"}
      BY <1>2 DEF ReadRecord, Outcome
    <2>2. \/ conn' = conn
          \/ \E st : conn' = [conn EXCEPT !.stash = st]
      BY <1>2 DEF ReadRecord
    <2>3. /\ conn'.alive = conn.alive /\ conn'.sock = conn.sock
          /\ conn'.host = conn.host /\ ConnType'
      BY <2>2 DEF ConnInv, ConnType
    <2>4. JobType' /\ AtPc'
      BY <2>1, <2>3 DEF ConnInv, JobType, AtPc
    <2>5. QED
      BY <2>1, <2>3, <2>4, KeptInv
  <1>3. CASE ReadEof \/ ReadFails
    <2>1. /\ UNCHANGED <<job, fds, conn>> /\ pc = "read"
          /\ pc' \in {"retry", "decide"}
      BY <1>3 DEF ReadEof, ReadFails, Outcome
    <2>2. JobType' /\ AtPc' /\ ConnType'
      BY <2>1 DEF ConnInv, JobType, AtPc, ConnType
    <2>3. QED
      BY <2>1, <2>2, KeptInv
  <1>4. CASE Peer
    <2>1. UNCHANGED <<pc, job, conn, fds>>
      BY <1>4 DEF Peer, PeerSends, PeerTicket, PeerCloses, PeerResets, PeerUnchanged
    <2>2. QED
      BY <2>1 DEF ConnInv, ConnType, JobType, SocketsAccounted, LiveHasSocket, AtPc
  <1>5. QED
    BY <1>1, <1>2, <1>3, <1>4

\* After the exchange: the connection is closed or kept, and the job goes on or
\* ends.
LEMMA AfterInv ==
  ASSUME ConnInv, Retry \/ Decide \/ Redirect
  PROVE  ConnInv'
  <1>1. CASE Retry
    <2>1. job' = [job EXCEPT !.attempt = @ + 1]
      BY <1>1 DEF Retry
    <2>2. JobType'
      BY <2>1 DEF ConnInv, JobType
    <2>3. QED
      BY <1>1, <2>2, ClosedInv DEF Retry
  <1>2. CASE Decide \/ Redirect
    <2>1. CloseConn \/ KeepConn
      BY <1>2 DEF Decide, Redirect, CloseIfMust
    <2>2. pc = "decide" /\ pc' \in {"idle", "step"} /\ JobType'
      BY <1>2, EndJobFacts DEF Decide, Redirect, JobType
    <2>3. CASE CloseConn
      BY <2>2, <2>3, ClosedInv
    <2>4. CASE KeepConn
      BY <2>2, <2>4, KeptInv DEF KeepConn, ConnInv, ConnType, AtPc
    <2>5. QED
      BY <2>1, <2>3, <2>4
  <1>3. QED
    BY <1>1, <1>2

\* ConnInv survives every step of the client and of the server.
LEMMA StepConn == ConnInv /\ [Next]_vars => ConnInv'
  <1> SUFFICES ASSUME ConnInv, [Next]_vars PROVE ConnInv'
    OBVIOUS
  <1>1. CASE UNCHANGED vars
    BY <1>1 DEF vars, ConnInv, ConnType, JobType, SocketsAccounted,
                LiveHasSocket, AtPc
  <1>2. CASE Next
    BY <1>2, OpeningInv, ExchangeInv, AfterInv DEF Next, Client
  <1>3. QED
    BY <1>1, <1>2

\* The process has exactly the socket it uses open, after any number of jobs,
\* redirects, retries, failed handshakes and closed connections
\* (tls13_https_conn_close, https_conn_open_host).
THEOREM SocketsSafe == Spec => []SocketsAccounted
  <1>1. ConnInv => SocketsAccounted
    BY DEF ConnInv
  <1>2. QED
    BY <1>1, InitConn, StepConn, PTL DEF Spec

\* A request goes to the host its URL or its redirect names, over a reused
\* connection too (the test of c->host at the head of the redirect loop).
THEOREM RequestsToRightHost == Spec => []RightHost
  <1>1. ConnInv => RightHost
    BY DEF ConnInv, AtPc, RightHost
  <1>2. QED
    BY <1>1, InitConn, StepConn, PTL DEF Spec

-----------------------------------------------------------------------------
(***************************************************************************)
(* Responses stay in sync.  While a response is read, what has been read   *)
(* of it (feed), the records on their way and what the server has still to *)
(* send make up one expected answer (Arrives): there is a value of feed    *)
(* for each record, each what http_resp_feed makes of the one before, none *)
(* of them bad or stale, and the last of them expects what the server will *)
(* send.  While none is read, nothing is left anywhere (Quiet), unless the *)
(* connection is about to be closed.                                       *)
(***************************************************************************)

\* struct http_resp_feed_ctx, and what it holds while it is fed one response: a
\* body is being read only if it has a length to come, or chunks; nothing is
\* complete before its head.
FeedState == [head : BOOLEAN, fr : Framing, left : Nat, to : Host \cup {NoHost},
              done : BOOLEAN, bad : {FALSE}, close : BOOLEAN, stale : {FALSE},
              used : Nat]

Fed == {f \in FeedState :
          /\ f.head \/ ~f.done
          /\ f.head /\ ~f.done => f.fr # "none"
          /\ f.head /\ ~f.done /\ f.fr = "length" => f.left > 0}

\* The response is complete and its end is known.
Over(f) == f.done /\ f.fr # "none"

\* units can be (part of) what follows a head of framing fr and length n.
BodyOf(fr, n, units) ==
    /\ fr = "length" => Len(units) <= n /\ \A i \in 1..Len(units) : units[i].t = "body"
    /\ fr = "chunked" =>
         \A i \in 1..Len(units) :
            units[i].t = "body" \/ (units[i].t = "term" /\ i = Len(units))

\* units can be (part of) what is still to come of the answer f is reading.
Expected(f, units) ==
    /\ units \in Seq(Unit)
    /\ \A i \in 1..Len(units) : units[i].new
    /\ f.done => f.fr = "none" \/ units = <<>>
    /\ ~f.done /\ ~f.head /\ units # <<>> =>
         units[1].t = "head" /\ BodyOf(units[1].fr, units[1].n, Tail(units))
    /\ ~f.done /\ f.head => BodyOf(f.fr, f.left, units)

\* http_resp_feed goes through its input with FeedOne.
LEMMA FeedIs ==
  ASSUME NEW f, NEW units
  PROVE  Feed(f, units) = F!Fold([f EXCEPT !.used = 0], units)
<1>1. ASSUME NEW base PROVE FoldLeft(FeedOne, base, units) = F!Fold(base, units)
  BY DEF F!Fold, FoldLeft, MapThenFoldSet, Max, F!Largest
<1> QED BY <1>1 DEF Feed

\* The empty sequence of units.
LEMMA NoUnits == \A units \in Seq(Unit) : units = <<>> <=> Len(units) = 0
  BY EmptySeq

\* Fed nothing, the response is as far as it was.
LEMMA FeedNothing ==
  ASSUME NEW f \in Fed
  PROVE  Feed(f, <<>>) = [f EXCEPT !.used = 0]
  BY FeedIs, F!FoldEmpty

\* One unit of the expected answer.
LEMMA FeedOneFact ==
  ASSUME NEW f \in Fed, NEW units, units # <<>>, Expected(f, units)
  PROVE  LET g == FeedOne(f, units[1])
         IN  /\ g \in Fed
             /\ g.used = f.used + 1 \/ (g.done /\ g.fr = "none")
             /\ Expected(g, Tail(units))
             /\ Over(f) => g = f
<1> DEFINE u == units[1]
           g == FeedOne(f, u)
           n == Len(units)
           rest == Tail(units)
<1>1. /\ units \in Seq(Unit) /\ u \in Unit /\ u.new /\ n \in Nat \ {0}
      /\ \A i \in 1..n : units[i] \in Unit
  <2>1. units \in Seq(Unit)
    BY DEF Expected
  <2>2. n \in Nat \ {0} /\ 1 \in 1..n
    BY <2>1, EmptySeq
  <2>3. \A i \in 1..n : units[i] \in Unit
    BY <2>1, ElementOfSeq
  <2> QED BY <2>1, <2>2, <2>3 DEF Expected
<1>2. /\ rest \in Seq(Unit) /\ Len(rest) = n - 1
      /\ \A i \in 1..(n - 1) : rest[i] = units[i + 1]
  BY <1>1, HeadTailProperties
<1>3. \A i \in 1..Len(rest) : rest[i].new
  BY <1>1, <1>2 DEF Expected
<1>0. rest = <<>> <=> Len(rest) = 0
  BY <1>2, NoUnits
<1> HIDE DEF rest, n
<1>4. CASE f.done
  <2>1. f.fr = "none" /\ g = f
    BY <1>4 DEF Expected, FeedOne
  <2>2. Expected(f, rest)
    BY <1>2, <1>3, <1>4, <2>1 DEF Expected
  <2> QED BY <1>4, <2>1, <2>2 DEF rest, Over
<1>5. CASE ~f.done
  <2> DEFINE e == [f EXCEPT !.used = @ + 1, !.stale = @ \/ ~u.new]
  <2>1. /\ e \in FeedState /\ e.used = f.used + 1
        /\ e.head = f.head /\ e.fr = f.fr /\ e.left = f.left /\ ~e.done
    <3>1. f \in FeedState
      BY DEF Fed
    <3>2. (f.stale \/ ~u.new) = FALSE
      BY <1>1, <3>1 DEF FeedState
    <3>3. e = [f EXCEPT !.used = f.used + 1, !.stale = FALSE]
      BY <3>2
    <3> HIDE DEF e
    <3>4. e = [head |-> f.head, fr |-> f.fr, left |-> f.left, to |-> f.to,
               done |-> f.done, bad |-> f.bad, close |-> f.close, stale |-> FALSE,
               used |-> f.used + 1]
      BY <3>1, <3>3 DEF FeedState
    <3>5. f.used + 1 \in Nat
      BY <3>1 DEF FeedState
    <3> QED BY <1>5, <3>1, <3>4, <3>5 DEF FeedState
  <2>2. g = IF f.head THEN FeedBody(e, u)
            ELSE IF u.t = "head" THEN FeedHead(e, u) ELSE e
    BY <1>5 DEF FeedOne, Fed, FeedState
  <2>3. CASE f.head /\ f.fr = "chunked"
    <3>1. /\ u.t # "head" /\ (u.t = "term" => n = 1)
          /\ \A i \in 1..n : units[i].t = "body" \/ (units[i].t = "term" /\ i = n)
      <4>1. BodyOf("chunked", f.left, units)
        BY <1>5, <2>3 DEF Expected
      <4>2. \A i \in 1..n : units[i].t = "body" \/ (units[i].t = "term" /\ i = n)
        BY <4>1 DEF BodyOf, n
      <4> QED BY <1>1, <4>2
    <3>2. g = [e EXCEPT !.done = u.t = "term", !.bad = FALSE]
      BY <2>1, <2>2, <2>3, <3>1 DEF FeedBody
    <3> HIDE DEF g, e
    <3>3. /\ g \in FeedState /\ g.head /\ g.fr = "chunked" /\ g.used = f.used + 1
          /\ g.done <=> u.t = "term"
      BY <2>1, <2>3, <3>2 DEF FeedState
    <3>4. g.done => rest = <<>>
      BY <1>2, <3>1, <3>3, <1>0
    <3>5. BodyOf("chunked", g.left, rest)
      <4>1. ASSUME NEW i \in 1..Len(rest)
            PROVE  rest[i].t = "body" \/ (rest[i].t = "term" /\ i = Len(rest))
        <5>1. i + 1 \in 1..n /\ rest[i] = units[i + 1] /\ (i + 1 = n => i = Len(rest))
          BY <1>1, <1>2
        <5> QED BY <3>1, <5>1
      <4> QED BY <4>1 DEF BodyOf
    <3>6. Expected(g, rest)
      BY <1>2, <1>3, <3>3, <3>4, <3>5 DEF Expected
    <3>7. g \in Fed
      BY <3>3 DEF Fed
    <3> QED BY <1>5, <3>3, <3>6, <3>7 DEF g, rest, Over
  <2>4. CASE f.head /\ f.fr = "length"
    <3>1. /\ n <= f.left /\ \A i \in 1..n : units[i].t = "body"
      <4>1. BodyOf("length", f.left, units)
        BY <1>5, <2>4 DEF Expected
      <4> QED BY <4>1 DEF BodyOf, n
    <3>2. g = [e EXCEPT !.left = f.left - 1, !.done = (f.left = 1)]
      BY <2>1, <2>2, <2>4 DEF FeedBody, FeedState
    <3> HIDE DEF g, e
    <3>3. f.left \in Nat \ {0}
      BY <1>5, <2>4 DEF Fed, FeedState
    <3>4. /\ g \in FeedState /\ g.head /\ g.fr = "length" /\ g.used = f.used + 1
          /\ (g.done <=> f.left = 1) /\ g.left = f.left - 1
      <4>1. f.left - 1 \in Nat /\ (f.left = 1) \in BOOLEAN
        BY <3>3
      <4>2. g = [head |-> e.head, fr |-> e.fr, left |-> f.left - 1, to |-> e.to,
                 done |-> (f.left = 1), bad |-> e.bad, close |-> e.close,
                 stale |-> e.stale, used |-> e.used]
        BY <2>1, <3>2 DEF FeedState
      <4>3. g \in FeedState
        BY <2>1, <4>1, <4>2 DEF FeedState
      <4> QED BY <2>1, <2>4, <4>2, <4>3
    <3>5. g.done => rest = <<>>
      BY <1>1, <1>2, <3>1, <3>4, <1>0
    <3>6. BodyOf("length", g.left, rest)
      BY <1>1, <1>2, <3>1, <3>3, <3>4 DEF BodyOf
    <3>7. Expected(g, rest)
      BY <1>2, <1>3, <3>4, <3>5, <3>6 DEF Expected
    <3>8. g \in Fed
      BY <3>3, <3>4 DEF Fed
    <3> QED BY <1>5, <3>4, <3>7, <3>8 DEF g, rest, Over
  <2>5. CASE ~f.head
    <3>1. u.t = "head" /\ BodyOf(u.fr, u.n, rest)
      BY <1>5, <2>5 DEF Expected, rest
    <3>2. g = [e EXCEPT !.head = TRUE, !.fr = u.fr, !.left = u.n, !.to = u.to,
                        !.close = u.bye,
                        !.done = u.fr = "none" \/ (u.fr = "length" /\ u.n = 0)]
      BY <2>2, <2>5, <3>1 DEF FeedHead
    <3> HIDE DEF e
    <3>3. u.fr \in Framing /\ u.n \in Nat /\ u.to \in Host \cup {NoHost} /\ u.bye \in BOOLEAN
      BY <1>1 DEF Unit
    <3> HIDE DEF g, u
    <3>4. /\ g \in FeedState /\ g.head /\ g.fr = u.fr /\ g.used = f.used + 1
          /\ (g.done <=> u.fr = "none" \/ (u.fr = "length" /\ u.n = 0)) /\ g.left = u.n
      BY <2>1, <3>2, <3>3 DEF FeedState
    <3>5. g.done => g.fr = "none" \/ rest = <<>>
      BY <1>1, <1>2, <3>1, <3>3, <3>4, <1>0 DEF BodyOf
    <3>6. BodyOf(g.fr, g.left, rest)
      BY <3>1, <3>4
    <3>7. Expected(g, rest)
      BY <1>2, <1>3, <3>4, <3>5, <3>6 DEF Expected
    <3>8. g \in Fed
      BY <3>3, <3>4 DEF Fed
    <3> QED BY <1>5, <3>4, <3>7, <3>8 DEF g, u, rest, Over
  <2>6. f.head => f.fr \in {"chunked", "length"}
    BY <1>5 DEF Fed, FeedState, Framing
  <2> QED BY <2>3, <2>4, <2>5, <2>6
<1> QED BY <1>4, <1>5 DEF rest

\* g is what reading record r makes of f, all of it taken but for what follows a
\* response whose end is not known.
Reads(f, r, g) ==
    IF r.type = "data"
    THEN /\ g = Feed(f, r.units)
         /\ g.used = Len(r.units) \/ (g.done /\ g.fr = "none")
         /\ Over(f) => r.units = <<>>
    ELSE g = f

\* The start of the expected answer: it is taken, and the rest is expected.
LEMMA FeedPart ==
  ASSUME NEW f \in Fed, NEW units, Expected(f, units), NEW n \in 1..Len(units)
  PROVE  LET g == Feed(f, SubSeq(units, 1, n))
         IN  /\ Reads(f, Rec("data", SubSeq(units, 1, n)), g)
             /\ g \in Fed
             /\ Expected(g, SubSeq(units, n + 1, Len(units)))
             /\ Over(f) => Over(g)
<1> DEFINE m == Len(units)
           s == SubSeq(units, 1, n)
           base == [f EXCEPT !.used = 0]
           Taken(k, x) == /\ x \in Fed
                          /\ x.used = k \/ (x.done /\ x.fr = "none")
                          /\ Expected(x, SubSeq(units, k + 1, m))
           G == {p \in (0..n) \X Fed : Taken(p[1], p[2])}
<1>1. units \in Seq(Unit) /\ m \in Nat /\ n \in Nat /\ n >= 1 /\ n <= m /\ Len(units) = m
  BY DEF Expected
<1>2. s \in Seq(Unit) /\ Len(s) = n /\ \A k \in 1..n : s[k] = units[k]
  BY <1>1, SubSeqProperties
<1>3. ~Over(f)
  <2>1. units # <<>>
    BY <1>1, EmptySeq
  <2> QED BY <2>1 DEF Over, Expected
<1>4. base \in Fed /\ base.used = 0 /\ Expected(base, units)
  <2>1. /\ base \in FeedState /\ base.used = 0 /\ base.head = f.head /\ base.done = f.done
        /\ base.fr = f.fr /\ base.left = f.left
    BY DEF Fed, FeedState
  <2> HIDE DEF base
  <2>2. base \in Fed
    BY <2>1 DEF Fed
  <2>3. Expected(base, units)
    BY <2>1 DEF Expected
  <2> QED BY <2>1, <2>2, <2>3
<1> HIDE DEF base
<1>5. <<0, base>> \in G
  <2>1. SubSeq(units, 0 + 1, m) = units
    BY <1>1, SubSeqFull
  <2>2. Taken(0, base)
    BY <1>4, <2>1
  <2>3. 0 \in 0..n /\ base \in Fed
    BY <1>1, <1>4
  <2> HIDE DEF Taken
  <2> QED BY <2>2, <2>3
<1>6. ASSUME NEW k \in 1..Len(s), NEW x, <<k - 1, x>> \in G
      PROVE  <<k, FeedOne(x, s[k])>> \in G
  <2> DEFINE rest == SubSeq(units, k, m)
             y == FeedOne(x, s[k])
  <2>1. k \in Nat /\ k >= 1 /\ k <= n /\ k - 1 \in 0..n /\ k \in 0..n /\ (k - 1) + 1 = k
    BY <1>1, <1>2, <1>6
  <2>2. Taken(k - 1, x)
    BY <1>6
  <2>3. x \in Fed /\ (x.used = k - 1 \/ (x.done /\ x.fr = "none")) /\ Expected(x, rest)
    BY <2>1, <2>2
  <2>4. Len(rest) = m - k + 1 /\ rest[1] = units[k] /\ rest \in Seq(Unit)
    BY <1>1, <2>1, SubSeqProperties
  <2>5. rest # <<>> /\ Tail(rest) = SubSeq(units, k + 1, m)
    <3>1. k \in 1..m /\ m \in k..Len(units)
      BY <1>1, <2>1
    <3>2. Tail(rest) = SubSeq(units, k + 1, m)
      BY <1>1, <3>1, HeadTailOfSubSeq
    <3>3. Len(rest) # 0
      BY <1>1, <2>1, <2>4
    <3> HIDE DEF rest
    <3> QED BY <2>4, <3>2, <3>3, NoUnits
  <2>6. s[k] = rest[1]
    BY <1>2, <2>1, <2>4
  <2> HIDE DEF rest
  <2>7. /\ y \in Fed
        /\ y.used = x.used + 1 \/ (y.done /\ y.fr = "none")
        /\ Expected(y, Tail(rest))
    BY <2>3, <2>5, <2>6, FeedOneFact
  <2>8. y.used = k \/ (y.done /\ y.fr = "none")
    <3>1. CASE x.used = k - 1
      BY <2>1, <2>7, <3>1
    <3>2. CASE x.done /\ x.fr = "none"
      BY <3>2 DEF FeedOne
    <3> QED BY <2>3, <3>1, <3>2
  <2> HIDE DEF y
  <2>9. Taken(k, y)
    BY <2>5, <2>7, <2>8
  <2> HIDE DEF Taken
  <2>10. <<k, y>> \in G
    BY <2>1, <2>7, <2>9
  <2> QED BY <2>10 DEF y
<1>7. <<Len(s), F!Fold(base, s)>> \in G
  <2> HIDE DEF G, s
  <2> QED BY <1>2, <1>5, <1>6, F!FoldKeepsAlong
<1> DEFINE g == Feed(f, s)
<1>8. F!Fold(base, s) = g
  BY FeedIs DEF base
<1> HIDE DEF g
<1>9. Taken(n, g)
  BY <1>2, <1>7, <1>8
<1>10. Reads(f, Rec("data", s), g)
  BY <1>2, <1>3, <1>9 DEF Reads, Rec, g
<1> QED BY <1>3, <1>9, <1>10 DEF g

\* What is on its way and with the server makes up the answer f is reading.
Arrives(f, in, units) ==
    \E g \in [0..Len(in) -> Fed] :
        /\ g[0] = f
        /\ \A x \in 1..Len(in) : Reads(g[x - 1], in[x], g[x])
        /\ \A x, y \in 0..Len(in) : x <= y /\ Over(g[x]) => Over(g[y])
        /\ Expected(g[Len(in)], units)

\* Before anything of a response has been read.
LEMMA NoFeedFed == NoFeed \in Fed
  BY DEF NoFeed, Fed, FeedState, Framing

\* Nothing is always a part of what is expected.
LEMMA ExpectedNothing ==
  ASSUME NEW f \in Fed
  PROVE  Expected(f, <<>>)
<1>1. <<>> \in Seq(Unit) /\ Len(<<>>) = 0
  BY EmptySeq
<1>2. \A fr, n : n \in Nat => BodyOf(fr, n, <<>>)
  BY <1>1 DEF BodyOf
<1>3. f.left \in Nat
  BY DEF Fed, FeedState
<1> QED BY <1>1, <1>2, <1>3 DEF Expected

\* A request is sent: nothing is on its way.
LEMMA ArrivesStart ==
  ASSUME NEW in \in Seq(Record), \A x \in 1..Len(in) : in[x].units = <<>>,
         NEW units, Expected(NoFeed, units)
  PROVE  Arrives(NoFeed, in, units)
<1> DEFINE n == Len(in)
           g == [x \in 0..n |-> NoFeed]
<1>1. n \in Nat /\ 0 \in 0..n /\ n \in 0..n
  BY LenProperties
<1> HIDE DEF n
<1>2. g \in [0..n -> Fed] /\ g[0] = NoFeed /\ Expected(g[n], units)
  BY <1>1, NoFeedFed
<1>3. ASSUME NEW x \in 1..n PROVE Reads(g[x - 1], in[x], g[x])
  <2>1. x \in 0..n /\ x - 1 \in 0..n /\ in[x].units = <<>>
    BY <1>1 DEF n
  <2>2. g[x - 1] = NoFeed /\ g[x] = NoFeed
    BY <2>1
  <2>3. Feed(NoFeed, <<>>) = NoFeed
    <3>1. Feed(NoFeed, <<>>) = [NoFeed EXCEPT !.used = 0]
      BY NoFeedFed, FeedNothing
    <3> QED BY <3>1 DEF NoFeed
  <2>4. NoFeed.used = Len(<<>>)
    BY DEF NoFeed
  <2> HIDE DEF g
  <2> QED BY <2>1, <2>2, <2>3, <2>4 DEF Reads
<1>4. \A x, y \in 0..n : x <= y /\ Over(g[x]) => Over(g[y])
  OBVIOUS
<1> HIDE DEF g
<1> QED BY <1>2, <1>3, <1>4 DEF Arrives, n

\* One more record is on its way.
LEMMA ArrivesMore ==
  ASSUME NEW f, NEW in \in Seq(Record), NEW units, Arrives(f, in, units),
         NEW r \in Record, NEW rest,
         \A a \in Fed : Expected(a, units) =>
            \E b \in Fed : Reads(a, r, b) /\ Expected(b, rest) /\ (Over(a) => Over(b))
  PROVE  Arrives(f, Append(in, r), rest)
<1> DEFINE n == Len(in)
           m == Append(in, r)
<1>1. /\ n \in Nat /\ Len(m) = n + 1 /\ m[n + 1] = r
      /\ \A x \in 1..n : m[x] = in[x]
  BY LenProperties, AppendProperties
<1>2. PICK g \in [0..n -> Fed] :
        /\ g[0] = f
        /\ \A x \in 1..n : Reads(g[x - 1], in[x], g[x])
        /\ \A x, y \in 0..n : x <= y /\ Over(g[x]) => Over(g[y])
        /\ Expected(g[n], units)
  BY DEF Arrives
<1> HIDE DEF n, m
<1>3. n \in 0..n
  BY <1>1
<1>4. PICK b \in Fed : Reads(g[n], r, b) /\ Expected(b, rest) /\ (Over(g[n]) => Over(b))
  BY <1>2, <1>3
<1> DEFINE h == [x \in 0..(n + 1) |-> IF x = n + 1 THEN b ELSE g[x]]
<1>5. h \in [0..(n + 1) -> Fed]
  BY <1>1, <1>2
<1>6. h[n + 1] = b /\ \A x \in 0..n : h[x] = g[x]
  BY <1>1
<1> HIDE DEF h
<1>7. h[0] = f
  BY <1>1, <1>2, <1>6
<1>8. ASSUME NEW x \in 1..(n + 1) PROVE Reads(h[x - 1], m[x], h[x])
  <2>1. CASE x = n + 1
    <3>1. x - 1 = n
      BY <1>1, <2>1
    <3> QED BY <1>1, <1>3, <1>4, <1>6, <2>1, <3>1
  <2>2. CASE x # n + 1
    <3>1. x \in 1..n /\ x \in 0..n /\ x - 1 \in 0..n
      BY <1>1, <2>2
    <3> QED BY <1>1, <1>2, <1>6, <3>1
  <2> QED BY <2>1, <2>2
<1>9. ASSUME NEW x \in 0..(n + 1), NEW y \in 0..(n + 1), x <= y, Over(h[x])
      PROVE  Over(h[y])
  <2>1. CASE y # n + 1
    <3>1. x \in 0..n /\ y \in 0..n
      BY <1>1, <1>9, <2>1
    <3> QED BY <1>2, <1>6, <1>9, <3>1
  <2>2. CASE y = n + 1 /\ x # n + 1
    <3>1. x \in 0..n /\ x <= n
      BY <1>1, <2>2
    <3>2. Over(g[n])
      BY <1>2, <1>3, <1>6, <1>9, <3>1
    <3> QED BY <1>4, <1>6, <2>2, <3>2
  <2>3. CASE y = n + 1 /\ x = n + 1
    BY <1>9, <2>3
  <2> QED BY <2>1, <2>2, <2>3
<1>10. Expected(h[n + 1], rest)
  BY <1>4, <1>6
<1> QED BY <1>1, <1>5, <1>7, <1>8, <1>9, <1>10 DEF Arrives, m

\* The server sends a part of its answer as a record.
LEMMA ArrivesSent ==
  ASSUME NEW f, NEW in \in Seq(Record), NEW units, Arrives(f, in, units),
         NEW n \in 1..Len(units), units \in Seq(Unit)
  PROVE  Arrives(f, Append(in, Rec("data", SubSeq(units, 1, n))),
                 SubSeq(units, n + 1, Len(units)))
<1> DEFINE r == Rec("data", SubSeq(units, 1, n))
           rest == SubSeq(units, n + 1, Len(units))
<1>1. r \in Record
  <2>1. SubSeq(units, 1, n) \in Seq(Unit)
    BY SubSeqProperties
  <2> QED BY <2>1 DEF Rec, Record
<1>2. ASSUME NEW a \in Fed, Expected(a, units)
      PROVE  \E b \in Fed : Reads(a, r, b) /\ Expected(b, rest) /\ (Over(a) => Over(b))
  BY <1>2, FeedPart
<1> HIDE DEF r, rest
<1>3. Arrives(f, Append(in, r), rest)
  BY <1>1, <1>2, ArrivesMore
<1> QED BY <1>3 DEF r, rest

\* A record that carries no part of an answer.
LEMMA ArrivesOther ==
  ASSUME NEW f, NEW in \in Seq(Record), NEW units, Arrives(f, in, units),
         NEW r \in Record, r.type # "data"
  PROVE  Arrives(f, Append(in, r), units)
<1>1. ASSUME NEW a \in Fed, Expected(a, units)
      PROVE  \E b \in Fed : Reads(a, r, b) /\ Expected(b, units) /\ (Over(a) => Over(b))
  BY <1>1 DEF Reads
<1> QED BY <1>1, ArrivesMore

\* The server says no more.
LEMMA ArrivesCut ==
  ASSUME NEW f, NEW in \in Seq(Record), NEW units, Arrives(f, in, units)
  PROVE  Arrives(f, in, <<>>)
<1>1. PICK g \in [0..Len(in) -> Fed] :
        /\ g[0] = f
        /\ \A x \in 1..Len(in) : Reads(g[x - 1], in[x], g[x])
        /\ \A x, y \in 0..Len(in) : x <= y /\ Over(g[x]) => Over(g[y])
  BY DEF Arrives
<1>2. Len(in) \in 0..Len(in)
  BY LenProperties
<1>3. Expected(g[Len(in)], <<>>)
  BY <1>2, ExpectedNothing
<1> QED BY <1>1, <1>3 DEF Arrives

\* What was on its way is lost.
LEMMA ArrivesNone ==
  ASSUME NEW f \in Fed
  PROVE  Arrives(f, <<>>, <<>>)
<1> DEFINE g == [x \in 0..0 |-> f]
<1>1. g \in [0..0 -> Fed] /\ g[0] = f /\ \A x \in 0..0 : g[x] = f
  OBVIOUS
<1>2. Len(<<>>) = 0
  BY EmptySeq
<1>3. Expected(g[0], <<>>)
  BY ExpectedNothing
<1> HIDE DEF g
<1>4. \A x \in 1..0 : FALSE
  OBVIOUS
<1> QED BY <1>1, <1>2, <1>3, <1>4 DEF Arrives

\* The first record is read.
LEMMA ArrivesRead ==
  ASSUME NEW f, NEW in \in Seq(Record), in # <<>>, NEW units, Arrives(f, in, units)
  PROVE  \E b \in Fed : f \in Fed /\ Reads(f, in[1], b) /\ Arrives(b, Tail(in), units)
<1> DEFINE n == Len(in)
           m == Tail(in)
<1>1. /\ n \in Nat \ {0} /\ Len(m) = n - 1
      /\ \A x \in 1..(n - 1) : m[x] = in[x + 1]
  BY LenProperties, HeadTailProperties, EmptySeq
<1>2. PICK g \in [0..n -> Fed] :
        /\ g[0] = f
        /\ \A x \in 1..n : Reads(g[x - 1], in[x], g[x])
        /\ \A x, y \in 0..n : x <= y /\ Over(g[x]) => Over(g[y])
        /\ Expected(g[n], units)
  BY DEF Arrives
<1> DEFINE h == [x \in 0..(n - 1) |-> g[x + 1]]
<1> HIDE DEF n, m
<1>3. 0 \in 0..n /\ 1 \in 0..n /\ 1 \in 1..n /\ 1 - 1 = 0
  BY <1>1
<1>4. /\ g[1] \in Fed /\ f \in Fed /\ Reads(f, in[1], g[1])
  BY <1>2, <1>3
<1>5. /\ h \in [0..(n - 1) -> Fed] /\ \A x \in 0..(n - 1) : h[x] = g[x + 1]
  BY <1>1, <1>2
<1> HIDE DEF h
<1>6. h[0] = g[1] /\ h[n - 1] = g[n]
  BY <1>1, <1>5
<1>7. ASSUME NEW x \in 1..(n - 1) PROVE Reads(h[x - 1], m[x], h[x])
  <2>1. /\ x + 1 \in 1..n /\ (x + 1) - 1 = x /\ (x - 1) + 1 = x /\ x \in 0..(n - 1)
        /\ x - 1 \in 0..(n - 1)
    BY <1>1
  <2>2. Reads(g[x], in[x + 1], g[x + 1])
    BY <1>2, <2>1
  <2> QED BY <1>1, <1>5, <2>1, <2>2
<1>8. ASSUME NEW x \in 0..(n - 1), NEW y \in 0..(n - 1), x <= y, Over(h[x])
      PROVE  Over(h[y])
  <2>1. x + 1 \in 0..n /\ y + 1 \in 0..n /\ x + 1 <= y + 1
    BY <1>1, <1>8
  <2> QED BY <1>2, <1>5, <1>8, <2>1
<1>9. Arrives(g[1], m, units)
  BY <1>1, <1>2, <1>5, <1>6, <1>7, <1>8 DEF Arrives
<1> QED BY <1>4, <1>9 DEF m

\* After a response whose end is known nothing of it is on its way.
LEMMA ArrivesOver ==
  ASSUME NEW f, NEW in \in Seq(Record), NEW units, Arrives(f, in, units), Over(f)
  PROVE  /\ units = <<>>
         /\ \A x \in 1..Len(in) : in[x].type = "data" => in[x].units = <<>>
<1> DEFINE n == Len(in)
<1>1. n \in Nat
  BY LenProperties
<1>2. PICK g \in [0..n -> Fed] :
        /\ g[0] = f
        /\ \A x \in 1..n : Reads(g[x - 1], in[x], g[x])
        /\ \A x, y \in 0..n : x <= y /\ Over(g[x]) => Over(g[y])
        /\ Expected(g[n], units)
  BY DEF Arrives
<1> HIDE DEF n
<1>3. \A x \in 0..n : Over(g[x])
  <2>1. \A x \in 0..n : 0 <= x /\ 0 \in 0..n
    BY <1>1
  <2> QED BY <1>2, <2>1
<1>4. units = <<>>
  <2>1. n \in 0..n
    BY <1>1
  <2> QED BY <1>2, <1>3, <2>1 DEF Over, Expected
<1>5. ASSUME NEW x \in 1..n, in[x].type = "data" PROVE in[x].units = <<>>
  <2>1. x - 1 \in 0..n
    BY <1>1
  <2> QED BY <1>2, <1>3, <1>5, <2>1 DEF Reads
<1> QED BY <1>4, <1>5 DEF n

\* Every response of the server, after an informational head too, is what the
\* client expects when it has read nothing.
LEMMA FinalExpected ==
  ASSUME NEW fr \in Framing, NEW n \in 0..MaxBody, NEW to \in Host \cup {NoHost},
         NEW bye \in BOOLEAN
  PROVE  /\ Expected(NoFeed, Final(fr, n, to, bye))
         /\ Expected(NoFeed, Interim \o Final(fr, n, to, bye))
<1> DEFINE H == HeadUnit(fr, n, to, bye)
           B == [x \in 1..n |-> Body]
           T == IF fr = "chunked" THEN <<Term>> ELSE <<>>
           k == Len(T)
           R == Final(fr, n, to, bye)
<1>1. /\ H \in Unit /\ H.t = "head" /\ H.fr = fr /\ H.n = n /\ H.new
      /\ Body \in Unit /\ Body.t = "body" /\ Body.new
      /\ Term \in Unit /\ Term.t = "term" /\ Term.new
  <2>1. MaxBody \in Nat /\ n \in Nat /\ 0 \in 0..MaxBody
    BY HttpsAssumption
  <2> QED BY <2>1 DEF HeadUnit, Body, Term, Unit, Framing
<1> HIDE DEF H
<1>2. /\ n \in Nat /\ <<H>> \in Seq(Unit) /\ Len(<<H>>) = 1 /\ <<H>>[1] = H
  BY <1>1, HttpsAssumption
<1>3. B \in Seq(Unit) /\ Len(B) = n /\ \A x \in 1..n : B[x] = Body
  BY <1>1, <1>2
<1>4. /\ T \in Seq(Unit) /\ k = (IF fr = "chunked" THEN 1 ELSE 0)
      /\ \A x \in 1..k : T[x] = Term
  BY <1>1, EmptySeq
<1> HIDE DEF B, T, k
<1>5. R = (<<H>> \o B) \o T
  BY DEF Final, H, B, T
<1>6. /\ <<H>> \o B \in Seq(Unit) /\ Len(<<H>> \o B) = 1 + n
      /\ (<<H>> \o B)[1] = H /\ \A x \in 2..(n + 1) : (<<H>> \o B)[x] = Body
  <2> DEFINE C == <<H>> \o B
  <2>1. /\ C \in Seq(Unit) /\ Len(C) = 1 + n
        /\ \A i \in 1..(1 + n) : C[i] = IF i <= 1 THEN <<H>>[i] ELSE B[i - 1]
    BY <1>2, <1>3, ConcatProperties
  <2>2. C[1] = H
    BY <1>2, <2>1
  <2>3. ASSUME NEW x \in 2..(n + 1) PROVE C[x] = Body
    <3>1. x \in 1..(1 + n) /\ ~ (x <= 1) /\ x - 1 \in 1..n
      BY <1>2
    <3> HIDE DEF C
    <3> QED BY <1>3, <2>1, <3>1
  <2> QED BY <2>1, <2>2, <2>3
<1>7. /\ R \in Seq(Unit) /\ Len(R) = 1 + n + k /\ R[1] = H
      /\ \A x \in 2..(n + 1) : R[x] = Body
      /\ \A x \in (n + 2)..(1 + n + k) : R[x] = Term
  <2> DEFINE C == <<H>> \o B
  <2>1. C \in Seq(Unit) /\ Len(C) = 1 + n /\ C[1] = H /\ \A x \in 2..(n + 1) : C[x] = Body
    BY <1>6
  <2> HIDE DEF C
  <2>2. k \in Nat
    BY <1>4
  <2>3. /\ C \o T \in Seq(Unit) /\ Len(C \o T) = 1 + n + k
        /\ \A i \in 1..(1 + n + k) : (C \o T)[i] = IF i <= 1 + n THEN C[i] ELSE T[i - (1 + n)]
    <3>1. Len(T) = k
      BY DEF k
    <3>2. /\ C \o T \in Seq(Unit) /\ Len(C \o T) = Len(C) + Len(T)
          /\ \A i \in 1..(Len(C) + Len(T)) :
               (C \o T)[i] = IF i <= Len(C) THEN C[i] ELSE T[i - Len(C)]
      BY <1>4, <2>1, ConcatProperties
    <3> QED BY <2>1, <3>1, <3>2
  <2>4. R = C \o T
    BY <1>5 DEF C
  <2> HIDE DEF R
  <2>5. 1 \in 1..(1 + n + k) /\ 1 <= 1 + n
    BY <1>2, <2>2
  <2>6. R[1] = H
    BY <2>1, <2>3, <2>4, <2>5
  <2>7. ASSUME NEW x \in 2..(n + 1) PROVE R[x] = Body
    <3>1. x \in 1..(1 + n + k) /\ x <= 1 + n
      BY <1>2, <2>2
    <3> QED BY <2>1, <2>3, <2>4, <3>1
  <2>8. ASSUME NEW x \in (n + 2)..(1 + n + k) PROVE R[x] = Term
    <3>1. x \in 1..(1 + n + k) /\ ~ (x <= 1 + n) /\ x - (1 + n) \in 1..k
      BY <1>2, <2>2
    <3> QED BY <1>4, <2>3, <2>4, <3>1
  <2> QED BY <2>3, <2>4, <2>6, <2>7, <2>8
<1> HIDE DEF R
<1>8. k \in {0, 1} /\ (k = 1 => fr = "chunked") /\ R # <<>>
  BY <1>2, <1>4, <1>7, NoUnits
<1>9. /\ Tail(R) \in Seq(Unit) /\ Len(Tail(R)) = n + k
      /\ \A i \in 1..(n + k) : Tail(R)[i] = R[i + 1]
  BY <1>2, <1>7, <1>8, HeadTailProperties
<1>10. BodyOf(fr, n, Tail(R))
  <2>1. ASSUME NEW i \in 1..n PROVE Tail(R)[i].t = "body"
    <3>1. i \in 1..(n + k) /\ i + 1 \in 2..(n + 1)
      BY <1>2, <1>8
    <3> QED BY <1>1, <1>7, <1>9, <3>1
  <2>2. ASSUME k = 1 PROVE Tail(R)[n + 1].t = "term"
    <3>1. n + 1 \in 1..(n + k) /\ (n + 1) + 1 \in (n + 2)..(1 + n + k)
      BY <1>2, <2>2
    <3> QED BY <1>1, <1>7, <1>9, <3>1
  <2>3. CASE fr = "length"
    <3>1. k = 0 /\ n + k = n
      BY <1>2, <1>4, <2>3
    <3> QED BY <1>2, <1>9, <2>1, <2>3, <3>1 DEF BodyOf
  <2>4. CASE fr = "chunked"
    <3>1. k = 1
      BY <1>4, <2>4
    <3>2. \A i \in 1..(n + 1) : i \in 1..n \/ i = n + 1
      BY <1>2
    <3>3. \A i \in 1..(n + 1) : Tail(R)[i].t = "body" \/ (Tail(R)[i].t = "term" /\ i = n + 1)
      BY <2>1, <2>2, <3>1, <3>2
    <3> QED BY <1>9, <2>4, <3>1, <3>3 DEF BodyOf
  <2>5. CASE fr = "none"
    BY <2>5 DEF BodyOf
  <2> QED BY <2>3, <2>4, <2>5 DEF Framing
<1>11. ASSUME NEW i \in 1..(1 + n + k) PROVE R[i].new
  <2>1. i = 1 \/ i \in 2..(n + 1) \/ i \in (n + 2)..(1 + n + k)
    BY <1>2, <1>8
  <2> QED BY <1>1, <1>7, <2>1
<1>12. ~NoFeed.done /\ ~NoFeed.head
  BY DEF NoFeed
<1>13. Expected(NoFeed, R)
  BY <1>1, <1>7, <1>10, <1>11, <1>12 DEF Expected
<1>14. Expected(NoFeed, Interim \o R)
  <2> DEFINE I == HeadUnit("none", 0, NoHost, FALSE)
             Q == Interim \o R
  <2>1. I \in Unit /\ I.t = "head" /\ I.fr = "none" /\ I.new
    BY HttpsAssumption DEF HeadUnit, Unit, Framing
  <2> HIDE DEF I
  <2>2. Interim = <<I>> /\ Interim \in Seq(Unit) /\ Len(Interim) = 1 /\ Interim[1] = I
    <3>1. Interim = <<I>>
      BY DEF Interim, I
    <3> QED BY <2>1, <3>1
  <2>3. 1 + n + k \in Nat
    BY <1>2, <1>8
  <2>4. /\ Q \in Seq(Unit) /\ Len(Q) = 1 + (1 + n + k)
        /\ \A i \in 1..(1 + (1 + n + k)) : Q[i] = IF i <= 1 THEN Interim[i] ELSE R[i - 1]
    BY <1>7, <2>2, ConcatProperties
  <2> HIDE DEF Q
  <2>5. Q[1] = I
    <3>1. 1 \in 1..(1 + (1 + n + k)) /\ 1 <= 1
      BY <2>3
    <3> QED BY <2>2, <2>4, <3>1
  <2>6. ASSUME NEW i \in 1..(1 + (1 + n + k)) PROVE Q[i].new
    <3>1. i = 1 \/ (~ (i <= 1) /\ i - 1 \in 1..(1 + n + k))
      BY <2>3
    <3> QED BY <1>11, <2>1, <2>4, <2>5, <3>1
  <2>7. BodyOf("none", Q[1].n, Tail(Q))
    BY DEF BodyOf
  <2>8. Expected(NoFeed, Q)
    BY <1>12, <2>1, <2>4, <2>5, <2>6, <2>7 DEF Expected
  <2> QED BY <2>8 DEF Q
<1> QED BY <1>13, <1>14 DEF R

\* Whatever the server answers, nothing at all when it has closed its end.
LEMMA ResponseExpected ==
  ASSUME NEW r \in Responses \cup {<<>>}
  PROVE  Expected(NoFeed, r)
<1>1. CASE r = <<>>
  BY <1>1, NoFeedFed, ExpectedNothing
<1>2. CASE r \in Responses
  <2>1. \E fr \in Framing, n \in 0..MaxBody, to \in Host \cup {NoHost}, bye \in BOOLEAN :
          r = Final(fr, n, to, bye) \/ r = Interim \o Final(fr, n, to, bye)
    <3> DEFINE final == {Final(fr, n, to, bye) : fr \in Framing, n \in 0..MaxBody,
                                                 to \in Host \cup {NoHost}, bye \in BOOLEAN}
    <3>1. Responses = final \cup {Interim \o x : x \in final}
      BY DEF Responses
    <3>2. PICK x \in final : r = x \/ r = Interim \o x
      <4> HIDE DEF final
      <4> QED BY <1>2, <3>1
    <3>3. \E fr \in Framing, n \in 0..MaxBody, to \in Host \cup {NoHost}, bye \in BOOLEAN :
            x = Final(fr, n, to, bye)
      BY <3>2
    <3> HIDE DEF final
    <3> QED BY <3>2, <3>3
  <2> QED BY <2>1, FinalExpected
<1> QED BY <1>1, <1>2

-----------------------------------------------------------------------------
\* The server's end, as the server and the network can make it: only records of
\* application data carry parts of an answer.
PeerType ==
    /\ peer \in [todo : Seq(Unit), in : Seq(Record), line : {"up", "closed", "reset"},
                 tickets : Nat, seen : BOOLEAN]
    /\ \A x \in 1..Len(peer.in) : peer.in[x].type # "data" => peer.in[x].units = <<>>

\* Nothing of an answer is left, and the end of the stream has not been read.
Quiet ==
    /\ conn.stash = <<>> /\ peer.todo = <<>> /\ ~peer.seen
    /\ \A x \in 1..Len(peer.in) : peer.in[x].units = <<>>

\* The connection is one that a request may be sent on: between two requests, and
\* after one unless the connection is about to be closed.
Waiting == pc \in {"idle", "step", "send"} \/ (pc = "decide" /\ ~feed.close)

\* A response is being read: what is left of it is on its way or with the server.
Reading == conn.stash = <<>> /\ ~peer.seen /\ Arrives(feed, peer.in, peer.todo)

SyncInv ==
    /\ ConnInv
    /\ PeerType
    /\ feed \in Fed
    /\ pc = "handshake" => conn.stash = <<>>
    /\ conn.alive /\ Waiting => Quiet
    /\ pc = "read" => Reading

\* An end of the connection that has just been opened, or closed.
LEMMA NewPeer ==
  ASSUME peer' = NoPeer
  PROVE  PeerType' /\ (conn'.stash = <<>> => Quiet')
<1>1. <<>> \in Seq(Unit) /\ <<>> \in Seq(Record) /\ Len(<<>>) = 0
  BY EmptySeq
<1>2. /\ peer'.todo = <<>> /\ peer'.in = <<>> /\ ~peer'.seen
      /\ peer' \in [todo : Seq(Unit), in : Seq(Record), line : {"up", "closed", "reset"},
                    tickets : Nat, seen : BOOLEAN]
  BY <1>1 DEF NoPeer
<1>3. \A x \in 1..Len(peer'.in) : FALSE
  BY <1>1, <1>2
<1>4. PeerType'
  BY <1>2, <1>3 DEF PeerType
<1>5. ASSUME conn'.stash = <<>> PROVE Quiet'
  BY <1>2, <1>3, <1>5 DEF Quiet
<1> QED BY <1>4, <1>5

\* At the start there is no connection.
LEMMA InitSync == Init => SyncInv
<1> SUFFICES ASSUME Init PROVE SyncInv
  OBVIOUS
<1>1. ConnInv
  BY InitConn
<1>2. /\ pc = "idle" /\ conn = NoConn /\ feed = NoFeed /\ peer = NoPeer
  BY DEF Init
<1>3. ~conn.alive
  BY <1>2 DEF NoConn
<1>4. PeerType
  <2>1. <<>> \in Seq(Unit) /\ <<>> \in Seq(Record) /\ Len(<<>>) = 0
    BY EmptySeq
  <2>2. /\ peer.in = <<>>
        /\ peer \in [todo : Seq(Unit), in : Seq(Record), line : {"up", "closed", "reset"},
                     tickets : Nat, seen : BOOLEAN]
    BY <1>2, <2>1 DEF NoPeer
  <2>3. \A x \in 1..Len(peer.in) : FALSE
    BY <2>1, <2>2
  <2> QED BY <2>2, <2>3 DEF PeerType
<1> QED BY <1>1, <1>2, <1>3, <1>4, NoFeedFed DEF SyncInv

\* A step that closes the connection.
LEMMA ClosedSync ==
  ASSUME SyncInv, ConnInv', CloseConn, pc # "handshake", feed' \in Fed,
         pc' \in {"idle", "step", "open"}
  PROVE  SyncInv'
<1>1. ~conn'.alive
  BY CloseConnFacts DEF SyncInv
<1>2. PeerType'
  BY NewPeer DEF CloseConn
<1> QED BY <1>1, <1>2 DEF SyncInv

\* A step that keeps the connection, with nothing left on it if there is one.
LEMMA KeptSync ==
  ASSUME SyncInv, ConnInv', UNCHANGED <<conn, peer>>, feed' \in Fed,
         pc' \in {"idle", "step", "send"}, conn.alive => Waiting
  PROVE  SyncInv'
<1>1. PeerType'
  BY DEF SyncInv, PeerType
<1>2. conn'.alive => Quiet'
  BY DEF SyncInv, Quiet
<1> QED BY <1>1, <1>2 DEF SyncInv

\* The places of the client before the request.
LEMMA OpeningSync ==
  ASSUME SyncInv, ConnInv',
         \/ \E h \in Host : StartJob(h)
         \/ StepReuses \/ StepOpens \/ StepLimit
         \/ Connect \/ ConnectFails \/ HandshakeOk \/ HandshakeFails
  PROVE  SyncInv'
<1>1. ASSUME NEW h \in Host, StartJob(h) PROVE SyncInv'
  BY <1>1, KeptSync DEF StartJob, Waiting, SyncInv
<1>2. CASE StepReuses
  BY <1>2, KeptSync DEF StepReuses, Waiting, SyncInv
<1>3. CASE StepOpens
  BY <1>3, ClosedSync DEF StepOpens, SyncInv
<1>4. CASE StepLimit
  BY <1>4, KeptSync, NoFeedFed DEF StepLimit, KeepConn, EndJob, Waiting
<1>5. CASE Connect
  <2>1. /\ ~conn'.alive /\ conn'.stash = <<>> /\ pc' = "handshake"
        /\ UNCHANGED <<feed, peer>>
    BY <1>5 DEF Connect
  <2> QED BY <2>1 DEF SyncInv, PeerType
<1>6. CASE ConnectFails
  BY <1>6, KeptSync, NoFeedFed
     DEF ConnectFails, KeepConn, EndJob, SyncInv, ConnInv, AtPc
<1>7. CASE HandshakeOk
  <2>1. /\ conn' = [conn EXCEPT !.alive = TRUE] /\ peer' = NoPeer
        /\ pc' \in {"send", "decide"} /\ feed' = feed /\ conn.stash = <<>>
    BY <1>7 DEF HandshakeOk, SyncInv
  <2>2. conn'.stash = <<>>
    BY <2>1 DEF SyncInv, ConnInv, ConnType
  <2>3. PeerType' /\ Quiet'
    BY <2>1, <2>2, NewPeer
  <2> QED BY <2>1, <2>3 DEF SyncInv
<1>8. CASE HandshakeFails
  <2>1. /\ conn' = [conn EXCEPT !.sock = NoFd] /\ UNCHANGED peer
        /\ pc' = "idle" /\ feed' = NoFeed /\ ~conn.alive
    BY <1>8 DEF HandshakeFails, EndJob, SyncInv, ConnInv, AtPc
  <2>2. ~conn'.alive
    BY <2>1 DEF SyncInv, ConnInv, ConnType
  <2> QED BY <2>1, <2>2, NoFeedFed DEF SyncInv, PeerType
<1> QED BY <1>1, <1>2, <1>3, <1>4, <1>5, <1>6, <1>7, <1>8

\* Nothing is left to be marked as old.
LEMMA OldNothing == Old(<<>>) = <<>>
<1>1. DOMAIN <<>> = {} /\ <<>> \in Seq(Unit)
  BY EmptySeq
<1>2. Old(<<>>) = [x \in {} |-> [<<>>[x] EXCEPT !.new = FALSE]]
  BY <1>1 DEF Old
<1>3. <<>> = [x \in {} |-> [<<>>[x] EXCEPT !.new = FALSE]]
  <2>1. <<>> \in [{} -> Unit]
    BY <1>1
  <2> QED BY <2>1
<1> QED BY <1>2, <1>3

\* A request is written: what is read next is the answer to it.
LEMMA SendSync ==
  ASSUME SyncInv, ConnInv', Send
  PROVE  SyncInv'
<1>1. pc = "send" /\ conn.alive /\ Quiet
  BY DEF Send, SyncInv, Waiting, ConnInv, AtPc
<1>2. CASE peer.line = "reset"
  <2>1. pc' = "retry" /\ feed' = NoFeed /\ UNCHANGED <<conn, peer>>
    BY <1>2 DEF Send
  <2> QED BY <2>1, NoFeedFed DEF SyncInv, PeerType, Waiting
<1>3. CASE peer.line # "reset"
  <2> DEFINE in == [x \in DOMAIN peer.in |-> [peer.in[x] EXCEPT !.units = Old(peer.in[x].units)]]
             g == Feed(NoFeed, Old(conn.stash))
  <2>1. PICK r \in IF peer.line = "up" THEN Responses ELSE {<<>>} :
           peer' = [peer EXCEPT !.todo = Old(peer.todo) \o r, !.in = in]
    BY <1>3 DEF Send
  <2>2. Expected(NoFeed, r) /\ r \in Seq(Unit)
    BY ResponseExpected DEF Expected
  <2>3. Old(peer.todo) \o r = r
    BY <1>1, <2>2, OldNothing, ConcatEmptySeq DEF Quiet
  <2>4. Old(conn.stash) = <<>>
    BY <1>1, OldNothing DEF Quiet
  <2>5. g = NoFeed
    <3>1. Feed(NoFeed, <<>>) = [NoFeed EXCEPT !.used = 0]
      BY NoFeedFed, FeedNothing
    <3> QED BY <2>4, <3>1 DEF NoFeed
  <2>6. ~g.done /\ ~g.bad
    BY <2>5 DEF NoFeed
  <2>7. /\ conn' = [conn EXCEPT !.stash = Unused(g, Old(conn.stash))]
        /\ feed' = g /\ pc' = "read"
    BY <1>3, <2>6 DEF Send
  <2>8. conn'.stash = <<>>
    <3>1. Unused(g, <<>>) = <<>>
      <4>1. <<>> \in Seq(Unit) /\ Len(<<>>) = 0
        BY EmptySeq
      <4>2. \A a, b \in Int : a > b => SubSeq(<<>>, a, b) = <<>>
        BY <4>1, SubSeqEmpty
      <4>3. SubSeq(<<>>, 0 + 1, 0) = <<>>
        BY <4>2
      <4> QED BY <2>5, <4>1, <4>3 DEF Unused, NoFeed
    <3> QED BY <2>4, <2>7, <3>1 DEF SyncInv, ConnInv, ConnType
  <2>9. peer.in \in Seq(Record) /\ DOMAIN peer.in = 1..Len(peer.in) /\ Len(peer.in) \in Nat
    BY LenProperties DEF SyncInv, PeerType
  <2>10. in = peer.in
    <3>1. ASSUME NEW x \in DOMAIN peer.in
          PROVE  [peer.in[x] EXCEPT !.units = Old(peer.in[x].units)] = peer.in[x]
      <4>1. peer.in[x].units = <<>> /\ peer.in[x] \in Record
        BY <1>1, <2>9, ElementOfSeq DEF Quiet
      <4> QED BY <4>1, OldNothing DEF Record
    <3>2. peer.in = [x \in DOMAIN peer.in |-> peer.in[x]]
      BY <2>9, LenProperties
    <3> QED BY <3>1, <3>2
  <2> HIDE DEF in, g
  <2>11. /\ peer'.todo = r /\ peer'.in = peer.in /\ peer'.seen = peer.seen
         /\ peer' \in [todo : Seq(Unit), in : Seq(Record), line : {"up", "closed", "reset"},
                       tickets : Nat, seen : BOOLEAN]
    BY <2>1, <2>2, <2>3, <2>10 DEF SyncInv, PeerType
  <2>12. PeerType'
    BY <2>11 DEF SyncInv, PeerType
  <2>13. Arrives(NoFeed, peer.in, r)
    BY <1>1, <2>2, <2>9, ArrivesStart DEF Quiet
  <2>14. Reading'
    BY <1>1, <2>5, <2>7, <2>8, <2>11, <2>13 DEF Reading, Quiet
  <2> QED BY <2>5, <2>7, <2>12, <2>14, NoFeedFed DEF SyncInv, Waiting
<1> QED BY <1>2, <1>3

\* The end of an exchange, as the exchange sees it (Outcome).
LEMMA OutcomeFacts ==
  ASSUME NEW f \in Fed, Outcome(f)
  PROVE  /\ feed' \in Fed /\ pc' = "decide"
         /\ (~feed'.close => ~f.close /\ f.fr # "none")
<1> DEFINE c == f.close \/ ~f.head \/ f.fr = "none"
<1>1. feed' = [f EXCEPT !.close = c] /\ pc' = "decide"
  BY DEF Outcome
<1>2. f \in FeedState /\ c \in BOOLEAN
  BY DEF Fed
<1>3. (c = FALSE) => ~f.close /\ f.fr # "none"
  OBVIOUS
<1> HIDE DEF c
<1>4. /\ feed' \in FeedState /\ feed'.head = f.head /\ feed'.done = f.done
      /\ feed'.fr = f.fr /\ feed'.left = f.left /\ feed'.close = c
  BY <1>1, <1>2 DEF FeedState
<1>5. feed' \in Fed
  BY <1>4 DEF Fed
<1> QED BY <1>1, <1>2, <1>3, <1>4, <1>5

\* A record, the end of the stream, or an error is read.
LEMMA ReadSync ==
  ASSUME SyncInv, ConnInv', ReadRecord \/ ReadEof \/ ReadFails
  PROVE  SyncInv'
<1>1. pc = "read" /\ Reading /\ feed \in Fed
  BY DEF ReadRecord, ReadEof, ReadFails, SyncInv
<1>0. [feed EXCEPT !.close = TRUE] \in Fed /\ [feed EXCEPT !.close = TRUE].close
  <2>1. feed \in FeedState
    BY <1>1 DEF Fed
  <2> DEFINE f == [feed EXCEPT !.close = TRUE]
  <2>2. /\ f \in FeedState /\ f.head = feed.head /\ f.done = feed.done
        /\ f.fr = feed.fr /\ f.left = feed.left /\ f.close = TRUE
    BY <2>1 DEF FeedState
  <2> HIDE DEF f
  <2>3. f \in Fed /\ f.close
    BY <1>1, <2>2 DEF Fed
  <2> QED BY <2>3 DEF f
<1>2. CASE ReadFails
  <2>1. pc' = "retry" /\ UNCHANGED <<conn, feed, peer>>
    BY <1>2 DEF ReadFails
  <2> QED BY <2>1 DEF SyncInv, PeerType, Waiting
<1>3. CASE ReadEof
  <2>1. /\ peer' = [peer EXCEPT !.seen = TRUE] /\ conn' = conn
        /\ Outcome([feed EXCEPT !.close = TRUE])
    BY <1>3 DEF ReadEof
  <2>2. feed' \in Fed /\ pc' = "decide" /\ feed'.close
    BY <1>0, <2>1, OutcomeFacts
  <2>3. PeerType'
    BY <2>1 DEF SyncInv, PeerType
  <2> QED BY <2>2, <2>3 DEF SyncInv, Waiting
<1>4. CASE ReadRecord
  <2> DEFINE r == peer.in[1]
             g == Feed(feed, r.units)
  <2>1. /\ peer.in # <<>> /\ peer.in \in Seq(Record) /\ r \in Record
        /\ Len(peer.in) \in Nat \ {0}
    BY <1>4, EmptySeq, ElementOfSeq DEF ReadRecord, SyncInv, PeerType
  <2>2. peer' = [peer EXCEPT !.in = Tail(peer.in), !.seen = peer.seen \/ r.type = "alert"]
    BY <1>4 DEF ReadRecord
  <2>3. /\ Tail(peer.in) \in Seq(Record) /\ Len(Tail(peer.in)) = Len(peer.in) - 1
        /\ \A x \in 1..(Len(peer.in) - 1) : Tail(peer.in)[x] = peer.in[x + 1]
    BY <2>1, HeadTailProperties
  <2>4. (peer.seen \/ r.type = "alert") = (r.type = "alert")
    BY <1>1 DEF Reading
  <2>5. /\ peer' \in [todo : Seq(Unit), in : Seq(Record), line : {"up", "closed", "reset"},
                      tickets : Nat, seen : BOOLEAN]
        /\ peer'.in = Tail(peer.in) /\ peer'.todo = peer.todo
        /\ peer'.seen <=> r.type = "alert"
    BY <2>2, <2>3, <2>4 DEF SyncInv, PeerType
  <2>6. \A x \in 1..Len(peer'.in) :
           peer'.in[x].type # "data" => peer'.in[x].units = <<>>
    BY <2>1, <2>3, <2>5 DEF SyncInv, PeerType
  <2>7. PeerType'
    BY <2>5, <2>6 DEF PeerType
  <2>8. PICK b \in Fed : Reads(feed, r, b) /\ Arrives(b, Tail(peer.in), peer.todo)
    BY <1>1, <2>1, ArrivesRead DEF Reading
  <2>9. CASE r.type = "ticket"
    <3>1. UNCHANGED <<pc, feed, conn>>
      BY <1>4, <2>9 DEF ReadRecord
    <3>2. b = feed
      BY <2>8, <2>9 DEF Reads
    <3> HIDE DEF r
    <3>3. Reading'
      BY <1>1, <2>5, <2>8, <2>9, <3>1, <3>2 DEF Reading
    <3> QED BY <1>1, <2>7, <3>1, <3>3 DEF SyncInv, Waiting
  <2>10. CASE r.type = "alert"
    <3>1. Outcome([feed EXCEPT !.close = TRUE])
      BY <1>4, <2>10 DEF ReadRecord
    <3>2. feed' \in Fed /\ pc' = "decide" /\ feed'.close
      BY <1>0, <3>1, OutcomeFacts
    <3> QED BY <2>7, <3>2 DEF SyncInv, Waiting
  <2>11. CASE r.type = "data"
    <3>1. b = g /\ g \in Fed /\ ~g.bad /\ (g.used = Len(r.units) \/ (g.done /\ g.fr = "none"))
      BY <2>8, <2>11 DEF Reads, Fed, FeedState
    <3>2. ~peer'.seen
      BY <2>5, <2>11
    <3>3. CASE ~g.done
      <4>1. feed' = g /\ UNCHANGED <<pc, conn>>
        BY <1>4, <2>11, <3>1, <3>3 DEF ReadRecord
      <4> HIDE DEF g
      <4>2. Reading'
        BY <1>1, <2>5, <2>8, <3>1, <3>2, <4>1 DEF Reading
      <4> QED BY <1>1, <2>7, <3>1, <4>1, <4>2 DEF SyncInv, Waiting
    <3>4. CASE g.done
      <4>1. /\ Outcome(g)
            /\ conn' = [conn EXCEPT !.stash =
                  IF Unused(g, r.units) # <<>> THEN Unused(g, r.units) ELSE conn.stash]
        BY <1>4, <2>11, <3>1, <3>4 DEF ReadRecord
      <4>2. feed' \in Fed /\ pc' = "decide" /\ (~feed'.close => g.fr # "none")
        BY <3>1, <4>1, OutcomeFacts
      <4>3. ASSUME ~feed'.close PROVE Quiet'
        <5>1. g.fr # "none" /\ Over(g) /\ g.used = Len(r.units)
          BY <3>1, <3>4, <4>2, <4>3 DEF Over
        <5>2. Unused(g, r.units) = <<>>
          <6>1. r.units \in Seq(Unit) /\ Len(r.units) \in Nat
            BY <2>1 DEF Record
          <6>2. SubSeq(r.units, Len(r.units) + 1, Len(r.units)) = <<>>
            BY <6>1, SubSeqEmpty
          <6> QED BY <5>1, <6>2 DEF Unused
        <5>3. conn'.stash = <<>>
          BY <1>1, <4>1, <5>2 DEF Reading, SyncInv, ConnInv, ConnType
        <5>4. /\ peer.todo = <<>>
              /\ \A x \in 1..Len(Tail(peer.in)) :
                    Tail(peer.in)[x].type = "data" => Tail(peer.in)[x].units = <<>>
          BY <2>3, <2>8, <3>1, <5>1, ArrivesOver
        <5>5. \A x \in 1..Len(peer'.in) : peer'.in[x].units = <<>>
          BY <2>5, <2>6, <5>4
        <5> QED BY <2>5, <3>2, <5>3, <5>4, <5>5 DEF Quiet
      <4> QED BY <2>7, <4>2, <4>3 DEF SyncInv, Waiting
    <3> QED BY <3>3, <3>4
  <2> QED BY <2>1, <2>9, <2>10, <2>11 DEF Record
<1> QED BY <1>2, <1>3, <1>4

\* After the exchange a connection is kept only if nothing is left on it.
LEMMA AfterSync ==
  ASSUME SyncInv, ConnInv', Retry \/ Decide \/ Redirect
  PROVE  SyncInv'
<1>1. CASE Retry
  BY <1>1, ClosedSync, NoFeedFed DEF Retry
<1>2. CASE Decide \/ Redirect
  <2>1. /\ pc = "decide" /\ pc' \in {"idle", "step"} /\ feed' = NoFeed
        /\ IF feed.close THEN CloseConn ELSE KeepConn
    BY <1>2 DEF Decide, Redirect, EndJob, CloseIfMust, MustClose
  <2>2. CASE feed.close
    BY <2>1, <2>2, ClosedSync, NoFeedFed
  <2>3. CASE ~feed.close
    BY <2>1, <2>3, KeptSync, NoFeedFed DEF KeepConn, Waiting
  <2> QED BY <2>2, <2>3
<1> QED BY <1>1, <1>2

\* What the server and the network do.
LEMMA PeerSync ==
  ASSUME SyncInv, ConnInv', Peer
  PROVE  SyncInv'
<1>1. UNCHANGED <<pc, conn, feed>>
  BY DEF Peer, PeerSends, PeerTicket, PeerCloses, PeerResets, PeerUnchanged
<1>2. conn.alive
  BY DEF Peer, PeerSends, PeerTicket, PeerCloses, PeerResets, Up
<1> DEFINE P == [todo : Seq(Unit), in : Seq(Record), line : {"up", "closed", "reset"},
                 tickets : Nat, seen : BOOLEAN]
<1>3. /\ peer \in P /\ peer.in \in Seq(Record) /\ peer.todo \in Seq(Unit)
      /\ Len(peer.in) \in Nat /\ Len(peer.todo) \in Nat
      /\ \A x \in 1..Len(peer.in) : peer.in[x].type # "data" => peer.in[x].units = <<>>
  BY DEF SyncInv, PeerType
<1>4. <<>> \in Seq(Unit) /\ <<>> \in Seq(Record) /\ Len(<<>>) = 0 /\ <<>> \in Seq({})
  BY EmptySeq
\* It is enough to look at the records and at what is still to be sent.
<1>5. SUFFICES /\ peer' \in P /\ peer'.seen = peer.seen
               /\ \A x \in 1..Len(peer'.in) :
                     peer'.in[x].type # "data" => peer'.in[x].units = <<>>
               /\ Quiet => /\ peer'.todo = <<>>
                           /\ \A x \in 1..Len(peer'.in) : peer'.in[x].units = <<>>
               /\ Arrives(feed, peer.in, peer.todo) => Arrives(feed, peer'.in, peer'.todo)
  <2>1. PeerType'
    BY <1>5 DEF PeerType
  <2>2. Quiet => Quiet'
    BY <1>1, <1>5 DEF Quiet
  <2>3. Reading => Reading'
    BY <1>1, <1>5 DEF Reading
  <2> QED BY <1>1, <2>1, <2>2, <2>3 DEF SyncInv, Waiting
\* A record that carries nothing is sent.
<1>6. ASSUME NEW r \in Record, r.type # "data", r.units = <<>>
      PROVE  LET m == Append(peer.in, r)
             IN  /\ m \in Seq(Record)
                 /\ \A x \in 1..Len(m) : m[x].type # "data" => m[x].units = <<>>
                 /\ Quiet => \A x \in 1..Len(m) : m[x].units = <<>>
                 /\ Arrives(feed, peer.in, peer.todo) => Arrives(feed, m, peer.todo)
  <2> DEFINE m == Append(peer.in, r)
             n == Len(peer.in)
  <2>1. /\ m \in Seq(Record) /\ Len(m) = n + 1 /\ m[n + 1] = r
        /\ \A x \in 1..n : m[x] = peer.in[x]
    BY <1>3, AppendProperties
  <2> HIDE DEF m
  <2>2. \A x \in 1..(n + 1) : x \in 1..n \/ x = n + 1
    BY <1>3
  <2>3. \A x \in 1..Len(m) : m[x].type # "data" => m[x].units = <<>>
    BY <1>3, <1>6, <2>1, <2>2
  <2>4. Quiet => \A x \in 1..Len(m) : m[x].units = <<>>
    BY <1>6, <2>1, <2>2 DEF Quiet
  <2>5. Arrives(feed, peer.in, peer.todo) => Arrives(feed, m, peer.todo)
    BY <1>3, <1>6, ArrivesOther DEF m
  <2> QED BY <2>1, <2>3, <2>4, <2>5 DEF m
<1>7. CASE PeerSends
  <2>1. PICK n \in 1..Len(peer.todo) :
           peer' = [peer EXCEPT !.in = Append(peer.in, Rec("data", SubSeq(peer.todo, 1, n))),
                                !.todo = SubSeq(peer.todo, n + 1, Len(peer.todo))]
    BY <1>7 DEF PeerSends
  <2> DEFINE r == Rec("data", SubSeq(peer.todo, 1, n))
             rest == SubSeq(peer.todo, n + 1, Len(peer.todo))
             m == Append(peer.in, r)
  <2>2. r \in Record /\ rest \in Seq(Unit) /\ r.type = "data"
    BY <1>3, SubSeqProperties DEF Rec, Record
  <2>3. /\ m \in Seq(Record) /\ Len(m) = Len(peer.in) + 1 /\ m[Len(peer.in) + 1] = r
        /\ \A x \in 1..Len(peer.in) : m[x] = peer.in[x]
    BY <1>3, <2>2, AppendProperties
  <2>4. Arrives(feed, peer.in, peer.todo) => Arrives(feed, m, rest)
    BY <1>3, ArrivesSent
  <2>5. ~Quiet
    BY <1>3, <1>4 DEF Quiet
  <2> HIDE DEF r, rest, m
  <2>6. peer' \in P /\ peer'.in = m /\ peer'.todo = rest /\ peer'.seen = peer.seen
    BY <1>3, <2>1, <2>2, <2>3 DEF m, r, rest
  <2>7. \A x \in 1..Len(m) : x \in 1..Len(peer.in) \/ x = Len(peer.in) + 1
    BY <1>3, <2>3
  <2>8. \A x \in 1..Len(m) : m[x].type # "data" => m[x].units = <<>>
    BY <1>3, <2>2, <2>3, <2>7
  <2> QED BY <2>4, <2>5, <2>6, <2>8
<1>8. CASE PeerTicket
  <2> DEFINE r == Rec("ticket", <<>>)
             m == Append(peer.in, r)
  <2>1. r \in Record /\ r.type # "data" /\ r.units = <<>>
    BY <1>4 DEF Rec, Record
  <2>2. peer' = [peer EXCEPT !.in = m, !.tickets = peer.tickets + 1]
    BY <1>8 DEF PeerTicket
  <2> HIDE DEF r
  <2>3. /\ m \in Seq(Record)
        /\ \A x \in 1..Len(m) : m[x].type # "data" => m[x].units = <<>>
        /\ Quiet => \A x \in 1..Len(m) : m[x].units = <<>>
        /\ Arrives(feed, peer.in, peer.todo) => Arrives(feed, m, peer.todo)
    BY <1>6, <2>1
  <2> HIDE DEF m
  <2>4. peer' \in P /\ peer'.in = m /\ peer'.todo = peer.todo /\ peer'.seen = peer.seen
    <3>1. peer.tickets + 1 \in Nat
      BY <1>3
    <3> QED BY <1>3, <2>2, <2>3, <3>1
  <2> QED BY <2>3, <2>4 DEF Quiet
<1>9. CASE PeerCloses
  <2>1. PICK bye \in {<<>>, <<Rec("alert", <<>>)>>} :
           peer' = [peer EXCEPT !.in = peer.in \o bye, !.todo = <<>>, !.line = "closed"]
    BY <1>9 DEF PeerCloses
  <2> DEFINE m == peer.in \o bye
  <2>2. /\ m \in Seq(Record)
        /\ \A x \in 1..Len(m) : m[x].type # "data" => m[x].units = <<>>
        /\ Quiet => \A x \in 1..Len(m) : m[x].units = <<>>
        /\ Arrives(feed, peer.in, peer.todo) => Arrives(feed, m, peer.todo)
    <3>1. CASE bye = <<>>
      <4>1. m = peer.in
        BY <1>3, <3>1, ConcatEmptySeq
      <4> QED BY <1>3, <4>1 DEF Quiet
    <3>2. CASE bye = <<Rec("alert", <<>>)>>
      <4> DEFINE r == Rec("alert", <<>>)
      <4>1. r \in Record /\ r.type # "data" /\ r.units = <<>>
        BY <1>4 DEF Rec, Record
      <4>2. m = Append(peer.in, r)
        BY <1>3, <3>2, <4>1, AppendIsConcat
      <4> HIDE DEF r, m
      <4> QED BY <1>6, <4>1, <4>2
    <3> QED BY <3>1, <3>2
  <2> HIDE DEF m
  <2>3. Arrives(feed, peer.in, peer.todo) => Arrives(feed, m, <<>>)
    BY <2>2, ArrivesCut
  <2>4. peer' \in P /\ peer'.in = m /\ peer'.todo = <<>> /\ peer'.seen = peer.seen
    BY <1>3, <1>4, <2>1, <2>2 DEF m
  <2> QED BY <2>2, <2>3, <2>4
<1>10. CASE PeerResets
  <2>1. peer' = [peer EXCEPT !.in = <<>>, !.todo = <<>>, !.line = "reset"]
    BY <1>10 DEF PeerResets
  <2>2. /\ peer' \in P /\ peer'.in = <<>> /\ peer'.todo = <<>> /\ peer'.seen = peer.seen
    BY <1>3, <1>4, <2>1
  <2>3. \A x \in 1..Len(peer'.in) : FALSE
    BY <1>4, <2>2
  <2>4. Arrives(feed, <<>>, <<>>)
    BY ArrivesNone DEF SyncInv
  <2> QED BY <2>2, <2>3, <2>4
<1> QED BY <1>7, <1>8, <1>9, <1>10 DEF Peer

\* SyncInv survives every step of the client and of the server.
LEMMA StepSync == SyncInv /\ [Next]_vars => SyncInv'
<1> SUFFICES ASSUME SyncInv, [Next]_vars PROVE SyncInv'
  OBVIOUS
<1>1. ConnInv'
  BY StepConn DEF SyncInv
<1>2. CASE UNCHANGED vars
  <2>1. UNCHANGED <<pc, conn, feed, peer>>
    BY <1>2 DEF vars
  <2> QED BY <1>1, <2>1 DEF SyncInv, PeerType, Waiting, Quiet, Reading
<1>3. CASE Next
  BY <1>1, <1>3, OpeningSync, SendSync, ReadSync, AfterSync, PeerSync DEF Next, Client
<1> QED BY <1>2, <1>3

\* The records of a quiet connection carry nothing.
LEMMA FlattenNothing ==
  ASSUME NEW n \in Nat
  PROVE  FlattenSeq([x \in 1..n |-> <<>>]) = <<>>
<1> DEFINE s == [x \in 1..n |-> <<>>]
           Is(f) == f = [i \in 1..n |-> IF i = 1 THEN s[i] ELSE f[i - 1] \o s[i]]
           flatten == CHOOSE f : Is(f)
           G == {i \in Nat : i \in 1..n => flatten[i] = <<>>}
<1>1. <<>> \in Seq({}) /\ <<>> \o <<>> = <<>> /\ Len(s) = n
  BY EmptySeq, ConcatEmptySeq
<1>2. CASE n = 0
  BY <1>1, <1>2, EmptySeq DEF FlattenSeq
<1>3. CASE n # 0
  <2>1. FlattenSeq(s) = flatten[n]
    BY <1>1, <1>3 DEF FlattenSeq
  <2>2. Is([i \in 1..n |-> <<>>])
    <3> DEFINE e == [i \in 1..n |-> <<>>]
    <3>1. \A i \in 1..n : e[i] = IF i = 1 THEN s[i] ELSE e[i - 1] \o s[i]
      <4>1. \A i \in 1..n : i # 1 => i - 1 \in 1..n
        OBVIOUS
      <4> QED BY <1>1, <4>1
    <3> QED BY <3>1
  <2>3. Is(flatten)
    <3> HIDE DEF Is
    <3> QED BY <2>2, Zenon
  <2>4. \A i \in 1..n : flatten[i] = IF i = 1 THEN s[i] ELSE flatten[i - 1] \o s[i]
    <3> HIDE DEF flatten, s
    <3> QED BY <2>3
  <2> HIDE DEF flatten
  <2>5. 0 \in G
    OBVIOUS
  <2>6. ASSUME NEW i \in Nat, i \in G PROVE i + 1 \in G
    <3>1. ASSUME i + 1 \in 1..n PROVE flatten[i + 1] = <<>>
      <4>1. CASE i = 0
        BY <2>4, <3>1, <4>1
      <4>2. CASE i # 0
        <5>1. i \in 1..n /\ i + 1 # 1 /\ (i + 1) - 1 = i
          BY <3>1, <4>2
        <5>2. flatten[i] = <<>>
          BY <2>6, <5>1
        <5> QED BY <1>1, <2>4, <3>1, <5>1, <5>2
      <4> QED BY <4>1, <4>2
    <3> QED BY <3>1
  <2>7. \A i \in Nat : i \in G
    <3> HIDE DEF G
    <3> QED BY <2>5, <2>6, F!NatSetInduction
  <2>8. n \in 1..n
    BY <1>3
  <2> QED BY <2>1, <2>7, <2>8
<1> QED BY <1>2, <1>3

\* Quiet, in the words of the property.
LEMMA QuietIsEmpty ==
  ASSUME PeerType, Quiet
  PROVE  Leftover = <<>>
<1>1. peer.in \in Seq(Record) /\ Len(peer.in) \in Nat /\ DOMAIN peer.in = 1..Len(peer.in)
  BY LenProperties DEF PeerType
<1>2. [x \in DOMAIN peer.in |-> peer.in[x].units] = [x \in 1..Len(peer.in) |-> <<>>]
  BY <1>1 DEF Quiet
<1>3. FlattenSeq([x \in DOMAIN peer.in |-> peer.in[x].units]) = <<>>
  BY <1>1, <1>2, FlattenNothing
<1>4. <<>> \o <<>> = <<>>
  BY EmptySeq, ConcatEmptySeq
<1> QED BY <1>3, <1>4 DEF Leftover, Quiet

\* However the server cuts its answers into records, whatever it sends between
\* them, and whenever it closes or resets the connection: a request is only ever
\* sent on a connection on which nothing of an earlier answer is left, and no part
\* of an earlier answer is taken for this one (http_resp_feed, the stash of the
\* connection and out_peer_wants_close).
THEOREM ResponsesInSync == Spec => []StaysInSync
<1>1. SyncInv => StaysInSync
  <2> SUFFICES ASSUME SyncInv PROVE StaysInSync
    OBVIOUS
  <2>1. ~feed.stale
    BY DEF SyncInv, Fed, FeedState
  <2>2. conn.alive /\ pc \in {"idle", "step", "send"} => Leftover = <<>>
    BY QuietIsEmpty DEF SyncInv, Waiting
  <2>3. pc = "send" => ~peer.seen
    BY DEF SyncInv, ConnInv, AtPc, Waiting, Quiet
  <2> QED BY <2>1, <2>2, <2>3 DEF StaysInSync
<1> QED BY <1>1, InitSync, StepSync, PTL DEF Spec
=============================================================================
