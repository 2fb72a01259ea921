------------------------------ MODULE HttpsConn ------------------------------
(***************************************************************************)
(* The keep-alive HTTPS fetch of an image worker:                          *)
(* https_get_prefix_follow_redirects_keepalive of browser_img.c over the   *)
(* reusable connection of tls13_client.c (tls13_https_conn_open, _close    *)
(* and _get_status_location_and_body), with the server at the other end.   *)
(*                                                                         *)
(* The client is one process; each of its steps is a system call or what   *)
(* lies between two of them.  The server answers each request with one     *)
(* well-formed response, cut into TLS records anywhere, and may close,     *)
(* alert or reset the connection at any moment, or stay silent until the   *)
(* client's read times out.                                                *)
(*                                                                         *)
(* Abstractions.  A response is a sequence of units: a head, body units,   *)
(* and the terminator of a chunked body; Content-Length counts units.  A   *)
(* unit is marked new while it answers the last request sent.  A response  *)
(* may be preceded by an informational head (1xx), which the client does   *)
(* not know about and takes for the response.  The handshake succeeds or   *)
(* fails; a record that cannot be opened counts as a reset.                *)
(***************************************************************************)
EXTENDS Integers, Sequences, SequencesExt

CONSTANTS Host,       \* host names
          NoHost,     \* no redirect
          Fd,         \* socket descriptors the kernel may hand out
          NoFd,       \* c->sock = -1
          MaxSteps,   \* requests in a redirect chain, 4 in the program
          MaxBody,    \* body units in a response, at most
          MaxTickets  \* handshake records a server sends after the handshake

ASSUME HttpsAssumption ==
    /\ NoHost \notin Host /\ NoFd \notin Fd
    /\ MaxSteps \in Nat \ {0} /\ MaxBody \in Nat /\ MaxTickets \in Nat

VARIABLES pc,     \* where the client is
          job,    \* [host, step, attempt]: the loops of the fetch
          conn,   \* struct tls13_https_conn
          fds,    \* the sockets the process has open
          feed,   \* struct http_resp_feed_ctx
          rc,     \* of the last exchange
          peer,   \* the server's end of the current connection
          fresh   \* history: was conn opened in this step of this job?

vars == <<pc, job, conn, fds, feed, rc, peer, fresh>>

-----------------------------------------------------------------------------
(***************************************************************************)
(* Responses.                                                              *)
(***************************************************************************)
Framing == {"length", "chunked", "none"}

HeadUnit(fr, n, to, bye) ==
    [t |-> "head", fr |-> fr, n |-> n, to |-> to, bye |-> bye, new |-> TRUE]
Body == [HeadUnit("none", 0, NoHost, FALSE) EXCEPT !.t = "body"]
Term == [Body EXCEPT !.t = "term"]

Unit == [t : {"head", "body", "term"}, fr : Framing, n : 0..MaxBody,
         to : Host \cup {NoHost}, bye : BOOLEAN, new : BOOLEAN]

\* The final response: to is the target of a redirect, bye is Connection: close.
Final(fr, n, to, bye) ==
    <<HeadUnit(fr, n, to, bye)>> \o [x \in 1..n |-> Body]
        \o (IF fr = "chunked" THEN <<Term>> ELSE <<>>)

Interim == <<HeadUnit("none", 0, NoHost, FALSE)>>

Responses ==
    LET final == {Final(fr, n, to, bye) : fr \in Framing, n \in 0..MaxBody,
                                          to \in Host \cup {NoHost}, bye \in BOOLEAN}
    IN  final \cup {Interim \o r : r \in final}

Old(units) == [x \in DOMAIN units |-> [units[x] EXCEPT !.new = FALSE]]

-----------------------------------------------------------------------------
(***************************************************************************)
(* http_resp_feed: one unit after the other until the response is complete.*)
(***************************************************************************)
NoFeed == [head |-> FALSE, fr |-> "none", left |-> 0, to |-> NoHost,
           done |-> FALSE, bad |-> FALSE, close |-> FALSE, stale |-> FALSE,
           used |-> 0]

\* The head tells how the body is framed; a response with neither length nor
\* chunks is taken as complete, without its body.
FeedHead(f, u) ==
    [f EXCEPT !.head = TRUE, !.fr = u.fr, !.left = u.n, !.to = u.to, !.close = u.bye,
              !.done = u.fr = "none" \/ (u.fr = "length" /\ u.n = 0)]

FeedBody(f, u) ==
    IF f.fr = "chunked"
    THEN [f EXCEPT !.done = u.t = "term", !.bad = u.t = "head"]
    ELSE [f EXCEPT !.left = @ - 1, !.done = f.left = 1]

\* Anything but a head is swallowed by the search for the end of the headers.
FeedOne(f, u) ==
    IF f.done \/ f.bad THEN f
    ELSE LET g == [f EXCEPT !.used = @ + 1, !.stale = @ \/ ~u.new]
         IN  IF f.head THEN FeedBody(g, u)
             ELSE IF u.t = "head" THEN FeedHead(g, u)
             ELSE g

Feed(f, units) == FoldLeft(FeedOne, [f EXCEPT !.used = 0], units)

\* What a call of http_resp_feed leaves of its input.
Unused(g, units) == SubSeq(units, g.used + 1, Len(units))

-----------------------------------------------------------------------------
(***************************************************************************)
(* The connection.                                                         *)
(***************************************************************************)
NoConn == [alive |-> FALSE, sock |-> NoFd, host |-> NoHost, stash |-> <<>>]

\* todo: units of answers not sent yet; in: records sent and not read.
NoPeer == [todo |-> <<>>, in |-> <<>>, line |-> "up", tickets |-> 0, seen |-> FALSE]

\* Mutant of CloseConn: the socket is not closed.
CloseConnLeaks ==
    /\ conn' = [conn EXCEPT !.alive = FALSE, !.sock = NoFd, !.stash = <<>>]
    /\ UNCHANGED fds
    /\ peer' = NoPeer

\* tls13_https_conn_close
CloseConn ==
    /\ conn' = [conn EXCEPT !.alive = FALSE, !.sock = NoFd, !.stash = <<>>]
    /\ fds' = IF conn.alive /\ conn.sock # NoFd THEN fds \ {conn.sock} ELSE fds
    /\ peer' = NoPeer

KeepConn == UNCHANGED <<conn, fds, peer>>

-----------------------------------------------------------------------------

Init ==
    /\ pc = "idle"
    /\ job = [host |-> NoHost, step |-> 0, attempt |-> 0]
    /\ conn = NoConn
    /\ fds = {}
    /\ feed = NoFeed
    /\ rc = 0
    /\ peer = NoPeer
    /\ fresh = FALSE

\* The job ends; the connection is kept for the next one if it is alive.
EndJob ==
    /\ pc' = "idle"
    /\ job' = [host |-> NoHost, step |-> 0, attempt |-> 0]
    /\ feed' = NoFeed
    /\ rc' = 0
    /\ fresh' = FALSE

\* img_worker_loop calls the fetch.
StartJob(h) ==
    /\ pc = "idle"
    /\ pc' = "step"
    /\ job' = [host |-> h, step |-> 0, attempt |-> 0]
    /\ UNCHANGED <<conn, fds, feed, rc, peer, fresh>>

\* Mutant of Reusable: any live connection will do.
ReusableAnyHost == conn.alive /\ conn.sock # NoFd

Reusable == conn.alive /\ conn.sock # NoFd /\ conn.host = job.host

\* The head of the redirect loop.
StepReuses ==
    /\ pc = "step" /\ job.step < MaxSteps
    /\ Reusable
    /\ pc' = "send"
    /\ job' = [job EXCEPT !.attempt = 0]
    /\ UNCHANGED <<conn, fds, feed, rc, peer, fresh>>

StepOpens ==
    /\ pc = "step" /\ job.step < MaxSteps
    /\ ~Reusable
    /\ pc' = "open"
    /\ job' = [job EXCEPT !.attempt = 0]
    /\ CloseConn
    /\ UNCHANGED <<feed, rc, fresh>>

StepLimit ==
    /\ pc = "step" /\ job.step = MaxSteps
    /\ EndJob
    /\ KeepConn

(***************************************************************************)
(* https_conn_open_host, the old connection being closed: names resolved   *)
(* and a TCP connection made over IPv6 or IPv4, then the handshake.        *)
(***************************************************************************)
Connect ==
    /\ pc = "open"
    /\ \E s \in Fd \ fds :
        /\ fds' = fds \cup {s}
        /\ conn' = [alive |-> FALSE, sock |-> s, host |-> job.host, stash |-> <<>>]
    /\ pc' = "handshake"
    /\ UNCHANGED <<job, feed, rc, peer, fresh>>

ConnectFails ==
    /\ pc = "open"
    /\ EndJob
    /\ KeepConn

\* After a failed attempt the loop goes round; after two, nothing is sent.
HandshakeOk ==
    /\ pc = "handshake"
    /\ conn' = [conn EXCEPT !.alive = TRUE]
    /\ peer' = NoPeer
    /\ fresh' = TRUE
    /\ pc' = IF job.attempt < 2 THEN "send" ELSE "decide"
    /\ UNCHANGED <<job, fds, feed, rc>>

HandshakeFails ==
    /\ pc = "handshake"
    /\ conn' = [conn EXCEPT !.sock = NoFd]
    /\ fds' = fds \ {conn.sock}
    /\ EndJob
    /\ UNCHANGED peer

(***************************************************************************)
(* tls13_https_conn_get_status_location_and_body.                          *)
(***************************************************************************)

\* The response is over, or will never be: what out_peer_wants_close says.
Outcome(f) ==
    /\ feed' = [f EXCEPT !.close = @ \/ ~f.head \/ f.fr = "none"]
    /\ rc' = 0
    /\ pc' = "decide"

\* The request is written.  A server that has closed its end does not answer.
Send ==
    /\ pc = "send"
    /\ \/ /\ peer.line # "reset"
          /\ \E r \in IF peer.line = "up" THEN Responses ELSE {<<>>} :
                peer' = [peer EXCEPT !.todo = Old(@) \o r,
                                     !.in = [x \in DOMAIN @ |->
                                        [@[x] EXCEPT !.units = Old(peer.in[x].units)]]]
          /\ LET g == Feed(NoFeed, Old(conn.stash))
             IN  /\ conn' = [conn EXCEPT !.stash = Unused(g, Old(conn.stash))]
                 /\ IF g.done THEN Outcome(g)
                    ELSE /\ feed' = g
                         /\ rc' = IF g.bad THEN -1 ELSE 0
                         /\ pc' = IF g.bad THEN "retry" ELSE "read"
       \/ /\ peer.line = "reset"
          /\ feed' = NoFeed /\ rc' = -1 /\ pc' = "retry"
          /\ UNCHANGED <<conn, peer>>
    /\ UNCHANGED <<job, fds, fresh>>

\* A record is read.  A decrypted record that is not application data, nor an
\* alert, is skipped.
ReadRecord ==
    /\ pc = "read"
    /\ peer.in # <<>>
    /\ LET r == peer.in[1]
           g == Feed(feed, r.units)
       IN  /\ peer' = [peer EXCEPT !.in = Tail(@), !.seen = @ \/ r.type = "alert"]
           /\ \/ /\ r.type = "ticket"
                 /\ UNCHANGED <<pc, feed, rc, conn>>
              \/ /\ r.type = "alert"
                 /\ Outcome([feed EXCEPT !.close = TRUE])
                 /\ UNCHANGED conn
              \/ /\ r.type = "data" /\ ~g.done /\ ~g.bad
                 /\ feed' = g
                 /\ UNCHANGED <<pc, rc, conn>>
              \/ /\ r.type = "data" /\ g.bad
                 /\ feed' = g /\ rc' = -1 /\ pc' = "retry"
                 /\ UNCHANGED conn
              \/ /\ r.type = "data" /\ g.done
                 /\ Outcome(g)
                 /\ conn' = [conn EXCEPT !.stash =
                        IF Unused(g, r.units) # <<>> THEN Unused(g, r.units) ELSE @]
    /\ UNCHANGED <<job, fds, fresh>>

\* The server has closed its end: a success, whatever has been received.
ReadEof ==
    /\ pc = "read"
    /\ peer.in = <<>> /\ peer.line = "closed"
    /\ peer' = [peer EXCEPT !.seen = TRUE]
    /\ Outcome([feed EXCEPT !.close = TRUE])
    /\ UNCHANGED <<job, conn, fds, fresh>>

\* A reset, or SO_RCVTIMEO expires.
ReadFails ==
    /\ pc = "read"
    /\ peer.in = <<>> /\ peer.line # "closed"
    /\ rc' = -1
    /\ pc' = "retry"
    /\ UNCHANGED <<job, conn, fds, feed, peer, fresh>>

(***************************************************************************)
(* "Retry once with a fresh connection": the connection is closed and      *)
(* opened again, after the second failed attempt too.                      *)
(***************************************************************************)
Retry ==
    /\ pc = "retry"
    /\ CloseConn
    /\ job' = [job EXCEPT !.attempt = @ + 1]
    /\ pc' = "open"
    /\ feed' = NoFeed
    /\ UNCHANGED <<rc, fresh>>

\* Mutant of MustClose: a response without framing does not end the connection.
MustCloseUnlessFramed == feed.close /\ (feed.fr # "none" \/ ~feed.head)

MustClose == feed.close

CloseIfMust == IF MustClose THEN CloseConn ELSE KeepConn

\* The exchange is over: a final answer, or two failures.
Decide ==
    /\ pc = "decide"
    /\ rc # 0 \/ feed.to = NoHost
    /\ CloseIfMust
    /\ EndJob

\* Mutant of Redirect: the step is not counted.
RedirectUncounted ==
    /\ pc = "decide"
    /\ rc = 0 /\ feed.to # NoHost
    /\ CloseIfMust
    /\ \/ EndJob
       \/ /\ pc' = "step"
          /\ job' = [host |-> feed.to, step |-> job.step, attempt |-> 0]
          /\ feed' = NoFeed
          /\ fresh' = FALSE
          /\ UNCHANGED rc

\* A redirect; its Location may be of a form the client does not understand.
Redirect ==
    /\ pc = "decide"
    /\ rc = 0 /\ feed.to # NoHost
    /\ CloseIfMust
    /\ \/ EndJob
       \/ /\ pc' = "step"
          /\ job' = [host |-> feed.to, step |-> job.step + 1, attempt |-> 0]
          /\ feed' = NoFeed
          /\ fresh' = FALSE
          /\ UNCHANGED rc

Client ==
    \/ StepReuses \/ StepOpens \/ StepLimit
    \/ Connect \/ ConnectFails \/ HandshakeOk \/ HandshakeFails
    \/ Send \/ ReadRecord \/ ReadEof \/ ReadFails
    \/ Retry \/ Decide \/ Redirect

-----------------------------------------------------------------------------
(***************************************************************************)
(* The server's end of a live connection.                                  *)
(***************************************************************************)
Up == conn.alive /\ peer.line = "up"

Rec(type, units) == [type |-> type, units |-> units]

PeerUnchanged == UNCHANGED <<pc, job, conn, fds, feed, rc, fresh>>

\* Part of an answer goes out as one record.
PeerSends ==
    /\ Up
    /\ \E n \in 1..Len(peer.todo) :
        peer' = [peer EXCEPT !.in = Append(@, Rec("data", SubSeq(peer.todo, 1, n))),
                             !.todo = SubSeq(@, n + 1, Len(@))]
    /\ PeerUnchanged

\* A NewSessionTicket, or any other handshake record.
PeerTicket ==
    /\ Up /\ peer.tickets < MaxTickets
    /\ peer' = [peer EXCEPT !.in = Append(@, Rec("ticket", <<>>)),
                            !.tickets = @ + 1]
    /\ PeerUnchanged

\* The server is done with the connection, busy or idle: close_notify and FIN,
\* or FIN alone.
PeerCloses ==
    /\ Up
    /\ \E bye \in {<<>>, <<Rec("alert", <<>>)>>} :
        peer' = [peer EXCEPT !.in = @ \o bye, !.todo = <<>>, !.line = "closed"]
    /\ PeerUnchanged

\* A reset throws away what was not read.
PeerResets ==
    /\ conn.alive /\ peer.line # "reset"
    /\ peer' = [peer EXCEPT !.in = <<>>, !.todo = <<>>, !.line = "reset"]
    /\ PeerUnchanged

Peer == PeerSends \/ PeerTicket \/ PeerCloses \/ PeerResets

Next == Client \/ Peer \/ \E h \in Host : StartJob(h)

Spec == Init /\ [][Next]_vars

\* The worker runs, and every system call of it returns: connects, reads and
\* writes have timeouts.
FairSpec == Spec /\ WF_vars(Client)

-----------------------------------------------------------------------------
Record == [type : {"data", "ticket", "alert"}, units : Seq(Unit)]

TypeOK ==
    /\ pc \in {"idle", "step", "open", "handshake", "send", "read", "retry",
               "decide"}
    /\ job \in [host : Host \cup {NoHost}, step : 0..MaxSteps, attempt : 0..2]
    /\ conn \in [alive : BOOLEAN, sock : Fd \cup {NoFd},
                 host : Host \cup {NoHost}, stash : Seq(Unit)]
    /\ fds \subseteq Fd
    /\ rc \in {0, -1}
    /\ peer.todo \in Seq(Unit) /\ peer.in \in Seq(Record)
    /\ peer.line \in {"up", "closed", "reset"}
    /\ peer.tickets \in 0..MaxTickets
    /\ fresh \in BOOLEAN

\* The process has exactly the socket it uses open: none is leaked by a failed
\* handshake, a retry or a redirect, and none is closed twice.
SocketsAccounted ==
    fds = IF conn.alive \/ pc = "handshake" THEN {conn.sock} ELSE {}

\* What is left of earlier responses: in the stash, on its way, or with the server.
Leftover ==
    conn.stash \o peer.todo
        \o FlattenSeq([x \in DOMAIN peer.in |-> peer.in[x].units])

\* "Responses are always drained fully so subsequent requests stay in sync": before
\* a request is sent on a connection in use nothing of an earlier response is left,
\* nor has the end of the stream been read; and no part of the answer to an earlier
\* request is taken for the answer to this one (http_resp_feed is fed from the stash
\* and from records).
StaysInSync ==
    /\ conn.alive /\ pc \in {"idle", "step", "send"} => Leftover = <<>>
    /\ pc = "send" => ~peer.seen
    /\ ~feed.stale

\* A request goes to the host it is meant for, redirects and retries included.
RightHost == pc \in {"send", "read"} => conn.alive /\ conn.host = job.host

\* Every job ends: the loops of redirects, attempts and records are bounded.
JobsEnd == pc # "idle" ~> pc = "idle"

\* "Retry once with a fresh connection": when the client ends an exchange
\* without so much as a response head, it has tried a connection opened for
\* this request, not only one kept from an earlier one.
RetriedOnFresh == pc = "decide" /\ ~feed.head => fresh
=============================================================================
