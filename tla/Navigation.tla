----------------------------- MODULE Navigation -----------------------------
(***************************************************************************)
(* One navigation after the other, as browser_do_https_status runs them:   *)
(* resolve the host over DNS (net_dns.h), connect (net_tcp.h), exchange    *)
(* one request and response, follow redirects (url.h), show the page.      *)
(*                                                                         *)
(* The network is the environment: a server may be silent, answer late,    *)
(* or answer what is of no use; an answer that comes after its query was   *)
(* given up may reach the next one, whose socket can get the same port.    *)
(* The exchange itself is the subject of Tls13: here it reads on for as    *)
(* long as the server sends what does not end it, and may at any record,   *)
(* or when none comes, end with one of the outcomes its caller tells apart.*)
(***************************************************************************)
EXTENDS Url, FiniteSets

CONSTANTS Starts,     \* what the program may be started with
          Inputs,     \* what the user may type
          Locations,  \* targets of redirects and of links; <<>> is none
          Known,      \* hosts that have addresses
          Ids,        \* identifiers of queries, 2^16 of them in the program
          MaxSteps,   \* exchanges in one navigation, 6 in the program
          MaxLate     \* bound on answers under way to queries given up

ASSUME NavigationAssumption ==
    /\ MaxSteps \in Nat \ {0} /\ MaxLate \in Nat
    /\ Ids \subseteq Nat /\ IsFiniteSet(Ids)
    /\ <<>> \notin Known
    /\ Starts \cup Inputs \cup Locations \subseteq Seq(STRING)

VARIABLES pc,     \* where the navigation is
          url,    \* host and path
          step,   \* redirects followed in this navigation
          qtype,  \* the kind of address looked for
          try,    \* which of the four servers is asked
          query,  \* the query sent
          late,   \* answers to queries given up
          ip6,    \* the addresses found
          ip4,
          sock,   \* the connection, and whether something has arrived on it
          open,   \* how many sockets the process has open
          body,   \* of which place the buffer holds a body
          page    \* struct browser_page

net  == <<qtype, try, query, late, ip6, ip4, sock, open>>
vars == <<pc, url, step, net, body, page>>

-----------------------------------------------------------------------------
NoQuery == [id |-> 0, type |-> "none", host |-> <<>>]
NoAddr  == [host |-> <<>>, type |-> "none"]
NoSock  == [to |-> NoAddr, blocking |-> FALSE, timed |-> FALSE, arrived |-> FALSE]

Blank       == [host |-> <<>>, path |-> <<"blank">>]
Message     == [host |-> <<>>, path |-> <<"message">>]
EmptyPage   == [text |-> Blank, bar |-> <<>>, active |-> <<>>, have |-> FALSE]

DefaultUrl == [host |-> <<"a">>, path |-> <<"/">>]

\* Labels are not empty; a label of 64 characters is not in the model.
Encodable(host) ==
    /\ host[1] # "." /\ host[Len(host)] # "."
    /\ \A k \in 1..(Len(host) - 1) : host[k] # "." \/ host[k + 1] # "."

\* Where a name that was not found, or not reached, leads.
GiveUpAddress ==
    IF qtype = "AAAA" THEN /\ pc' = "ask" /\ qtype' = "A" /\ try' = 1
    ELSE /\ pc' = "unreachable" /\ UNCHANGED <<qtype, try>>

\* dns_resolve_aaaa_google and dns_resolve_a_google4: two servers, twice.
NextServer ==
    IF try < 4 THEN /\ pc' = "ask" /\ try' = try + 1 /\ UNCHANGED qtype
    ELSE GiveUpAddress

Init ==
    /\ pc = "idle"
    /\ \E s \in Starts :
        url = IF UserInput(DefaultUrl.host, s) = NoUrl THEN DefaultUrl
              ELSE UserInput(DefaultUrl.host, s)
    /\ step = 0 /\ qtype = "AAAA" /\ try = 1 /\ query = NoQuery /\ late = {}
    /\ ip6 = NoAddr /\ ip4 = NoAddr /\ sock = NoSock /\ open = 0
    /\ body = NoUrl /\ page = EmptyPage

-----------------------------------------------------------------------------
(***************************************************************************)
(* The resolver.                                                           *)
(***************************************************************************)
\* No socket, a name that cannot be encoded, or a query that cannot be sent: whatever
\* was opened is closed.
CannotAsk ==
    /\ pc = "ask"
    /\ NextServer
    /\ UNCHANGED <<url, step, query, late, ip6, ip4, sock, open, body, page>>

\* Identifiers are random: two queries whose answers can still meet have different ones.
Ask ==
    /\ pc = "ask" /\ Encodable(url.host)
    /\ \E id \in Ids \ {a.id : a \in late} :
        query' = [id |-> id, type |-> qtype, host |-> url.host]
    /\ open' = open + 1
    /\ pc' = "await"
    /\ UNCHANGED <<url, step, qtype, try, late, ip6, ip4, sock, body, page>>

\* Mutant of Accepts: the identifier is not looked at.
AcceptsAnyId(a) == a.type = query.type

\* Only the first datagram is looked at; its sender and its question are not.
Accepts(a) == a.id = query.id /\ a.type = query.type

\* What may be under way when the query is given up; any of it can be lost.
LeftBehind(answers) == {S \in SUBSET answers : Cardinality(S) <= MaxLate}

\* Mutant of AskDone: the socket stays open when the answer was of no use.
AskDoneLeaks == query' = NoQuery /\ UNCHANGED open

AskDone == query' = NoQuery /\ open' = open - 1

\* An answer with an address: the server's, or a late one.
Resolved ==
    /\ pc = "await"
    /\ \E a \in late \cup (IF query.host \in Known THEN {query} ELSE {}) :
        /\ Accepts(a)
        /\ IF qtype = "AAAA"
           THEN ip6' = [host |-> a.host, type |-> a.type] /\ UNCHANGED ip4
           ELSE ip4' = [host |-> a.host, type |-> a.type] /\ UNCHANGED ip6
        /\ late' \in LeftBehind((late \cup {query}) \ {a})
    /\ AskDone
    /\ pc' = "connect"
    /\ UNCHANGED <<url, step, qtype, try, sock, body, page>>

\* No answer within a second, or one that is refused.
NotResolved ==
    /\ pc = "await"
    /\ AskDone
    /\ late' \in LeftBehind(late \cup (IF query.host \in Known THEN {query} ELSE {}))
    /\ NextServer
    /\ UNCHANGED <<url, step, ip6, ip4, sock, body, page>>

TryServer == CannotAsk \/ Ask \/ Resolved \/ NotResolved

TryServerAAAA  == qtype = "AAAA" /\ try \in {1, 2} /\ TryServer
TryServerAAAA4 == qtype = "AAAA" /\ try \in {3, 4} /\ TryServer
TryServerA6    == qtype = "A" /\ try \in {1, 2} /\ TryServer
TryServerA4    == qtype = "A" /\ try \in {3, 4} /\ TryServer

-----------------------------------------------------------------------------
(***************************************************************************)
(* The connection.                                                         *)
(***************************************************************************)
Target == IF qtype = "AAAA" THEN ip6 ELSE ip4

\* A socket that is ready for TLS: a read or a write blocks, for a few seconds at most.
\* What fcntl and setsockopt return is not looked at; on an open socket they succeed.
Ready(to) == [to |-> to, blocking |-> TRUE, timed |-> TRUE, arrived |-> FALSE]

ConnectRefused ==
    /\ pc = "connect"
    /\ GiveUpAddress
    /\ UNCHANGED <<url, step, query, late, ip6, ip4, sock, open, body, page>>

ConnectAtOnce ==
    /\ pc = "connect"
    /\ sock' = Ready(Target) /\ open' = open + 1
    /\ pc' = "exchange"
    /\ UNCHANGED <<url, step, qtype, try, query, late, ip6, ip4, body, page>>

ConnectBegins ==
    /\ pc = "connect"
    /\ sock' = [NoSock EXCEPT !.to = Target]
    /\ open' = open + 1
    /\ pc' = "poll"
    /\ UNCHANGED <<url, step, qtype, try, query, late, ip6, ip4, body, page>>

ConnectDone ==
    /\ pc = "poll"
    /\ sock' = Ready(sock.to)
    /\ pc' = "exchange"
    /\ UNCHANGED <<url, step, qtype, try, query, late, ip6, ip4, open, body, page>>

\* Three seconds are over, or the socket has an error.
ConnectFails ==
    /\ pc = "poll"
    /\ sock' = NoSock /\ open' = open - 1
    /\ GiveUpAddress
    /\ UNCHANGED <<url, step, query, late, ip6, ip4, body, page>>

ConnectWithTimeout == ConnectAtOnce \/ ConnectBegins \/ ConnectDone \/ ConnectFails

Tcp6Connect == qtype = "AAAA" /\ (ConnectRefused \/ ConnectWithTimeout)
Tcp4Connect == qtype = "A" /\ (ConnectRefused \/ ConnectWithTimeout)

-----------------------------------------------------------------------------
(***************************************************************************)
(* The navigation.                                                         *)
(***************************************************************************)
\* The page is cleared; jobs of the old page are the subject of ImgPipeline.
Begin(u) ==
    /\ pc = "idle"
    /\ u # NoUrl
    /\ url' = u
    /\ body' = NoUrl
    /\ page' = [page EXCEPT !.text = Blank, !.have = FALSE]
    /\ step' = 0
    /\ pc' = "ask" /\ qtype' = "AAAA" /\ try' = 1
    /\ ip6' = NoAddr /\ ip4' = NoAddr
    /\ UNCHANGED <<query, late, sock, open>>

Reload == Begin(url)
Type   == \E in \in Inputs : Begin(UserInput(url.host, in))
Follow == \E loc \in Locations : Begin(ApplyLocation(url.host, loc))

\* browser_do_https_status comes to its early return.
Unreachable ==
    /\ pc = "unreachable"
    /\ page' = [page EXCEPT !.text = Message, !.have = TRUE]
    /\ pc' = "idle"
    /\ UNCHANGED <<url, step, net, body>>

\* The server sends a record, or as little as a byte of one.  It need not.
ServerSends ==
    /\ pc = "exchange" /\ ~sock.arrived
    /\ sock' = [sock EXCEPT !.arrived = TRUE]
    /\ UNCHANGED <<pc, url, step, qtype, try, query, late, ip6, ip4, open, body, page>>

\* The loops that wait for ServerHello, for Finished and for the end of the response go
\* round: the record is incomplete, is of a kind that is skipped, or is not the last one.
\* Nothing counts them, and the next read has all of its time again.
ReadOn ==
    /\ pc = "exchange" /\ sock.arrived
    /\ sock' = [sock EXCEPT !.arrived = FALSE]
    /\ UNCHANGED <<pc, url, step, qtype, try, query, late, ip6, ip4, open, body, page>>

HangUp == sock' = NoSock /\ open' = open - 1

\* Mutant of ExchangeFails: the body of the redirect before is still in the buffer.
ExchangeFailsKeeps ==
    /\ pc = "exchange"
    /\ HangUp
    /\ pc' = "show"
    /\ UNCHANGED <<url, step, qtype, try, query, late, ip6, ip4, body, page>>

\* Handshake or response fail.
ExchangeFails ==
    /\ pc = "exchange"
    /\ HangUp
    /\ body' = NoUrl
    /\ pc' = "show"
    /\ UNCHANGED <<url, step, qtype, try, query, late, ip6, ip4, page>>

\* A body the program cannot decode.
Encoded ==
    /\ pc = "exchange"
    /\ HangUp
    /\ body' = NoUrl
    /\ page' = [page EXCEPT !.text = Message]
    /\ pc' = "show"
    /\ UNCHANGED <<url, step, qtype, try, query, late, ip6, ip4>>

\* A response that is no redirect, or one without a target the program understands.
Final ==
    /\ pc = "exchange"
    /\ HangUp
    /\ body' \in {NoUrl, url}
    /\ pc' = "show"
    /\ UNCHANGED <<url, step, qtype, try, query, late, ip6, ip4, page>>

\* Mutant of Redirect: the exchanges are not counted.
RedirectUncounted ==
    /\ pc = "exchange"
    /\ HangUp
    /\ body' \in {NoUrl, url}
    /\ \E loc \in Locations \ {<<>>} :
        /\ ApplyLocation(url.host, loc) # NoUrl
        /\ url' = ApplyLocation(url.host, loc)
    /\ pc' = "ask" /\ qtype' = "AAAA" /\ try' = 1
    /\ ip6' = NoAddr /\ ip4' = NoAddr
    /\ UNCHANGED <<step, query, late, page>>

Redirect ==
    /\ pc = "exchange"
    /\ HangUp
    /\ body' \in {NoUrl, url}
    /\ \E loc \in Locations \ {<<>>} :
        /\ ApplyLocation(url.host, loc) # NoUrl
        /\ url' = ApplyLocation(url.host, loc)
    /\ step' = step + 1
    /\ IF step' < MaxSteps
       THEN /\ pc' = "ask" /\ qtype' = "AAAA" /\ try' = 1
            /\ ip6' = NoAddr /\ ip4' = NoAddr
       ELSE /\ pc' = "show"
            /\ UNCHANGED <<qtype, try, ip6, ip4>>
    /\ UNCHANGED <<query, late, page>>

\* The text of the body replaces whatever the page says.
Show ==
    /\ pc = "show"
    /\ page' = [text   |-> IF body = NoUrl THEN page.text ELSE body,
                bar    |-> UrlBar(url),
                active |-> url.host,
                have   |-> TRUE]
    /\ pc' = "idle"
    /\ UNCHANGED <<url, step, net, body>>

Work ==
    \/ TryServerAAAA \/ TryServerAAAA4 \/ TryServerA6 \/ TryServerA4
    \/ Tcp6Connect \/ Tcp4Connect
    \/ ReadOn \/ ExchangeFails \/ Encoded \/ Final \/ Redirect
    \/ Show \/ Unreachable

Next == Reload \/ Type \/ Follow \/ ServerSends \/ Work

\* Every call of the kernel returns: an answer is awaited for one second, a connection
\* for three, and so is each read and write of an exchange, which replaces the five of
\* tcp__set_timeouts.  How many reads an exchange takes is up to the server.
Spec == Init /\ [][Next]_vars /\ WF_vars(Work)

-----------------------------------------------------------------------------
Address == [host : Seq(STRING), type : {"AAAA", "A", "none"}]

\* Every string that can be typed, followed or sent leads to a host that is one and to
\* an absolute path, or nowhere: what the request and the URL bar are made of.
WellFormed(u) ==
    /\ u.host # <<>> /\ Fits(u)
    /\ \A k \in DOMAIN u.host : u.host[k] # "/"
    /\ u.path # <<>> /\ u.path[1] = "/"

TypeOK ==
    /\ pc \in {"idle", "ask", "await", "connect", "poll", "exchange", "show", "unreachable"}
    /\ WellFormed(url)
    /\ step \in 0..MaxSteps /\ try \in 1..4 /\ qtype \in {"AAAA", "A"}
    /\ ip6 \in Address /\ ip4 \in Address
    /\ Cardinality(late) <= MaxLate
    /\ body = NoUrl \/ WellFormed(body)
    /\ page.have => pc = "idle"

\* Whatever answers are late and whichever query they reach, a connection is made to an
\* address of the host whose page is asked for.
AddressIsOfHost ==
    pc \in {"connect", "poll", "exchange"} =>
        /\ Target = [host |-> url.host, type |-> qtype]
        /\ pc # "connect" => sock.to = Target

\* The process has open the socket it is waiting on and no other; the one it hands to
\* TLS blocks and has its timeouts.  Between navigations it has none.
SocketsAccounted ==
    /\ open = IF pc \in {"await", "poll", "exchange"} THEN 1 ELSE 0
    /\ pc = "exchange" => sock.blocking /\ sock.timed

\* Enter on the unchanged text of the URL bar asks for the same page again.  A host that
\* was typed with a port is left out: it keeps the port, and loses it this way.
BarLeadsBack ==
    (\A k \in DOMAIN url.host : url.host[k] # ":") =>
        UserInput(<<"b">>, UrlBar(url)) = url

\* A navigation ends, however hosts redirect, fall silent and fail, unless one server
\* keeps it in one exchange for ever by sending, again and again, what does not end it.
NavigationEnds ==
    \/ <>[](pc = "exchange") /\ []<>sock.arrived
    \/ pc # "idle" ~> pc = "idle"

Led(u, v) == \E loc \in Locations : ApplyLocation(u.host, loc) = v

Load == INSTANCE PageLoad WITH Nowhere <- NoUrl, Blank <- Blank, Message <- Message,
            BarOf <- UrlBar, Leads <- Led,
            place <- IF pc = "idle" THEN url ELSE NoUrl,
            bar <- page.bar,
            text <- IF pc = "idle" THEN page.text ELSE Blank,
            spent <- pc = "idle" /\ step = MaxSteps

\* To the rest of the browser a navigation is: the page is cleared, and then shows the
\* place the URL bar names, or a message.
LoadSpec == Load!Spec
=============================================================================
