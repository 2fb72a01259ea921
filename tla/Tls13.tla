--------------------------------- MODULE Tls13 ---------------------------------
(***************************************************************************)
(* The TLS 1.3 client of tls13_client.c: handshake and record layer of a   *)
(* connection, opened and closed again and again by its users, and the     *)
(* server.  The handshake is written twice in the program, in              *)
(* tls13_handshake_to_app and in the one-shot request of                   *)
(* tls13_https_get_status_location_and_body; the two are the same.         *)
(*                                                                         *)
(* Abstractions.  Hashes, key derivation, encryption and the exchange of   *)
(* shares are ideal: a traffic key is who uses it, in which phase, on      *)
(* which connection (for its random values) and the transcript it is       *)
(* derived from; a sealed record opens under the key and the number it was *)
(* sealed with, and no other.  The server follows RFC 8446: it packs its   *)
(* messages into records as it likes, sends ChangeCipherSpec, tickets,     *)
(* data before the client's Finished, and stops at any time.  odd marks a  *)
(* server that makes use of what the client does not support: messages     *)
(* split over records, HelloRetryRequest, KeyUpdate.                       *)
(***************************************************************************)
EXTENDS Integers, Sequences, SequencesExt

CONSTANTS MaxConns,     \* connections opened
          MaxRequests,  \* requests on a connection
          MaxRecords    \* records of the server after its Finished

ASSUME TlsAssumption == MaxConns \in Nat /\ MaxRequests \in Nat /\ MaxRecords \in Nat

VARIABLES pc,     \* where the client is
          n,      \* the current connection
          tr,     \* transcript: the client's
          tx, rx, \* struct tls13_aead: the client's current keys
          srv,    \* the server's end
          down,   \* records from the server, not read yet
          up,     \* records to the server, not read yet
          sealed, \* history: keys and numbers the client has sealed with
          reused, \* history: a pair of them was used twice
          why     \* history: why the client has left this connection

clientVars == <<pc, n, tr, tx, rx, sealed, reused, why>>
vars == <<clientVars, srv, down, up>>

-----------------------------------------------------------------------------
Key(side, phase, transcript) ==
    [conn |-> n, side |-> side, phase |-> phase, from |-> transcript]

NoKey == [conn |-> 0, side |-> "none", phase |-> "none", from |-> <<>>]

\* tls13_aead_invalidate, and freshly derived keys.
NoAead == [valid |-> FALSE, key |-> NoKey, seq |-> 0]
Aead(key) == [valid |-> TRUE, key |-> key, seq |-> 0]
Advance(aead) == [aead EXCEPT !.seq = @ + 1]

\* What a record carries: messages of the handshake, or data, or nothing that matters.
Plain(type, msgs) == [type |-> type, key |-> NoKey, seq |-> 0, msgs |-> msgs]
Sealed(aead, type, msgs) == [type |-> type, key |-> aead.key, seq |-> aead.seq, msgs |-> msgs]

Opens(aead, r) == aead.valid /\ r.key = aead.key /\ r.seq = aead.seq

\* A message of the handshake, or the part of it that a record holds: "short" is
\* less than its four bytes of type and length.
Msg(name, part, transcript) == [name |-> name, part |-> part, tr |-> transcript]
Whole(name) == Msg(name, "whole", <<>>)

-----------------------------------------------------------------------------
(***************************************************************************)
(* The client.                                                             *)
(***************************************************************************)
SrvStart == [at |-> "hello", tr |-> <<"CH">>, tx |-> NoAead, rx |-> NoAead,
             left |-> <<"EE", "CERT", "FIN">>, cut |-> FALSE, ccs |-> FALSE,
             finished |-> FALSE, sent |-> 0, got |-> 0, odd |-> FALSE,
             refuses |-> FALSE]

Init ==
    /\ pc = "closed" /\ n = 0
    /\ tr = <<>> /\ tx = NoAead /\ rx = NoAead
    /\ srv = [SrvStart EXCEPT !.at = "gone"]
    /\ down = <<>> /\ up = <<>>
    /\ sealed = {} /\ reused = FALSE /\ why = "none"

\* A new connection: ClientHello goes out.
Open ==
    /\ pc = "closed" /\ n < MaxConns
    /\ n' = n + 1
    /\ pc' = "hello"
    /\ tr' = <<"CH">> /\ tx' = NoAead /\ rx' = NoAead
    /\ srv' = SrvStart
    /\ down' = <<>> /\ up' = <<>>
    /\ why' = "none"
    /\ UNCHANGED <<sealed, reused>>

CloseSocket ==
    /\ pc \in {"open", "leaving"}
    /\ pc' = "closed"
    /\ tr' = <<>>
    /\ srv' = [SrvStart EXCEPT !.at = "gone"]
    /\ down' = <<>> /\ up' = <<>>
    /\ why' = "none"
    /\ UNCHANGED <<n, sealed, reused>>

\* tls13_https_conn_close, or close in the callers of the one-shot request.
Close == CloseSocket /\ tx' = NoAead /\ rx' = NoAead

\* Mutant of Leave: the caller sends its next request on the same connection.
LeaveNot(reason) ==
    /\ pc' = "open"
    /\ why' = reason

Leave(reason) ==
    /\ pc' = "leaving"
    /\ why' = reason

Takes == down' = Tail(down) /\ UNCHANGED <<n, srv, up, sealed, reused>>

\* The one record the client takes in the clear, but for ChangeCipherSpec.
ReadServerHello ==
    /\ pc = "hello" /\ down # <<>>
    /\ LET r == down[1]
       IN  \/ /\ r.type = "ccs"
              /\ UNCHANGED <<pc, tr, tx, rx, why>>
           \/ /\ r.type = "handshake" /\ r.msgs = <<Whole("SH")>>
              /\ tr' = Append(tr, "SH")
              /\ tx' = Aead(Key("client", "hs", tr'))
              /\ rx' = Aead(Key("server", "hs", tr'))
              /\ pc' = "handshake"
              /\ UNCHANGED why
           \/ /\ r.type # "ccs" /\ r.msgs # <<Whole("SH")>>
              /\ Leave(IF r.type = "alert" THEN "alert" ELSE "rejected")
              /\ UNCHANGED <<tr, tx, rx>>
    /\ Takes

(***************************************************************************)
(* The messages of one record, in turn.  A message that goes beyond the    *)
(* end of the record is refused, unless less than four bytes of it are     *)
(* there: they are skipped.  The rest of a split message is taken for a    *)
(* message.  What follows Finished in its record is skipped.               *)
(***************************************************************************)
\* Mutant of TakeMsg: Finished is verified and not added.
TakeMsgFinLast(s, m) ==
    IF ~s.ok \/ s.fin \/ m.part = "short" THEN s
    ELSE IF m.part = "part" \/ (m.name = "FIN" /\ m.part = "whole" /\ m.tr # s.tr)
    THEN [s EXCEPT !.ok = FALSE]
    ELSE IF m.name = "FIN" /\ m.part = "whole" THEN [s EXCEPT !.fin = TRUE]
    ELSE [s EXCEPT !.tr = Append(@, IF m.part = "rest" THEN "garbage" ELSE m.name)]

TakeMsg(s, m) ==
    IF ~s.ok \/ s.fin \/ m.part = "short" THEN s
    ELSE IF m.part = "part" \/ (m.name = "FIN" /\ m.part = "whole" /\ m.tr # s.tr)
    THEN [s EXCEPT !.ok = FALSE]
    ELSE [s EXCEPT !.tr = Append(@, IF m.part = "rest" THEN "garbage" ELSE m.name),
                   !.fin = m.name = "FIN" /\ m.part = "whole"]

TakeMsgs(msgs) == FoldLeft(TakeMsg, [tr |-> tr, ok |-> TRUE, fin |-> FALSE], msgs)

\* The rest of a split message may also announce more than the record holds.
Misread(msgs) == msgs # <<>> /\ msgs[1].part = "rest"

ReadHandshake ==
    /\ pc = "handshake" /\ down # <<>>
    /\ LET r == down[1]
           s == TakeMsgs(r.msgs)
       IN  \/ /\ r.type = "ccs"
              /\ UNCHANGED <<pc, tr, rx, why>>
           \/ /\ r.type # "ccs" /\ ~Opens(rx, r)
              /\ Leave("rejected")
              /\ UNCHANGED <<tr, rx>>
           \/ /\ r.type \notin {"ccs", "handshake"} /\ Opens(rx, r)
              /\ rx' = Advance(rx)
              /\ UNCHANGED <<pc, tr, why>>
           \/ /\ r.type = "handshake" /\ Opens(rx, r) /\ s.ok
              /\ rx' = Advance(rx)
              /\ tr' = s.tr
              /\ pc' = IF s.fin THEN "finish" ELSE "handshake"
              /\ UNCHANGED why
           \/ /\ r.type = "handshake" /\ Opens(rx, r) /\ (~s.ok \/ Misread(r.msgs))
              /\ rx' = Advance(rx)
              /\ Leave("rejected")
              /\ UNCHANGED tr
    /\ UNCHANGED tx
    /\ Takes

\* A record is encrypted; all of it, some of it or nothing of it is written.
Seals ==
    /\ tx.valid
    /\ sealed' = sealed \cup {<<tx.key, tx.seq>>}
    /\ reused' = (reused \/ <<tx.key, tx.seq>> \in sealed)

SealFails ==
    /\ Seals
    /\ Leave("broken")
    /\ UNCHANGED <<n, tr, tx, rx, srv, down, up>>

\* Mutant of AppKeys: they are derived when the client's Finished is out.
AppKeysLate(side) == Aead(Key(side, "app", Append(tr, "CFIN")))

AppKeys(side) == Aead(Key(side, "app", tr))

\* The keys for data are derived, and the client's Finished sealed with the old one.
SendFinished ==
    /\ pc = "finish"
    /\ \/ /\ Seals
          /\ up' = Append(up, Sealed(tx, "handshake", <<Msg("CFIN", "whole", tr)>>))
          /\ tx' = AppKeys("client")
          /\ rx' = AppKeys("server")
          /\ pc' = "open"
          /\ UNCHANGED <<n, tr, srv, down, why>>
       \/ SealFails

Request ==
    /\ pc = "open"
    /\ tx.seq < MaxRequests
    /\ \/ /\ Seals
          /\ up' = Append(up, Sealed(tx, "data", <<>>))
          /\ tx' = Advance(tx)
          /\ UNCHANGED <<pc, n, tr, rx, srv, down, why>>
       \/ SealFails

\* A record of the open connection; it is read for the sake of a response only.
ReadApp ==
    /\ pc = "open" /\ tx.seq > 0 /\ down # <<>>
    /\ LET r == down[1]
       IN  \/ /\ r.type = "ccs"
              /\ UNCHANGED <<pc, rx, why>>
           \/ /\ r.type # "ccs" /\ ~Opens(rx, r)
              /\ Leave("rejected")
              /\ UNCHANGED rx
           \/ /\ r.type # "ccs" /\ Opens(rx, r)
              /\ rx' = Advance(rx)
              /\ IF r.type = "alert" THEN Leave("alert") ELSE UNCHANGED <<pc, why>>
    /\ UNCHANGED <<tr, tx>>
    /\ Takes

\* End of file, a reset, or three seconds of silence, whatever is on its way.
ReadFails ==
    /\ pc \in {"hello", "handshake"} \/ (pc = "open" /\ tx.seq > 0)
    /\ Leave("silence")
    /\ UNCHANGED <<n, tr, tx, rx, srv, down, up, sealed, reused>>

Client == Open \/ Close \/ ReadServerHello \/ ReadHandshake \/ SendFinished
            \/ Request \/ ReadApp \/ ReadFails

-----------------------------------------------------------------------------
(***************************************************************************)
(* The server.                                                             *)
(***************************************************************************)
SrvUnchanged == UNCHANGED <<clientVars, up>>

SrvHello ==
    /\ srv.at = "hello"
    /\ \/ /\ down' = Append(down, Plain("handshake", <<Whole("SH")>>))
          /\ LET t == Append(srv.tr, "SH")
             IN  srv' = [srv EXCEPT !.at = "flight", !.tr = t,
                                    !.tx = Aead(Key("server", "hs", t)),
                                    !.rx = Aead(Key("client", "hs", t))]
       \/ /\ down' = Append(down, Plain("handshake", <<Whole("HRR")>>))
          /\ srv' = [srv EXCEPT !.at = "gone", !.odd = TRUE]
    /\ SrvUnchanged

SrvChangeCipherSpec ==
    /\ srv.at \in {"flight", "up"} /\ ~srv.ccs
    /\ down' = Append(down, Plain("ccs", <<>>))
    /\ srv' = [srv EXCEPT !.ccs = TRUE]
    /\ SrvUnchanged

\* The messages of one record: the rest of a split one, some whole ones, and
\* perhaps the beginning of the next.
Flight(whole, more) ==
    [m \in 1..whole |->
        IF m = 1 /\ srv.cut THEN Msg(srv.left[1], "rest", <<>>)
        ELSE IF srv.left[m] = "FIN"
        THEN Msg("FIN", "whole", srv.tr \o SubSeq(srv.left, 1, m - 1))
        ELSE Whole(srv.left[m])]
      \o (IF more = "no" THEN <<>> ELSE <<Msg(srv.left[whole + 1], more, <<>>)>>)

SrvFlight ==
    /\ srv.at = "flight"
    /\ \E whole \in 0..Len(srv.left), more \in {"no", "short", "part"} :
        /\ whole + (IF more = "no" THEN 0 ELSE 1) \in 1..Len(srv.left)
        /\ srv.cut => whole > 0
        /\ down' = Append(down, Sealed(srv.tx, "handshake", Flight(whole, more)))
        /\ LET t == srv.tr \o SubSeq(srv.left, 1, whole)
               over == whole = Len(srv.left)
           IN  srv' = [srv EXCEPT !.at = IF over THEN "up" ELSE "flight",
                                  !.tr = t,
                                  !.left = SubSeq(@, whole + 1, Len(@)),
                                  !.cut = more # "no",
                                  !.odd = @ \/ more # "no",
                                  !.tx = IF over THEN Aead(Key("server", "app", t))
                                         ELSE Advance(@)]
    /\ SrvUnchanged

\* Data, or a ticket, from the moment its Finished is out.
SrvRecord ==
    /\ srv.at = "up" /\ srv.sent < MaxRecords
    /\ \E type \in {"data", "handshake"} :
        down' = Append(down, Sealed(srv.tx, type, <<>>))
    /\ srv' = [srv EXCEPT !.tx = Advance(@), !.sent = @ + 1]
    /\ SrvUnchanged

SrvKeyUpdate ==
    /\ srv.at = "up" /\ srv.finished /\ srv.sent < MaxRecords
    /\ down' = Append(down, Sealed(srv.tx, "handshake", <<>>))
    /\ srv' = [srv EXCEPT !.tx = Aead(Key("server", "updated", srv.tr)),
                          !.sent = @ + 1, !.odd = TRUE]
    /\ SrvUnchanged

\* An alert, in the clear or under the current key; or it just goes.
SrvStops ==
    /\ srv.at \notin {"gone"}
    /\ \E bye \in {<<>>, <<IF srv.tx.valid THEN Sealed(srv.tx, "alert", <<>>)
                           ELSE Plain("alert", <<>>)>>} :
        down' = down \o bye
    /\ srv' = [srv EXCEPT !.at = "gone"]
    /\ SrvUnchanged

\* The server takes the client's Finished, then requests, and nothing else.
SrvTakes ==
    /\ srv.at = "up" /\ up # <<>>
    /\ LET r == up[1]
           expected == IF srv.finished THEN r.type = "data"
                       ELSE r.msgs = <<Msg("CFIN", "whole", srv.tr)>>
       IN  srv' = IF ~Opens(srv.rx, r) \/ ~expected
                  THEN [srv EXCEPT !.refuses = TRUE, !.at = "gone"]
                  ELSE [srv EXCEPT !.finished = TRUE,
                                   !.rx = IF srv.finished THEN Advance(@)
                                          ELSE Aead(Key("client", "app", srv.tr)),
                                   !.got = IF srv.finished THEN @ + 1 ELSE @]
    /\ up' = Tail(up)
    /\ UNCHANGED <<clientVars, down>>

Server == SrvHello \/ SrvChangeCipherSpec \/ SrvFlight \/ SrvRecord \/ SrvKeyUpdate
            \/ SrvStops \/ SrvTakes

Next == Client \/ Server

Spec == Init /\ [][Next]_vars

-----------------------------------------------------------------------------
Phases == {"none", "hs", "app", "updated"}
AeadOk(a) == /\ a.valid \in BOOLEAN /\ a.seq \in Nat
             /\ a.key.conn \in 0..n /\ a.key.phase \in Phases
             /\ a.valid => a.key.conn = n

\* The keys in use are of the current connection, and a closed one has none.
TypeOK ==
    /\ pc \in {"closed", "hello", "handshake", "finish", "open", "leaving"}
    /\ n \in 0..MaxConns
    /\ pc = "closed" => ~tx.valid /\ ~rx.valid
    /\ AeadOk(tx) /\ AeadOk(rx) /\ AeadOk(srv.tx) /\ AeadOk(srv.rx)
    /\ \A u \in sealed : u[1].conn \in 1..n /\ u[1].phase \in {"hs", "app"} /\ u[2] \in Nat

\* No two records are ever encrypted with one key and one number, not after a
\* write that failed half-way, a new connection or the change of keys
\* (nonce_from_iv_seq: the number is all that tells two nonces apart).
NonceOnce == ~reused

\* An open connection is one whose server has proved to have seen the same
\* handshake, to its last message: no request goes out before that, and keys
\* agree.
Agreement ==
    pc = "open" =>
        /\ tr = srv.tr
        /\ tr = <<"CH", "SH", "EE", "CERT", "FIN">>
        /\ tx.key = Key("client", "app", tr) /\ rx.key = Key("server", "app", tr)

\* The server can read all the client sends: the right key, the right number, the
\* right transcript, and its Finished before its requests.
ServerAccepts == ~srv.refuses

\* The client breaks with a server only when that does what the client does not
\* support: however messages are packed into records, whatever it sends between
\* them and however early its data come.
RejectsOnlyTheOdd == why = "rejected" => srv.odd
=============================================================================
