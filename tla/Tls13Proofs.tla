------------------------------ MODULE Tls13Proofs ------------------------------
(***************************************************************************)
(* Proofs about the TLS 1.3 client, for any number of connections, of      *)
(* requests and of records.                                                *)
(*                                                                         *)
(* No key and number of a record are ever used twice (NonceNeverTwice).    *)
(* The history of what was sealed is sorted by the invariant: everything   *)
(* of earlier connections has an earlier connection in its key (the random *)
(* values of the two hellos); on the current one nothing was sealed before *)
(* the client's Finished, that is the only record under its key, and the   *)
(* records after it are numbered from 0.  After a record that may or may   *)
(* not have been written the number is stale, and the only way on is to    *)
(* leave the connection.                                                   *)
(*                                                                         *)
(* An open connection has the same handshake at both ends (SameHandshake), *)
(* the server can read all the client sends (ServerUnderstands), and the   *)
(* client breaks only with a server that does what it does not support     *)
(* (OnlyTheOddIsRejected).  The invariants of these say what the records   *)
(* on their way are: to the server, the client's Finished and then         *)
(* requests without a gap in their numbers; to the client, a stream that   *)
(* takes it from where it is to where the server is.  The loop over the    *)
(* messages of a record is an iteration of TakeMsg.                        *)
(***************************************************************************)
EXTENDS Tls13, SequenceTheorems, TLAPS

\* What the history holds of the current connection, from one place to the next.
Earlier(u) == u[1].conn \in Nat /\ u[1].conn < n
Handshakes(u) == u[1].conn = n /\ u[1].phase = "hs"
Numbered(u) == u[1] = tx.key /\ u[2] \in Nat /\ u[2] < tx.seq
Known(u) == u[1].conn \in Nat /\ u[1].conn <= n

HistoryOk ==
    /\ n \in Nat
    /\ \A u \in sealed : Known(u)
    /\ pc \in {"hello", "handshake", "finish"} => \A u \in sealed : Earlier(u)

KeysOk ==
    /\ pc \in {"handshake", "finish"} => /\ tx.key.conn = n /\ tx.key.phase = "hs"
    /\ pc = "open" => /\ tx = [valid |-> tx.valid, key |-> tx.key, seq |-> tx.seq]
                      /\ tx.key.conn = n /\ tx.key.phase = "app" /\ tx.seq \in Nat
                      /\ \A u \in sealed : Earlier(u) \/ Handshakes(u) \/ Numbered(u)

IInv == HistoryOk /\ KeysOk /\ NonceOnce

\* A record whose key and number are new leaves the history without a pair used twice.
LEMMA FreshPair ==
    ASSUME IInv, Seals, <<tx.key, tx.seq>> \notin sealed
    PROVE  /\ ~reused'
           /\ \A u \in sealed' : u \in sealed \/ u = <<tx.key, tx.seq>>
BY DEF IInv, NonceOnce, Seals

\* The client's Finished is the first record of its connection.
LEMMA FinishedIsFresh ==
    ASSUME IInv, pc = "finish"
    PROVE  <<tx.key, tx.seq>> \notin sealed
BY DEF IInv, HistoryOk, KeysOk, Earlier

\* A request has a number above those of all requests before it.
LEMMA RequestIsFresh ==
    ASSUME IInv, pc = "open"
    PROVE  <<tx.key, tx.seq>> \notin sealed
<1>1. ASSUME <<tx.key, tx.seq>> \in sealed
      PROVE  FALSE
  <2> DEFINE u == <<tx.key, tx.seq>>
  <2>1. Earlier(u) \/ Handshakes(u) \/ Numbered(u)
    BY <1>1 DEF IInv, KeysOk
  <2>2. tx.key.conn = n /\ tx.key.phase = "app" /\ tx.seq \in Nat /\ n \in Nat
    BY DEF IInv, KeysOk, HistoryOk
  <2> QED BY <2>1, <2>2 DEF Earlier, Handshakes, Numbered
<1> QED BY <1>1

\* Whoever leaves a connection with a history in order keeps it in order.
LEMMA LeavingKeeps ==
    ASSUME IInv, pc' = "leaving", n' = n, NonceOnce', \A u \in sealed' : Known(u)
    PROVE  IInv'
BY DEF IInv, HistoryOk, KeysOk, Known

\* Whatever only reads keeps the invariant, where the client stays or leaves.
LEMMA ReadingKeeps ==
    ASSUME IInv, UNCHANGED <<n, tx, sealed, reused>>,
           \/ pc' = pc
           \/ pc' = "leaving"
           \/ pc = "handshake" /\ pc' = "finish"
    PROVE  IInv'
BY DEF IInv, HistoryOk, KeysOk, NonceOnce, Known, Earlier, Handshakes, Numbered

LEMMA Initially == Init => IInv
BY DEF Init, IInv, HistoryOk, KeysOk, NonceOnce

LEMMA Inductive == IInv /\ [Next]_vars => IInv'
<1> SUFFICES ASSUME IInv, [Next]_vars PROVE IInv'
  OBVIOUS
<1>1. CASE Open
  <2>1. \A u \in sealed : u[1].conn \in Nat /\ u[1].conn <= n
    BY DEF IInv, HistoryOk, Known
  <2>2. n \in Nat /\ n' = n + 1 /\ sealed' = sealed
    BY <1>1 DEF Open, IInv, HistoryOk
  <2>3. \A u \in sealed' : Known(u)' /\ Earlier(u)'
    BY <2>1, <2>2 DEF Known, Earlier
  <2>4. pc' = "hello" /\ reused' = reused
    BY <1>1 DEF Open
  <2> QED BY <2>2, <2>3, <2>4 DEF IInv, HistoryOk, KeysOk, NonceOnce
<1>2. CASE Close
  BY <1>2 DEF Close, CloseSocket, IInv, HistoryOk, KeysOk, NonceOnce, Known
<1>3. CASE ReadServerHello
  <2>1. CASE pc' = "handshake"
    <3>1. pc = "hello" /\ UNCHANGED <<n, sealed, reused>>
      BY <1>3 DEF ReadServerHello, Takes
    <3>2. tx' = Aead(Key("client", "hs", tr'))
      BY <1>3, <2>1, <3>1 DEF ReadServerHello, Leave
    <3>3. tx'.key.conn = n /\ tx'.key.phase = "hs"
      BY <3>2 DEF Aead, Key
    <3> QED BY <2>1, <3>1, <3>3 DEF IInv, HistoryOk, KeysOk, NonceOnce, Known, Earlier
  <2>2. CASE pc' # "handshake"
    <3>1. UNCHANGED <<n, tx, sealed, reused>> /\ (pc' = pc \/ pc' = "leaving")
      BY <1>3, <2>2 DEF ReadServerHello, Takes, Leave
    <3> QED BY <3>1, ReadingKeeps
  <2> QED BY <2>1, <2>2
<1>4. CASE ReadHandshake
  <2>1. UNCHANGED <<n, tx, sealed, reused>> /\ pc = "handshake"
    BY <1>4 DEF ReadHandshake, Takes
  <2>2. pc' = pc \/ pc' = "leaving" \/ pc' = "finish"
    BY <1>4 DEF ReadHandshake, Leave
  <2> QED BY <2>1, <2>2, ReadingKeeps
<1>5. CASE SendFinished
  <2>1. pc = "finish" /\ Seals /\ n' = n
    BY <1>5 DEF SendFinished, SealFails
  <2>2. NonceOnce' /\ \A u \in sealed' : u \in sealed \/ u = <<tx.key, tx.seq>>
    BY <2>1, FinishedIsFresh, FreshPair DEF NonceOnce
  <2>3. n \in Nat /\ tx.key.conn = n /\ tx.key.phase = "hs" /\ \A u \in sealed : Earlier(u)
    BY <2>1 DEF IInv, HistoryOk, KeysOk
  <2>4. \A u \in sealed' : (Earlier(u) \/ Handshakes(u)) /\ Known(u)
    BY <2>2, <2>3 DEF Earlier, Handshakes, Known
  <2>5. CASE pc' = "leaving"
    BY <2>1, <2>2, <2>4, <2>5, LeavingKeeps
  <2>6. CASE pc' = "open" /\ tx' = AppKeys("client")
    <3>1. /\ tx' = [valid |-> tx'.valid, key |-> tx'.key, seq |-> tx'.seq]
          /\ tx'.key.conn = n /\ tx'.key.phase = "app" /\ tx'.seq = 0
      BY <2>6 DEF AppKeys, Aead, Key
    <3> QED BY <2>1, <2>2, <2>3, <2>4, <2>6, <3>1
            DEF IInv, HistoryOk, KeysOk, Earlier, Handshakes, Known
  <2> QED BY <1>5, <2>5, <2>6 DEF SendFinished, SealFails, Leave
<1>6. CASE Request
  <2>1. pc = "open" /\ Seals /\ n' = n
    BY <1>6 DEF Request, SealFails
  <2>2. NonceOnce' /\ \A u \in sealed' : u \in sealed \/ u = <<tx.key, tx.seq>>
    BY <2>1, RequestIsFresh, FreshPair DEF NonceOnce
  <2>3. /\ n \in Nat /\ tx.key.conn = n /\ tx.key.phase = "app" /\ tx.seq \in Nat
        /\ \A u \in sealed : Known(u) /\ (Earlier(u) \/ Handshakes(u) \/ Numbered(u))
    BY <2>1 DEF IInv, HistoryOk, KeysOk
  <2>4. \A u \in sealed' : Known(u)
    BY <2>2, <2>3 DEF Known
  <2>5. CASE pc' = "leaving"
    BY <2>1, <2>2, <2>4, <2>5, LeavingKeeps
  <2>6. CASE pc' = "open" /\ tx' = Advance(tx)
    <3>1. /\ tx'.key = tx.key /\ tx'.seq = tx.seq + 1
          /\ tx' = [valid |-> tx'.valid, key |-> tx'.key, seq |-> tx'.seq]
      BY <2>1, <2>6 DEF Advance, IInv, KeysOk
    <3>2. \A u \in sealed' : (Earlier(u) \/ Handshakes(u) \/ Numbered(u))'
      BY <2>1, <2>2, <2>3, <3>1 DEF Earlier, Handshakes, Numbered
    <3> QED BY <2>1, <2>2, <2>3, <2>4, <2>6, <3>1, <3>2 DEF IInv, HistoryOk, KeysOk, Known
  <2> QED BY <1>6, <2>1, <2>5, <2>6 DEF Request, SealFails, Leave
<1>7. CASE ReadApp
  BY <1>7, ReadingKeeps DEF ReadApp, Takes, Leave
<1>8. CASE ReadFails
  BY <1>8, ReadingKeeps DEF ReadFails, Leave
<1>9. CASE Server
  BY <1>9, ReadingKeeps DEF Server, SrvHello, SrvChangeCipherSpec, SrvFlight, SrvRecord,
        SrvKeyUpdate, SrvStops, SrvTakes, SrvUnchanged, clientVars
<1>10. CASE UNCHANGED vars
  BY <1>10, ReadingKeeps DEF vars, clientVars
<1> QED BY <1>1, <1>2, <1>3, <1>4, <1>5, <1>6, <1>7, <1>8, <1>9, <1>10 DEF Next, Client

\* No two records are ever encrypted with one key and one number: what
\* tls13_seal_record relies on for every connection a process makes.
THEOREM NonceNeverTwice == Spec => []NonceOnce
<1>1. IInv => NonceOnce
  BY DEF IInv
<1> QED BY <1>1, Initially, Inductive, PTL DEF Spec
-----------------------------------------------------------------------------
(***************************************************************************)
(* The messages of a handshake, and what is in the variables.              *)
(***************************************************************************)
T == INSTANCE Iteration WITH op <- TakeMsg

Names == {"CH", "SH", "EE", "CERT", "FIN", "HRR", "CFIN", "garbage"}

\* All messages of a handshake; the first of them, and the others.
Full == <<"CH", "SH", "EE", "CERT", "FIN">>
Before(k) == SubSeq(Full, 1, k)
After(k) == SubSeq(Full, k + 1, 5)

LEMMA FullIs ==
    /\ Full \in Seq(Names) /\ Len(Full) = 5
    /\ Full[1] = "CH" /\ Full[2] = "SH" /\ Full[3] = "EE" /\ Full[4] = "CERT"
    /\ Full[5] = "FIN"
BY DEF Full, Names

LEMMA BeforeIs ==
    ASSUME NEW k \in 0..5
    PROVE  /\ Before(k) \in Seq(Names) /\ Len(Before(k)) = k
           /\ \A m \in 1..k : Before(k)[m] = Full[m]
<1>1. \A m \in 1..k : m \in 1..Len(Full)
  BY FullIs
<1>2. ASSUME NEW m \in 1..k PROVE Full[m] \in Names
  BY <1>1, <1>2, FullIs, ElementOfSeq
<1>3. k \in Int /\ 1 \in Int
  OBVIOUS
<1> QED BY <1>2, <1>3, SubSeqProperties DEF Before

LEMMA AfterIs ==
    ASSUME NEW k \in 0..5
    PROVE  /\ After(k) \in Seq(Names) /\ Len(After(k)) = 5 - k
           /\ \A m \in 1..(5 - k) : After(k)[m] = Full[k + m]
<1>1. ASSUME NEW m \in (k + 1)..5 PROVE Full[m] \in Names
  <2>1. m \in 1..Len(Full)
    BY FullIs
  <2> QED BY <2>1, FullIs, ElementOfSeq
<1>2. k + 1 \in Int /\ 5 \in Int /\ \A m \in (k + 1)..5 : Full[m] \in Names
  BY <1>1
<1>3. /\ After(k) \in Seq(Names)
      /\ Len(After(k)) = IF k + 1 <= 5 THEN 5 - (k + 1) + 1 ELSE 0
      /\ \A m \in 1..(5 - (k + 1) + 1) : After(k)[m] = Full[(k + 1) + m - 1]
  BY <1>2, SubSeqProperties DEF After
<1>4. 5 - (k + 1) + 1 = 5 - k /\ \A m \in Int : (k + 1) + m - 1 = k + m
  OBVIOUS
<1> QED BY <1>3, <1>4

\* How many messages there are tells which they are.
LEMMA BeforeTells ==
    ASSUME NEW j \in 0..5, NEW k \in 0..5, Before(j) = Before(k)
    PROVE  j = k
<1>1. Len(Before(j)) = j /\ Len(Before(k)) = k
  BY BeforeIs
<1> QED BY <1>1

\* What comes before and what comes after.
LEMMA Advances ==
    ASSUME NEW k \in 0..5, NEW w \in 0..(5 - k)
    PROVE  /\ k + w \in 0..5
           /\ Before(k) \o SubSeq(After(k), 1, w) = Before(k + w)
           /\ SubSeq(After(k), w + 1, Len(After(k))) = After(k + w)
<1>0. /\ k \in Int /\ w \in Int /\ k + w \in 0..5
      /\ \A m \in 1..w : m \in 1..(5 - k) /\ k + m \in 1..(k + w)
      /\ \A m \in (w + 1)..(5 - k) : m \in 1..(5 - k)
  OBVIOUS
<1>1. \A m \in 1..(5 - k) : After(k)[m] \in Names
  BY AfterIs, ElementOfSeq
<1>7. /\ Before(k) \in Seq(Names) /\ Len(Before(k)) = k
      /\ \A m \in 1..k : Before(k)[m] = Full[m]
      /\ \A m \in 1..(5 - k) : After(k)[m] = Full[k + m]
  BY BeforeIs, AfterIs
<1> DEFINE s == SubSeq(After(k), 1, w)
           t == SubSeq(After(k), w + 1, 5 - k)
<1>2. /\ s \in Seq(Names) /\ Len(s) = w
      /\ \A m \in 1..w : s[m] = Full[k + m]
  <2>1. /\ s \in Seq(Names) /\ Len(s) = IF 1 <= w THEN w - 1 + 1 ELSE 0
        /\ \A m \in 1..(w - 1 + 1) : s[m] = After(k)[1 + m - 1]
    BY <1>0, <1>1, SubSeqProperties
  <2>2. w - 1 + 1 = w /\ \A m \in 1..w : 1 + m - 1 = m
    BY <1>0
  <2> HIDE DEF s
  <2> QED BY <1>0, <1>7, <2>1, <2>2
<1>3. /\ t \in Seq(Names) /\ Len(t) = 5 - (k + w)
      /\ \A m \in 1..(5 - (k + w)) : t[m] = Full[(k + w) + m]
  <2>1. /\ t \in Seq(Names) /\ Len(t) = IF w + 1 <= 5 - k THEN (5 - k) - (w + 1) + 1 ELSE 0
        /\ \A m \in 1..((5 - k) - (w + 1) + 1) : t[m] = After(k)[(w + 1) + m - 1]
    <3>1. w + 1 \in Int /\ 5 - k \in Int /\ \A m \in (w + 1)..(5 - k) : After(k)[m] \in Names
      BY <1>0, <1>1
    <3> QED BY <3>1, SubSeqProperties
  <2>2. (5 - k) - (w + 1) + 1 = 5 - (k + w)
    BY <1>0
  <2>3. ASSUME NEW m \in 1..(5 - (k + w)) PROVE t[m] = Full[(k + w) + m]
    <3>1. (w + 1) + m - 1 = w + m /\ w + m \in 1..(5 - k) /\ k + (w + m) = (k + w) + m
      BY <1>0
    <3> HIDE DEF t
    <3> QED BY <1>7, <2>1, <2>2, <3>1
  <2> HIDE DEF t
  <2>4. Len(t) = 5 - (k + w)
    BY <1>0, <2>1
  <2> QED BY <2>1, <2>3, <2>4
<1> HIDE DEF s, t
<1>4. Before(k) \o s = Before(k + w)
  <2>1. /\ Before(k) \o s \in Seq(Names) /\ Len(Before(k) \o s) = k + w
        /\ \A i \in 1..(k + w) :
              (Before(k) \o s)[i] = IF i <= k THEN Before(k)[i] ELSE s[i - k]
    BY <1>2, <1>7, ConcatProperties
  <2>2. /\ Before(k + w) \in Seq(Names) /\ Len(Before(k + w)) = k + w
        /\ \A m \in 1..(k + w) : Before(k + w)[m] = Full[m]
    BY <1>0, BeforeIs
  <2>3. ASSUME NEW i \in 1..(k + w) PROVE (Before(k) \o s)[i] = Before(k + w)[i]
    <3>1. CASE i <= k
      <4>1. i \in 1..k
        BY <1>0, <3>1
      <4> QED BY <1>7, <2>1, <2>2, <3>1, <4>1
    <3>2. CASE ~ (i <= k)
      <4>1. i - k \in 1..w /\ k + (i - k) = i
        BY <1>0, <3>2
      <4> QED BY <1>2, <2>1, <2>2, <3>2, <4>1
    <3> QED BY <3>1, <3>2
  <2> QED BY <2>1, <2>2, <2>3, SeqEqual
<1>5. t = After(k + w)
  <2>1. /\ After(k + w) \in Seq(Names) /\ Len(After(k + w)) = 5 - (k + w)
        /\ \A m \in 1..(5 - (k + w)) : After(k + w)[m] = Full[(k + w) + m]
    BY <1>0, AfterIs
  <2> QED BY <1>3, <2>1, SeqEqual
<1>6. Len(After(k)) = 5 - k
  BY AfterIs
<1> QED BY <1>0, <1>4, <1>5, <1>6 DEF s, t

\* One message more.
LEMMA BeforeNext ==
    ASSUME NEW k \in 0..4
    PROVE  Append(Before(k), Full[k + 1]) = Before(k + 1)
<1>1. /\ k \in 0..5 /\ k + 1 \in 0..5 /\ k + 1 \in 1..5 /\ \A i \in 1..k : i \in 1..(k + 1)
  OBVIOUS
<1>2. Full[k + 1] \in Names
  BY <1>1, FullIs, ElementOfSeq
<1> DEFINE s == Append(Before(k), Full[k + 1])
<1>3. /\ Before(k) \in Seq(Names) /\ Len(Before(k)) = k
      /\ \A m \in 1..k : Before(k)[m] = Full[m]
  BY <1>1, BeforeIs
<1>4. /\ Before(k + 1) \in Seq(Names) /\ Len(Before(k + 1)) = k + 1
      /\ \A m \in 1..(k + 1) : Before(k + 1)[m] = Full[m]
  BY <1>1, BeforeIs
<1>5. /\ s \in Seq(Names) /\ Len(s) = k + 1 /\ s[k + 1] = Full[k + 1]
      /\ \A i \in 1..k : s[i] = Full[i]
  BY <1>2, <1>3, AppendProperties
<1> HIDE DEF s
<1>6. ASSUME NEW i \in 1..(k + 1) PROVE s[i] = Before(k + 1)[i]
  <2>1. i \in 1..k \/ i = k + 1
    OBVIOUS
  <2> QED BY <1>4, <1>5, <2>1
<1>7. s = Before(k + 1)
  BY <1>4, <1>5, <1>6, SeqEqual
<1> QED BY <1>7 DEF s

LEMMA BeforeAll == Before(5) = Full
<1>1. Before(5) \in Seq(Names) /\ Len(Before(5)) = 5 /\ \A m \in 1..5 : Before(5)[m] = Full[m]
  <2>1. 5 \in 0..5
    OBVIOUS
  <2> QED BY <2>1, BeforeIs
<1>2. Full \in Seq(Names) /\ Len(Full) = 5
  BY FullIs
<1> QED BY <1>1, <1>2, SeqEqual

\* The first ones, as the modules write them.
LEMMA BeforeFirst == Before(1) = <<"CH">> /\ Append(<<"CH">>, "SH") = Before(2)
<1>1. Before(1) = <<"CH">>
  <2>1. /\ Before(1) \in Seq(Names) /\ Len(Before(1)) = 1
        /\ \A m \in 1..1 : Before(1)[m] = Full[m]
    <3>1. 1 \in 0..5
      OBVIOUS
    <3> QED BY <3>1, BeforeIs
  <2>2. <<"CH">> \in Seq(Names) /\ Len(<<"CH">>) = 1 /\ \A m \in 1..1 : <<"CH">>[m] = Full[m]
    BY FullIs DEF Names
  <2> QED BY <2>1, <2>2, SeqEqual
<1>2. Append(Before(1), Full[1 + 1]) = Before(1 + 1)
  BY BeforeNext
<1>3. 1 + 1 = 2 /\ Full[2] = "SH"
  BY FullIs
<1> QED BY <1>1, <1>2, <1>3

LEMMA AfterFirst == After(2) = <<"EE", "CERT", "FIN">> /\ After(5) = <<>>
<1>1. After(2) = <<"EE", "CERT", "FIN">>
  <2> DEFINE u == <<"EE", "CERT", "FIN">>
  <2>1. /\ After(2) \in Seq(Names) /\ Len(After(2)) = 5 - 2
        /\ \A m \in 1..(5 - 2) : After(2)[m] = Full[2 + m]
    <3>1. 2 \in 0..5
      OBVIOUS
    <3> QED BY <3>1, AfterIs
  <2>2. /\ u \in Seq(Names) /\ Len(u) = 3 /\ u[1] = "EE" /\ u[2] = "CERT" /\ u[3] = "FIN"
    BY DEF Names
  <2> HIDE DEF u
  <2>3. \A m \in 1..3 : u[m] = Full[2 + m]
    <3>1. \A m \in 1..3 : m = 1 \/ m = 2 \/ m = 3
      OBVIOUS
    <3>2. 2 + 1 = 3 /\ 2 + 2 = 4 /\ 2 + 3 = 5
      OBVIOUS
    <3> QED BY <2>2, <3>1, <3>2, FullIs
  <2>4. Len(After(2)) = 3 /\ \A m \in 1..3 : After(2)[m] = Full[2 + m]
    BY <2>1
  <2>5. After(2) = u
    <3> QED BY <2>1, <2>2, <2>3, <2>4, SeqEqual
  <2> QED BY <2>5 DEF u
<1>2. After(5) = <<>>
  <2>1. After(5) \in Seq(Names) /\ Len(After(5)) = 0
    <3>1. 5 \in 0..5 /\ 5 - 5 = 0
      OBVIOUS
    <3> QED BY <3>1, AfterIs
  <2> QED BY <2>1, EmptySeq
<1> QED BY <1>1, <1>2

-----------------------------------------------------------------------------
(***************************************************************************)
(* What the variables hold.                                                *)
(***************************************************************************)
Sides == {"none", "client", "server"}
Keys == [conn : Nat, side : Sides, phase : Phases, from : Seq(Names)]
Aeads == [valid : BOOLEAN, key : Keys, seq : Nat]
Message == [name : Names, part : {"whole", "short", "part", "rest"}, tr : Seq(Names)]
Record == [type : {"ccs", "handshake", "alert", "data"}, key : Keys, seq : Nat,
           msgs : Seq(Message)]
Servers == [at : {"hello", "flight", "up", "gone"}, tr : Seq(Names), tx : Aeads, rx : Aeads,
            left : Seq(Names), cut : BOOLEAN, ccs : BOOLEAN, finished : BOOLEAN,
            sent : Nat, got : Nat, odd : BOOLEAN, refuses : BOOLEAN]

TypeInv ==
    /\ n \in Nat /\ tr \in Seq(Names)
    /\ tx \in Aeads /\ rx \in Aeads
    /\ srv \in Servers
    /\ down \in Seq(Record) /\ up \in Seq(Record)

LEMMA KeyTyped ==
    ASSUME n \in Nat, NEW side \in Sides, NEW phase \in Phases, NEW t \in Seq(Names)
    PROVE  Key(side, phase, t) \in Keys
BY DEF Key, Keys

LEMMA AeadTyped ==
    ASSUME NEW key \in Keys
    PROVE  /\ Aead(key) \in Aeads
           /\ Aead(key).key = key /\ Aead(key).seq = 0 /\ Aead(key).valid
BY DEF Aead, Aeads

LEMMA NoneTyped == NoKey \in Keys /\ NoAead \in Aeads
<1>1. <<>> \in Seq(Names)
  BY EmptySeq
<1>2. NoKey \in Keys
  BY <1>1 DEF NoKey, Keys, Sides, Phases
<1> QED BY <1>2 DEF NoAead, Aeads

LEMMA AdvanceTyped ==
    ASSUME NEW a \in Aeads
    PROVE  /\ Advance(a) \in Aeads /\ Advance(a).key = a.key
           /\ Advance(a).seq = a.seq + 1 /\ Advance(a).valid = a.valid
BY DEF Advance, Aeads

\* The fields of a record, and that it is one.
LEMMA SealedTyped ==
    ASSUME NEW a \in Aeads, NEW msgs \in Seq(Message),
           NEW type \in {"ccs", "handshake", "alert", "data"}
    PROVE  Sealed(a, type, msgs) \in Record /\ Plain(type, msgs) \in Record
<1>1. a.key \in Keys /\ a.seq \in Nat /\ NoKey \in Keys
  BY NoneTyped DEF Aeads
<1> QED BY <1>1 DEF Sealed, Plain, Record

LEMMA MsgTyped ==
    ASSUME NEW name \in Names, NEW part \in {"whole", "short", "part", "rest"},
           NEW t \in Seq(Names)
    PROVE  /\ Msg(name, part, t) \in Message
           /\ Msg(name, part, <<>>) \in Message /\ Whole(name) \in Message
<1>1. <<>> \in Seq(Names)
  BY EmptySeq
<1> QED BY <1>1 DEF Msg, Whole, Message

\* One message in a record of its own.
LEMMA OneTyped ==
    ASSUME NEW m \in Message
    PROVE  <<m>> \in Seq(Message) /\ <<>> \in Seq(Message)
OBVIOUS

LEMMA StartTyped ==
    SrvStart \in Servers /\ [SrvStart EXCEPT !.at = "gone"] \in Servers
<1>1. <<"CH">> \in Seq(Names) /\ <<"EE", "CERT", "FIN">> \in Seq(Names)
  BY DEF Names
<1>2. SrvStart \in Servers
  BY <1>1, NoneTyped DEF SrvStart, Servers
<1> QED BY <1>2 DEF Servers

(***************************************************************************)
(* The messages a record of the server carries.                            *)
(***************************************************************************)
LEMMA FlightIs ==
    ASSUME srv \in Servers, NEW whole \in 0..Len(srv.left),
           NEW more \in {"no", "short", "part"},
           whole + (IF more = "no" THEN 0 ELSE 1) \in 1..Len(srv.left)
    PROVE  /\ Flight(whole, more) \in Seq(Message)
           /\ Len(Flight(whole, more)) = whole + (IF more = "no" THEN 0 ELSE 1)
           /\ \A m \in 1..whole :
                Flight(whole, more)[m] =
                    IF m = 1 /\ srv.cut THEN Msg(srv.left[1], "rest", <<>>)
                    ELSE IF srv.left[m] = "FIN"
                    THEN Msg("FIN", "whole", srv.tr \o SubSeq(srv.left, 1, m - 1))
                    ELSE Whole(srv.left[m])
           /\ more # "no" =>
                Flight(whole, more)[whole + 1] = Msg(srv.left[whole + 1], more, <<>>)
<1> DEFINE e(m) == IF m = 1 /\ srv.cut THEN Msg(srv.left[1], "rest", <<>>)
                   ELSE IF srv.left[m] = "FIN"
                   THEN Msg("FIN", "whole", srv.tr \o SubSeq(srv.left, 1, m - 1))
                   ELSE Whole(srv.left[m])
           s == [m \in 1..whole |-> e(m)]
           t == IF more = "no" THEN <<>> ELSE <<Msg(srv.left[whole + 1], more, <<>>)>>
<1>1. /\ srv.left \in Seq(Names) /\ srv.tr \in Seq(Names) /\ Len(srv.left) \in Nat
      /\ \A m \in 1..Len(srv.left) : srv.left[m] \in Names
  <2>1. srv.left \in Seq(Names) /\ srv.tr \in Seq(Names)
    BY DEF Servers
  <2> QED BY <2>1, LenProperties, ElementOfSeq
<1>2. whole \in Nat /\ \A m \in 1..whole : m \in 1..Len(srv.left)
  BY <1>1
<1>3. ASSUME NEW m \in 1..whole PROVE e(m) \in Message
  <2>1. m \in 1..Len(srv.left) /\ srv.left[m] \in Names /\ "FIN" \in Names
        /\ 1 \in 1..Len(srv.left) /\ srv.left[1] \in Names
    BY <1>1, <1>2 DEF Names
  <2>2. SubSeq(srv.left, 1, m - 1) \in Seq(Names)
    <3>1. \A i \in 1..(m - 1) : i \in 1..Len(srv.left)
      BY <1>1, <2>1
    <3>2. m - 1 \in Int /\ 1 \in Int /\ \A i \in 1..(m - 1) : srv.left[i] \in Names
      BY <1>1, <1>2, <3>1
    <3> QED BY <3>2, SubSeqProperties
  <2>3. srv.tr \o SubSeq(srv.left, 1, m - 1) \in Seq(Names)
    BY <1>1, <2>2, ConcatProperties
  <2>4. Msg("FIN", "whole", srv.tr \o SubSeq(srv.left, 1, m - 1)) \in Message
    BY <2>1, <2>3, MsgTyped
  <2>5. Msg(srv.left[1], "rest", <<>>) \in Message /\ Whole(srv.left[m]) \in Message
    BY <2>1, <2>3, MsgTyped
  <2> QED BY <2>4, <2>5
<1> HIDE DEF e
<1>4. s \in Seq(Message) /\ Len(s) = whole /\ \A m \in 1..whole : s[m] = e(m)
  <2>1. s \in [1..whole -> Message]
    BY <1>3
  <2>2. s \in Seq(Message)
    BY <1>2, <2>1, SeqDef
  <2>3. DOMAIN s = 1..whole /\ DOMAIN s = 1..Len(s) /\ Len(s) \in Nat
    BY <2>2, LenProperties
  <2>4. Len(s) = whole
    <3> HIDE DEF s
    <3> QED BY <1>2, <2>3
  <2> QED BY <2>2, <2>4
<1>5. /\ t \in Seq(Message) /\ Len(t) = IF more = "no" THEN 0 ELSE 1
      /\ more # "no" => t[1] = Msg(srv.left[whole + 1], more, <<>>)
  <2>1. CASE more = "no"
    BY <2>1, EmptySeq
  <2>2. CASE more # "no"
    <3>1. srv.left[whole + 1] \in Names
      BY <1>1, <1>2, <2>2
    <3>2. Msg(srv.left[whole + 1], more, <<>>) \in Message
      BY <1>1, <2>2, <3>1, MsgTyped
    <3> HIDE DEF Msg
    <3> QED BY <2>2, <3>2
  <2> QED BY <2>1, <2>2
<1>6. Flight(whole, more) = s \o t
  BY DEF Flight, e
<1> HIDE DEF s, t
<1>7. /\ s \o t \in Seq(Message) /\ Len(s \o t) = Len(s) + Len(t)
      /\ \A i \in 1..(Len(s) + Len(t)) :
            (s \o t)[i] = IF i <= Len(s) THEN s[i] ELSE t[i - Len(s)]
  BY <1>4, <1>5, ConcatProperties
<1>8. \A m \in 1..whole : (s \o t)[m] = e(m)
  BY <1>2, <1>4, <1>5, <1>7
<1>9. more # "no" => (s \o t)[whole + 1] = Msg(srv.left[whole + 1], more, <<>>)
  BY <1>2, <1>4, <1>5, <1>7
<1>10. Len(s \o t) = whole + (IF more = "no" THEN 0 ELSE 1)
  BY <1>4, <1>5, <1>7
<1> QED BY <1>6, <1>7, <1>8, <1>9, <1>10 DEF e

\* What TakeMsgs has of the messages of a record.
Progress == [tr : Seq(Names), ok : BOOLEAN, fin : BOOLEAN]

\* One message.
LEMMA TakeMsgIs ==
    ASSUME NEW s \in Progress, NEW m \in Message
    PROVE  /\ TakeMsg(s, m) \in Progress
           /\ TakeMsg(s, m).fin =>
                \/ s.fin /\ TakeMsg(s, m) = s
                \/ /\ m.name = "FIN" /\ m.part = "whole" /\ m.tr = s.tr
                   /\ TakeMsg(s, m).tr = Append(s.tr, "FIN")
           /\ s.ok /\ ~s.fin /\ m.part = "whole" /\ (m.name = "FIN" => m.tr = s.tr) =>
                /\ TakeMsg(s, m).ok /\ TakeMsg(s, m).tr = Append(s.tr, m.name)
                /\ TakeMsg(s, m).fin <=> m.name = "FIN"
<1> DEFINE a == IF m.part = "rest" THEN "garbage" ELSE m.name
           f == m.name = "FIN" /\ m.part = "whole"
           r == [s EXCEPT !.ok = FALSE]
           t == [s EXCEPT !.tr = Append(@, a), !.fin = f]
<1>1. m.name \in Names /\ a \in Names /\ s.tr \in Seq(Names)
  BY DEF Message, Names, Progress
<1>2. Append(s.tr, a) \in Seq(Names) /\ f \in BOOLEAN
  BY <1>1, AppendProperties
<1>3. r \in Progress /\ r.fin = s.fin
  BY DEF Progress
<1>4. t \in Progress /\ t.tr = Append(s.tr, a) /\ t.fin = f /\ t.ok = s.ok
  <2> HIDE DEF a, f
  <2> QED BY <1>2 DEF Progress
<1>5. CASE ~s.ok \/ s.fin \/ m.part = "short"
  BY <1>5 DEF TakeMsg
<1>6. CASE /\ ~ (~s.ok \/ s.fin \/ m.part = "short")
           /\ m.part = "part" \/ (m.name = "FIN" /\ m.part = "whole" /\ m.tr # s.tr)
  <2>1. TakeMsg(s, m) = r
    BY <1>6 DEF TakeMsg
  <2> QED BY <1>3, <1>6, <2>1
<1>7. CASE /\ ~ (~s.ok \/ s.fin \/ m.part = "short")
           /\ ~ (m.part = "part" \/ (m.name = "FIN" /\ m.part = "whole" /\ m.tr # s.tr))
  <2>1. TakeMsg(s, m) = t
    BY <1>7 DEF TakeMsg
  <2>2. f => a = "FIN"
    OBVIOUS
  <2>3. m.part = "whole" => a = m.name /\ (f <=> m.name = "FIN")
    OBVIOUS
  <2> HIDE DEF t, a
  <2> QED BY <1>4, <1>7, <2>1, <2>2, <2>3
<1> QED BY <1>5, <1>6, <1>7

\* TakeMsgs is an iteration of TakeMsg.
LEMMA TakeMsgsIs ==
    ASSUME NEW msgs
    PROVE  TakeMsgs(msgs) = T!Fold([tr |-> tr, ok |-> TRUE, fin |-> FALSE], msgs)
BY DEF TakeMsgs, T!Fold, FoldLeft, MapThenFoldSet, Max, T!Largest

LEMMA BaseTyped ==
    ASSUME tr \in Seq(Names)
    PROVE  [tr |-> tr, ok |-> TRUE, fin |-> FALSE] \in Progress
BY DEF Progress

LEMMA TakeMsgsTyped ==
    ASSUME tr \in Seq(Names), NEW msgs \in Seq(Message)
    PROVE  TakeMsgs(msgs) \in Progress
<1>1. \A s \in Progress, m \in Message : TakeMsg(s, m) \in Progress
  BY TakeMsgIs
<1> QED BY <1>1, BaseTyped, TakeMsgsIs, T!FoldKeeps

(***************************************************************************)
(* The types are kept.                                                     *)
(***************************************************************************)

\* One record less, one record more.
LEMMA TailTyped ==
    ASSUME NEW q \in Seq(Record), q # <<>>
    PROVE  /\ Tail(q) \in Seq(Record) /\ Len(Tail(q)) = Len(q) - 1 /\ Len(q) \in Nat \ {0}
           /\ \A i \in 1..(Len(q) - 1) : Tail(q)[i] = q[i + 1]
           /\ q[1] \in Record
<1>1. Len(q) \in Nat \ {0} /\ 1 \in 1..Len(q)
  BY EmptySeq
<1> QED BY <1>1, HeadTailProperties, ElementOfSeq

LEMMA SealFailsTyped == TypeInv /\ SealFails => TypeInv'
BY DEF TypeInv, SealFails

LEMMA TypedClient ==
    ASSUME TypeInv, Client
    PROVE  TypeInv'
<1>0. /\ n \in Nat /\ tr \in Seq(Names) /\ tx \in Aeads /\ rx \in Aeads /\ srv \in Servers
      /\ down \in Seq(Record) /\ up \in Seq(Record)
  BY DEF TypeInv
<1>e. <<>> \in Seq(Record) /\ <<>> \in Seq(Names) /\ <<"CH">> \in Seq(Names)
  BY EmptySeq DEF Names
<1>s. {"server", "client"} \subseteq Sides /\ {"hs", "app"} \subseteq Phases
  BY DEF Sides, Phases
<1>1. CASE Open
  BY <1>0, <1>1, <1>e, StartTyped, NoneTyped DEF Open, TypeInv
<1>2. CASE Close
  BY <1>0, <1>2, <1>e, StartTyped, NoneTyped DEF Close, CloseSocket, TypeInv
<1>3. CASE ReadServerHello
  <2>1. UNCHANGED <<n, srv, up>> /\ down # <<>> /\ down' = Tail(down)
    BY <1>3 DEF ReadServerHello, Takes
  <2>2. down' \in Seq(Record)
    BY <1>0, <2>1, TailTyped
  <2>3. CASE UNCHANGED <<tr, tx, rx>>
    BY <1>0, <2>1, <2>2, <2>3 DEF TypeInv
  <2>4. CASE /\ tr' = Append(tr, "SH")
             /\ tx' = Aead(Key("client", "hs", tr'))
             /\ rx' = Aead(Key("server", "hs", tr'))
    <3>1. "SH" \in Names
      BY DEF Names
    <3>2. tr' \in Seq(Names)
      BY <1>0, <2>4, <3>1, AppendProperties
    <3>3. Key("client", "hs", tr') \in Keys /\ Key("server", "hs", tr') \in Keys
      BY <1>0, <1>s, <3>2, KeyTyped
    <3>4. tx' \in Aeads /\ rx' \in Aeads
      BY <2>4, <3>3, AeadTyped
    <3> QED BY <1>0, <2>1, <2>2, <3>2, <3>4 DEF TypeInv
  <2> QED BY <1>3, <2>3, <2>4 DEF ReadServerHello
<1>4. CASE ReadHandshake
  <2>1. UNCHANGED <<n, srv, up, tx>> /\ down # <<>> /\ down' = Tail(down)
    BY <1>4 DEF ReadHandshake, Takes
  <2>2. down' \in Seq(Record) /\ down[1] \in Record
    BY <1>0, <2>1, TailTyped
  <2>3. TakeMsgs(down[1].msgs) \in Progress
    <3>1. down[1].msgs \in Seq(Message)
      BY <2>2 DEF Record
    <3> QED BY <1>0, <3>1, TakeMsgsTyped
  <2>4. TakeMsgs(down[1].msgs).tr \in Seq(Names)
    BY <2>3 DEF Progress
  <2>5. rx' = rx \/ rx' = Advance(rx)
    BY <1>4 DEF ReadHandshake
  <2>6. rx' \in Aeads
    BY <1>0, <2>5, AdvanceTyped
  <2>7. tr' = tr \/ tr' = TakeMsgs(down[1].msgs).tr
    BY <1>4 DEF ReadHandshake
  <2>8. tr' \in Seq(Names)
    BY <1>0, <2>4, <2>7
  <2> QED BY <1>0, <2>1, <2>2, <2>6, <2>8 DEF TypeInv
<1>5. CASE SendFinished
  <2>1. CASE SealFails
    BY <2>1, SealFailsTyped
  <2>2. CASE /\ up' = Append(up, Sealed(tx, "handshake", <<Msg("CFIN", "whole", tr)>>))
             /\ tx' = AppKeys("client")
             /\ rx' = AppKeys("server")
             /\ UNCHANGED <<n, tr, srv, down>>
    <3>1. "CFIN" \in Names
      BY DEF Names
    <3>2. <<Msg("CFIN", "whole", tr)>> \in Seq(Message)
      BY <1>0, <3>1, MsgTyped, OneTyped
    <3>3. Sealed(tx, "handshake", <<Msg("CFIN", "whole", tr)>>) \in Record
      BY <1>0, <3>2, SealedTyped
    <3>4. up' \in Seq(Record)
      BY <1>0, <2>2, <3>3, AppendProperties
    <3>5. Key("client", "app", tr) \in Keys /\ Key("server", "app", tr) \in Keys
      BY <1>0, <1>s, KeyTyped
    <3>6. tx' \in Aeads /\ rx' \in Aeads
      BY <2>2, <3>5, AeadTyped DEF AppKeys
    <3> QED BY <1>0, <2>2, <3>4, <3>6 DEF TypeInv
  <2> QED BY <1>5, <2>1, <2>2 DEF SendFinished
<1>6. CASE Request
  <2>1. CASE SealFails
    BY <2>1, SealFailsTyped
  <2>2. CASE /\ up' = Append(up, Sealed(tx, "data", <<>>))
             /\ tx' = Advance(tx)
             /\ UNCHANGED <<n, tr, rx, srv, down>>
    <3>1. Sealed(tx, "data", <<>>) \in Record
      <4>1. <<>> \in Seq(Message)
        BY EmptySeq
      <4> QED BY <1>0, <4>1, SealedTyped
    <3>2. up' \in Seq(Record)
      BY <1>0, <2>2, <3>1, AppendProperties
    <3>3. tx' \in Aeads
      BY <1>0, <2>2, AdvanceTyped
    <3> QED BY <1>0, <2>2, <3>2, <3>3 DEF TypeInv
  <2> QED BY <1>6, <2>1, <2>2 DEF Request
<1>7. CASE ReadApp
  <2>1. UNCHANGED <<n, srv, up, tx, tr>> /\ down # <<>> /\ down' = Tail(down)
    BY <1>7 DEF ReadApp, Takes
  <2>2. down' \in Seq(Record)
    BY <1>0, <2>1, TailTyped
  <2>3. rx' = rx \/ rx' = Advance(rx)
    BY <1>7 DEF ReadApp
  <2>4. rx' \in Aeads
    BY <1>0, <2>3, AdvanceTyped
  <2> QED BY <1>0, <2>1, <2>2, <2>4 DEF TypeInv
<1>8. CASE ReadFails
  BY <1>0, <1>8 DEF ReadFails, TypeInv
<1> QED BY <1>1, <1>2, <1>3, <1>4, <1>5, <1>6, <1>7, <1>8 DEF Client

\* What a record of the server's flight adds to the handshake.
LEMMA FlightTyped ==
    ASSUME srv \in Servers, NEW w \in 0..Len(srv.left)
    PROVE  /\ srv.tr \o SubSeq(srv.left, 1, w) \in Seq(Names)
           /\ SubSeq(srv.left, w + 1, Len(srv.left)) \in Seq(Names)
<1>1. srv.left \in Seq(Names) /\ srv.tr \in Seq(Names)
  BY DEF Servers
<1>2. Len(srv.left) \in Nat /\ \A i \in 1..Len(srv.left) : srv.left[i] \in Names
  BY <1>1, LenProperties, ElementOfSeq
<1>3. SubSeq(srv.left, 1, w) \in Seq(Names)
  <2>1. 1 \in Int /\ w \in Int /\ \A i \in 1..w : srv.left[i] \in Names
    BY <1>2
  <2> QED BY <2>1, SubSeqProperties
<1>4. SubSeq(srv.left, w + 1, Len(srv.left)) \in Seq(Names)
  <2>1. /\ w + 1 \in Int /\ Len(srv.left) \in Int
        /\ \A i \in (w + 1)..Len(srv.left) : srv.left[i] \in Names
    BY <1>2
  <2> QED BY <2>1, SubSeqProperties
<1> QED BY <1>1, <1>3, <1>4, ConcatProperties

LEMMA TypedServer ==
    ASSUME TypeInv, Server
    PROVE  TypeInv'
<1>0. /\ n \in Nat /\ tr \in Seq(Names) /\ tx \in Aeads /\ rx \in Aeads /\ srv \in Servers
      /\ down \in Seq(Record) /\ up \in Seq(Record)
  BY DEF TypeInv
<1>e. <<>> \in Seq(Message)
  BY EmptySeq
<1>s. {"server", "client"} \subseteq Sides /\ {"hs", "app", "updated"} \subseteq Phases
  BY DEF Sides, Phases
<1>f. /\ srv.tr \in Seq(Names) /\ srv.tx \in Aeads /\ srv.rx \in Aeads
      /\ srv.finished \in BOOLEAN /\ srv.odd \in BOOLEAN /\ srv.sent \in Nat /\ srv.got \in Nat
  BY <1>0 DEF Servers
<1>k. ASSUME NEW side \in {"server", "client"}, NEW phase \in {"hs", "app", "updated"},
             NEW t \in Seq(Names)
      PROVE  Aead(Key(side, phase, t)) \in Aeads
  <2>1. Key(side, phase, t) \in Keys
    BY <1>0, <1>s, KeyTyped
  <2> QED BY <2>1, AeadTyped
<1>m. ASSUME NEW r \in Record, NEW s \in Servers, down' = Append(down, r), srv' = s, SrvUnchanged
      PROVE  TypeInv'
  <2>1. down' \in Seq(Record)
    BY <1>0, <1>m, AppendProperties
  <2> QED BY <1>0, <1>m, <2>1 DEF TypeInv, SrvUnchanged, clientVars
<1>1. CASE SrvHello
  <2>0. SrvUnchanged /\ "SH" \in Names /\ "HRR" \in Names
    BY <1>1 DEF SrvHello, Names
  <2>1. CASE /\ down' = Append(down, Plain("handshake", <<Whole("SH")>>))
             /\ srv' = [srv EXCEPT !.at = "flight", !.tr = Append(srv.tr, "SH"),
                                   !.tx = Aead(Key("server", "hs", Append(srv.tr, "SH"))),
                                   !.rx = Aead(Key("client", "hs", Append(srv.tr, "SH")))]
    <3>1. <<Whole("SH")>> \in Seq(Message)
      BY <1>f, <2>0, MsgTyped, OneTyped
    <3>2. Plain("handshake", <<Whole("SH")>>) \in Record
      BY <1>0, <3>1, SealedTyped
    <3>3. Append(srv.tr, "SH") \in Seq(Names)
      BY <1>f, <2>0, AppendProperties
    <3>4. /\ Aead(Key("server", "hs", Append(srv.tr, "SH"))) \in Aeads
          /\ Aead(Key("client", "hs", Append(srv.tr, "SH"))) \in Aeads
      BY <1>k, <3>3
    <3>5. srv' \in Servers
      BY <1>0, <2>1, <3>3, <3>4 DEF Servers
    <3> QED BY <1>m, <2>0, <2>1, <3>2, <3>5
  <2>2. CASE /\ down' = Append(down, Plain("handshake", <<Whole("HRR")>>))
             /\ srv' = [srv EXCEPT !.at = "gone", !.odd = TRUE]
    <3>1. <<Whole("HRR")>> \in Seq(Message)
      BY <1>f, <2>0, MsgTyped, OneTyped
    <3>2. Plain("handshake", <<Whole("HRR")>>) \in Record
      BY <1>0, <3>1, SealedTyped
    <3>3. srv' \in Servers
      BY <1>0, <2>2 DEF Servers
    <3> QED BY <1>m, <2>0, <2>2, <3>2, <3>3
  <2> QED BY <1>1, <2>1, <2>2 DEF SrvHello
<1>2. CASE SrvChangeCipherSpec
  <2>1. Plain("ccs", <<>>) \in Record
    BY <1>0, <1>e, SealedTyped
  <2>2. srv' \in Servers
    BY <1>0, <1>2 DEF SrvChangeCipherSpec, Servers
  <2> QED BY <1>2, <1>m, <2>1, <2>2 DEF SrvChangeCipherSpec
<1>3. CASE SrvFlight
  <2>1. PICK whole \in 0..Len(srv.left), more \in {"no", "short", "part"} :
        /\ whole + (IF more = "no" THEN 0 ELSE 1) \in 1..Len(srv.left)
        /\ srv.cut => whole > 0
        /\ down' = Append(down, Sealed(srv.tx, "handshake", Flight(whole, more)))
        /\ LET t == srv.tr \o SubSeq(srv.left, 1, whole)
               over == whole = Len(srv.left)
           IN  srv' = [srv EXCEPT !.at = IF over THEN "up" ELSE "flight",
                                  !.tr = t,
                                  !.left = SubSeq(@, whole + 1, Len(@)),
                                  !.cut = more # "no",
                                  !.odd = @ \/ more # "no",
                                  !.tx = IF over THEN Aead(Key("server", "app", t))
                                         ELSE Advance(@)]
    BY <1>3 DEF SrvFlight
  <2> DEFINE t == srv.tr \o SubSeq(srv.left, 1, whole)
             l == SubSeq(srv.left, whole + 1, Len(srv.left))
             x == IF whole = Len(srv.left) THEN Aead(Key("server", "app", t))
                  ELSE Advance(srv.tx)
             c == more # "no"
             o == srv.odd \/ more # "no"
             at == IF whole = Len(srv.left) THEN "up" ELSE "flight"
  <2>2. Sealed(srv.tx, "handshake", Flight(whole, more)) \in Record
    <3>1. Flight(whole, more) \in Seq(Message)
      BY <1>0, <2>1, FlightIs
    <3> QED BY <1>f, <3>1, SealedTyped
  <2>3. t \in Seq(Names) /\ l \in Seq(Names)
    BY <1>0, <2>1, FlightTyped
  <2>4. x \in Aeads
    BY <1>f, <1>k, <2>3, AdvanceTyped
  <2>5. srv' = [srv EXCEPT !.at = at, !.tr = t, !.left = l, !.cut = c, !.odd = o, !.tx = x]
    BY <2>1
  <2>6. c \in BOOLEAN /\ o \in BOOLEAN /\ at \in {"up", "flight"}
    BY <1>f
  <2> HIDE DEF t, l, x, c, o, at
  <2>7. srv' \in Servers
    BY <1>0, <2>3, <2>4, <2>5, <2>6 DEF Servers
  <2> QED BY <1>3, <1>m, <2>1, <2>2, <2>7 DEF SrvFlight
<1>4. CASE SrvRecord
  <2>1. PICK type \in {"data", "handshake"} : down' = Append(down, Sealed(srv.tx, type, <<>>))
    BY <1>4 DEF SrvRecord
  <2>2. Sealed(srv.tx, type, <<>>) \in Record
    BY <1>e, <1>f, SealedTyped
  <2>3. Advance(srv.tx) \in Aeads /\ srv.sent + 1 \in Nat
    BY <1>f, AdvanceTyped
  <2>4. srv' = [srv EXCEPT !.tx = Advance(srv.tx), !.sent = srv.sent + 1] /\ SrvUnchanged
    BY <1>4 DEF SrvRecord
  <2>5. srv' \in Servers
    BY <1>0, <2>3, <2>4 DEF Servers
  <2> QED BY <1>m, <2>1, <2>2, <2>4, <2>5
<1>5. CASE SrvKeyUpdate
  <2>1. Sealed(srv.tx, "handshake", <<>>) \in Record
    BY <1>e, <1>f, SealedTyped
  <2>2. Aead(Key("server", "updated", srv.tr)) \in Aeads /\ srv.sent + 1 \in Nat
    BY <1>f, <1>k
  <2>3. /\ srv' = [srv EXCEPT !.tx = Aead(Key("server", "updated", srv.tr)),
                              !.sent = srv.sent + 1, !.odd = TRUE]
        /\ down' = Append(down, Sealed(srv.tx, "handshake", <<>>))
        /\ SrvUnchanged
    BY <1>5 DEF SrvKeyUpdate
  <2>4. srv' \in Servers
    BY <1>0, <2>2, <2>3 DEF Servers
  <2> QED BY <1>m, <2>1, <2>3, <2>4
<1>6. CASE SrvStops
  <2> DEFINE r == IF srv.tx.valid THEN Sealed(srv.tx, "alert", <<>>) ELSE Plain("alert", <<>>)
  <2>1. r \in Record
    BY <1>e, <1>f, SealedTyped
  <2>2. SrvUnchanged /\ srv' = [srv EXCEPT !.at = "gone"]
    BY <1>6 DEF SrvStops
  <2>3. srv' \in Servers
    BY <1>0, <2>2 DEF Servers
  <2>4. down' = down \o <<>> \/ down' = down \o <<r>>
    BY <1>6 DEF SrvStops
  <2> HIDE DEF r
  <2>5. down' = down \/ down' = Append(down, r)
    BY <1>0, <2>1, <2>4, ConcatEmptySeq, AppendIsConcat
  <2>6. CASE down' = down
    BY <1>0, <2>2, <2>3, <2>6 DEF TypeInv, SrvUnchanged, clientVars
  <2>7. CASE down' = Append(down, r)
    BY <1>m, <2>1, <2>2, <2>3, <2>7
  <2> QED BY <2>5, <2>6, <2>7
<1>7. CASE SrvTakes
  <2>1. up # <<>> /\ up' = Tail(up) /\ UNCHANGED <<clientVars, down>>
    BY <1>7 DEF SrvTakes
  <2>2. up' \in Seq(Record)
    BY <1>0, <2>1, TailTyped
  <2>3. CASE srv' = [srv EXCEPT !.refuses = TRUE, !.at = "gone"]
    <3>1. srv' \in Servers
      BY <1>0, <2>3 DEF Servers
    <3> QED BY <1>0, <2>1, <2>2, <3>1 DEF TypeInv, clientVars
  <2>4. CASE srv' = [srv EXCEPT !.finished = TRUE,
                                !.rx = IF srv.finished THEN Advance(srv.rx)
                                       ELSE Aead(Key("client", "app", srv.tr)),
                                !.got = IF srv.finished THEN srv.got + 1 ELSE srv.got]
    <3> DEFINE x == IF srv.finished THEN Advance(srv.rx) ELSE Aead(Key("client", "app", srv.tr))
               g == IF srv.finished THEN srv.got + 1 ELSE srv.got
    <3>1. x \in Aeads /\ g \in Nat
      BY <1>f, <1>k, AdvanceTyped
    <3>2. srv' = [srv EXCEPT !.finished = TRUE, !.rx = x, !.got = g]
      BY <2>4
    <3> HIDE DEF x, g
    <3>3. srv' \in Servers
      BY <1>0, <3>1, <3>2 DEF Servers
    <3> QED BY <1>0, <2>1, <2>2, <3>3 DEF TypeInv, clientVars
  <2> QED BY <1>7, <2>3, <2>4 DEF SrvTakes
<1> QED BY <1>1, <1>2, <1>3, <1>4, <1>5, <1>6, <1>7 DEF Server

LEMMA TypedAlways == Spec => []TypeInv
<1>1. Init => TypeInv
  BY EmptySeq, StartTyped, NoneTyped DEF Init, TypeInv
<1>2. TypeInv /\ [Next]_vars => TypeInv'
  <2> SUFFICES ASSUME TypeInv, [Next]_vars PROVE TypeInv'
    OBVIOUS
  <2>1. CASE UNCHANGED vars
    BY <2>1 DEF TypeInv, vars, clientVars
  <2> QED BY <2>1, TypedClient, TypedServer DEF Next
<1> QED BY <1>1, <1>2, PTL DEF Spec

-----------------------------------------------------------------------------
(***************************************************************************)
(* Agreement, and what the server takes: the two ends know how far the     *)
(* other one is by what is on its way between them.                        *)
(***************************************************************************)

\* How far the server is in its part of the handshake.
ServerSent(k) == srv.tr = Before(k) /\ srv.left = After(IF k = 1 THEN 2 ELSE k)

HsKey(side) == Key(side, "hs", Before(2))
AppKey(side) == Key(side, "app", Full)

ServerOk ==
    /\ srv.at = "hello" => ServerSent(1)
    /\ srv.at = "flight" => \E k \in 2..4 : ServerSent(k)
    /\ srv.at = "up" => ServerSent(5)
    /\ srv.at \in {"hello", "flight"} => ~srv.finished
    /\ srv.at \in {"flight", "up"} /\ ~srv.finished => srv.rx = Aead(HsKey("client"))
    /\ srv.finished => srv.rx = [valid |-> TRUE, key |-> AppKey("client"), seq |-> srv.rx.seq]

\* A Finished on its way covers all before it, and is the server's last message.
IsFinished(m) == m.name = "FIN" /\ m.part = "whole"
Closing(full) == {r \in Record : \A j \in 1..Len(r.msgs) :
                    IsFinished(r.msgs[j]) => r.msgs[j].tr = Before(4) /\ full}
FinishedOk == down \in Seq(Closing(srv.tr = Full))

\* The client has the server's transcript when it has the server's Finished.
ClientOk ==
    /\ pc = "hello" => tr = Before(1)
    /\ pc \in {"handshake", "finish"} => tx = Aead(HsKey("client"))
    /\ pc = "finish" => tr = Full /\ srv.tr = Full
    /\ Agreement

\* The records on their way to the server: the client's Finished, then requests,
\* without a gap in their numbers.
RequestNo(k) == [type |-> "data", key |-> AppKey("client"), seq |-> k, msgs |-> <<>>]
ClientFinished == [type |-> "handshake", key |-> HsKey("client"), seq |-> 0,
                   msgs |-> <<Msg("CFIN", "whole", Full)>>]

UpOk ==
    /\ \A i \in 1..Len(up) :
         up[i] = IF srv.finished THEN RequestNo(srv.rx.seq + i - 1)
                 ELSE IF i = 1 THEN ClientFinished ELSE RequestNo(i - 2)
    /\ pc \in {"closed", "hello", "handshake", "finish"} => up = <<>> /\ ~srv.finished
    /\ pc = "open" =>
        /\ tx = [valid |-> TRUE, key |-> AppKey("client"),
                 seq |-> IF srv.finished THEN srv.rx.seq + Len(up) ELSE Len(up) - 1]
        /\ ~srv.finished => up # <<>>

AgreeInv == ServerOk /\ FinishedOk /\ ClientOk /\ UpOk /\ ServerAccepts

\* More records are in order when the server has sent all of its handshake.
LEMMA ClosingGrows == ASSUME NEW b, NEW c, b => c PROVE Closing(b) \subseteq Closing(c)
BY DEF Closing

\* What the server sends after that has no Finished in it.
LEMMA NoMessagesClose ==
    ASSUME NEW b, NEW r \in Record, r.msgs = <<>>
    PROVE  r \in Closing(b)
BY DEF Closing

\* Records on their way stay in order, with one more of them.
LEMMA FinishedKept ==
    ASSUME FinishedOk, (srv.tr = Full) => (srv.tr = Full)',
           down' = down \/ \E r \in Closing((srv.tr = Full)') : down' = Append(down, r)
    PROVE  FinishedOk'
<1>1. Closing(srv.tr = Full) \subseteq Closing((srv.tr = Full)')
  BY ClosingGrows
<1>2. down \in Seq(Closing((srv.tr = Full)'))
  BY <1>1, SeqMonotonic DEF FinishedOk
<1>3. down' \in Seq(Closing((srv.tr = Full)'))
  BY <1>2, AppendProperties
<1> QED BY <1>3 DEF FinishedOk, Closing

\* A Finished the client takes tells it that the transcripts are the same.
LEMMA FinishedTells ==
    ASSUME TypeInv, FinishedOk, down # <<>>, TakeMsgs(down[1].msgs).fin
    PROVE  TakeMsgs(down[1].msgs).tr = Full /\ srv.tr = Full
<1> DEFINE E == {m \in Message : IsFinished(m) => m.tr = Before(4) /\ srv.tr = Full}
           G == {s \in Progress : s.fin => s.tr = Full /\ srv.tr = Full}
           msgs == down[1].msgs
<1>1. tr \in Seq(Names) /\ down \in Seq(Closing(srv.tr = Full))
  BY DEF TypeInv, FinishedOk
<1>2. Len(down) \in Nat \ {0} /\ 1 \in 1..Len(down)
  BY <1>1, EmptySeq
<1>3. down[1] \in Closing(srv.tr = Full)
  BY <1>1, <1>2, ElementOfSeq
<1>4. /\ down[1] \in Record
      /\ \A j \in 1..Len(msgs) : IsFinished(msgs[j]) => msgs[j].tr = Before(4) /\ srv.tr = Full
  BY <1>3 DEF Closing
<1>5. msgs \in Seq(Message)
  BY <1>4 DEF Record
<1>6. msgs \in Seq(E)
  <2>1. Len(msgs) \in Nat /\ msgs \in [1..Len(msgs) -> Message]
    BY <1>5, LenProperties
  <2>2. \A j \in 1..Len(msgs) : msgs[j] \in E
    BY <1>4, <1>5, ElementOfSeq
  <2> HIDE DEF E, msgs
  <2>3. msgs \in [1..Len(msgs) -> E]
    BY <2>1, <2>2
  <2> QED BY <2>1, <2>3, SeqDef
<1>7. [tr |-> tr, ok |-> TRUE, fin |-> FALSE] \in G
  BY <1>1, BaseTyped
<1>8. ASSUME NEW s \in G, NEW m \in E PROVE TakeMsg(s, m) \in G
  <2>1. s \in Progress /\ m \in Message
    OBVIOUS
  <2>2. TakeMsg(s, m) \in Progress
    BY <2>1, TakeMsgIs
  <2>3. ASSUME TakeMsg(s, m).fin PROVE TakeMsg(s, m).tr = Full /\ srv.tr = Full
    <3>1. CASE s.fin /\ TakeMsg(s, m) = s
      BY <3>1
    <3>2. CASE /\ m.name = "FIN" /\ m.part = "whole" /\ m.tr = s.tr
               /\ TakeMsg(s, m).tr = Append(s.tr, "FIN")
      <4>1. s.tr = Before(4) /\ srv.tr = Full
        BY <3>2 DEF IsFinished
      <4>2. Append(Before(4), Full[4 + 1]) = Before(4 + 1) /\ Full[5] = "FIN"
        <5>1. 4 \in 0..4
          OBVIOUS
        <5> QED BY <5>1, BeforeNext, FullIs
      <4>3. 4 + 1 = 5
        OBVIOUS
      <4> QED BY <3>2, <4>1, <4>2, <4>3, BeforeAll
    <3> QED BY <2>1, <2>3, <3>1, <3>2, TakeMsgIs
  <2> QED BY <2>2, <2>3
<1>9. T!Fold([tr |-> tr, ok |-> TRUE, fin |-> FALSE], msgs) \in G
  <2> HIDE DEF G, E, msgs
  <2> QED BY <1>6, <1>7, <1>8, T!FoldKeeps
<1>10. TakeMsgs(msgs) \in G
  <2> HIDE DEF G, msgs
  <2> QED BY <1>9, TakeMsgsIs
<1> QED BY <1>10

(***************************************************************************)
(* What the steps leave as it is.                                          *)
(***************************************************************************)
LEMMA ServerStands ==
    ASSUME ServerOk, ServerAccepts, UNCHANGED <<n, srv>>
    PROVE  ServerOk' /\ ServerAccepts'
BY DEF ServerOk, ServerAccepts, ServerSent, HsKey, AppKey, Key

LEMMA FinishedRead ==
    ASSUME FinishedOk, UNCHANGED srv, down' = down \/ (down # <<>> /\ down' = Tail(down))
    PROVE  FinishedOk'
<1>1. down' \in Seq(Closing(srv.tr = Full))
  BY HeadTailProperties DEF FinishedOk
<1>2. (srv.tr = Full)' = (srv.tr = Full)
  OBVIOUS
<1> QED BY <1>1, <1>2 DEF FinishedOk, Closing

LEMMA UpStands ==
    ASSUME UpOk, UNCHANGED <<n, srv, up>>, pc' = "open" => pc = "open" /\ tx' = tx,
           pc' \in {"closed", "hello", "handshake", "finish"} =>
              pc \in {"closed", "hello", "handshake", "finish"}
    PROVE  UpOk'
BY DEF UpOk, RequestNo, ClientFinished, HsKey, AppKey, Key

\* The client goes, after a record that may not have been written or for any reason.
LEMMA LeavingAgrees ==
    ASSUME AgreeInv, pc' = "leaving", UNCHANGED <<n, srv, up>>,
           down' = down \/ (down # <<>> /\ down' = Tail(down))
    PROVE  AgreeInv'
<1>1. ServerOk' /\ ServerAccepts' /\ FinishedOk' /\ UpOk'
  BY ServerStands, FinishedRead, UpStands DEF AgreeInv
<1> QED BY <1>1 DEF AgreeInv, ClientOk, Agreement

\* A new connection, or none.
LEMMA ConnectionAgrees ==
    ASSUME \/ pc' = "hello" /\ tr' = <<"CH">> /\ srv' = SrvStart
           \/ pc' = "closed" /\ srv' = [SrvStart EXCEPT !.at = "gone"],
           down' = <<>>, up' = <<>>
    PROVE  AgreeInv'
<1>1. FinishedOk'
  BY EmptySeq DEF FinishedOk
<1>2. ClientOk'
  BY BeforeFirst DEF ClientOk, Agreement
<1>3. UpOk'
  BY EmptySeq DEF UpOk, SrvStart
<1>4. ServerAccepts'
  BY DEF ServerAccepts, SrvStart
<1>5. ServerOk'
  BY BeforeFirst, AfterFirst DEF ServerOk, ServerSent, SrvStart
<1> QED BY <1>1, <1>2, <1>3, <1>4, <1>5 DEF AgreeInv

LEMMA AgreedClient ==
    ASSUME TypeInv, AgreeInv, Client
    PROVE  AgreeInv'
<1>0. /\ n \in Nat /\ tr \in Seq(Names) /\ tx \in Aeads /\ rx \in Aeads /\ srv \in Servers
      /\ down \in Seq(Record) /\ up \in Seq(Record)
  BY DEF TypeInv
<1>a. ServerOk /\ FinishedOk /\ ClientOk /\ UpOk /\ ServerAccepts
  BY DEF AgreeInv
<1>1. CASE Open
  BY <1>1, ConnectionAgrees DEF Open
<1>2. CASE Close
  BY <1>2, ConnectionAgrees DEF Close, CloseSocket
<1>3. CASE ReadServerHello
  <2>1. UNCHANGED <<n, srv, up>> /\ down # <<>> /\ down' = Tail(down) /\ pc = "hello"
    BY <1>3 DEF ReadServerHello, Takes
  <2>2. CASE UNCHANGED <<pc, tr, tx, rx>>
    <3>1. ServerOk' /\ ServerAccepts' /\ FinishedOk' /\ UpOk'
      BY <1>a, <2>1, <2>2, ServerStands, FinishedRead, UpStands
    <3>2. ClientOk'
      BY <1>a, <2>1, <2>2 DEF ClientOk, Agreement
    <3> QED BY <3>1, <3>2 DEF AgreeInv
  <2>3. CASE pc' = "leaving"
    BY <2>1, <2>3, LeavingAgrees
  <2>4. CASE /\ pc' = "handshake" /\ tr' = Append(tr, "SH")
             /\ tx' = Aead(Key("client", "hs", tr'))
    <3>1. ServerOk' /\ ServerAccepts' /\ FinishedOk' /\ UpOk'
      BY <1>a, <2>1, <2>4, ServerStands, FinishedRead, UpStands
    <3>2. tr' = Before(2)
      BY <1>a, <2>1, <2>4, BeforeFirst DEF ClientOk
    <3>3. tx' = Aead(HsKey("client"))'
      BY <2>1, <2>4, <3>2 DEF HsKey, Key, Aead
    <3> QED BY <2>4, <3>1, <3>3 DEF AgreeInv, ClientOk, Agreement
  <2> QED BY <1>3, <2>2, <2>3, <2>4 DEF ReadServerHello, Leave
<1>4. CASE ReadHandshake
  <2>1. UNCHANGED <<n, srv, up, tx>> /\ down # <<>> /\ down' = Tail(down) /\ pc = "handshake"
    BY <1>4 DEF ReadHandshake, Takes
  <2>2. CASE pc' = "leaving"
    BY <2>1, <2>2, LeavingAgrees
  <2>3. CASE \/ pc' = pc
             \/ /\ pc' = IF TakeMsgs(down[1].msgs).fin THEN "finish" ELSE "handshake"
                /\ tr' = TakeMsgs(down[1].msgs).tr
    <3>1. ServerOk' /\ ServerAccepts' /\ FinishedOk' /\ UpOk'
      BY <1>a, <2>1, <2>3, ServerStands, FinishedRead, UpStands
    <3>2. tx' = Aead(HsKey("client"))'
      BY <1>a, <2>1 DEF ClientOk, HsKey, Key, Aead
    <3>3. pc' \in {"handshake", "finish"} /\ (pc' = "finish" => tr' = Full /\ srv.tr = Full)
      BY <1>a, <2>1, <2>3, FinishedTells
    <3> QED BY <2>1, <3>1, <3>2, <3>3 DEF AgreeInv, ClientOk, Agreement
  <2> QED BY <1>4, <2>2, <2>3 DEF ReadHandshake, Leave
<1>5. CASE SendFinished
  <2>0. pc = "finish"
    BY <1>5 DEF SendFinished
  <2>1. CASE SealFails
    BY <2>1, LeavingAgrees DEF SealFails, Leave
  <2>2. CASE /\ up' = Append(up, Sealed(tx, "handshake", <<Msg("CFIN", "whole", tr)>>))
             /\ tx' = AppKeys("client")
             /\ rx' = AppKeys("server")
             /\ pc' = "open"
             /\ UNCHANGED <<n, tr, srv, down>>
    <3>1. ServerOk' /\ ServerAccepts' /\ FinishedOk'
      BY <1>a, <2>2, ServerStands, FinishedRead
    <3>2. /\ tr = Full /\ srv.tr = Full /\ tx = Aead(HsKey("client"))
          /\ up = <<>> /\ ~srv.finished
      BY <1>a, <2>0 DEF ClientOk, UpOk
    <3>3. /\ tx' = [valid |-> TRUE, key |-> AppKey("client"), seq |-> 0]
          /\ rx' = [valid |-> TRUE, key |-> AppKey("server"), seq |-> 0]
      BY <2>2, <3>2 DEF AppKeys, Aead, AppKey
    <3>4. AppKey("client")' = AppKey("client") /\ AppKey("server")' = AppKey("server")
          /\ ClientFinished' = ClientFinished
      BY <2>2 DEF AppKey, Key, ClientFinished, HsKey
    <3>5. Sealed(tx, "handshake", <<Msg("CFIN", "whole", tr)>>) = ClientFinished
      BY <3>2 DEF Sealed, ClientFinished, Aead
    <3>6. Len(up') = 1 /\ up'[1] = ClientFinished /\ up' # <<>>
      BY <2>2, <3>2, <3>5
    <3>7. UpOk'
      BY <2>2, <3>2, <3>3, <3>4, <3>6 DEF UpOk
    <3>8. ClientOk'
      BY <2>2, <3>2, <3>3, <3>4 DEF ClientOk, Agreement, AppKey, Full
    <3> QED BY <3>1, <3>7, <3>8 DEF AgreeInv
  <2> QED BY <1>5, <2>1, <2>2 DEF SendFinished
<1>6. CASE Request
  <2>0. pc = "open"
    BY <1>6 DEF Request
  <2>1. CASE SealFails
    BY <2>1, LeavingAgrees DEF SealFails, Leave
  <2>2. CASE /\ up' = Append(up, Sealed(tx, "data", <<>>))
             /\ tx' = Advance(tx)
             /\ UNCHANGED <<pc, n, tr, rx, srv, down>>
    <3>1. ServerOk' /\ ServerAccepts' /\ FinishedOk'
      BY <1>a, <2>2, ServerStands, FinishedRead
    <3>2. /\ tx = [valid |-> TRUE, key |-> AppKey("client"),
                   seq |-> IF srv.finished THEN srv.rx.seq + Len(up) ELSE Len(up) - 1]
          /\ ~srv.finished => up # <<>>
          /\ \A i \in 1..Len(up) :
               up[i] = IF srv.finished THEN RequestNo(srv.rx.seq + i - 1)
                       ELSE IF i = 1 THEN ClientFinished ELSE RequestNo(i - 2)
      BY <1>a, <2>0 DEF UpOk
    <3>3. AppKey("client")' = AppKey("client") /\ AppKey("server")' = AppKey("server")
          /\ ClientFinished' = ClientFinished /\ \A k : RequestNo(k)' = RequestNo(k)
      BY <2>2 DEF AppKey, Key, ClientFinished, RequestNo, HsKey
    <3>4. Sealed(tx, "data", <<>>) = RequestNo(tx.seq) /\ RequestNo(tx.seq) \in Record
      <4>1. Sealed(tx, "data", <<>>) = RequestNo(tx.seq)
        BY <3>2 DEF Sealed, RequestNo
      <4>2. Sealed(tx, "data", <<>>) \in Record
        <5>1. <<>> \in Seq(Message)
          BY EmptySeq
        <5> QED BY <1>0, <5>1, SealedTyped
      <4> QED BY <4>1, <4>2
    <3>5. /\ Len(up) \in Nat /\ Len(up') = Len(up) + 1 /\ up' # <<>>
          /\ \A i \in 1..Len(up) : up'[i] = up[i]
          /\ up'[Len(up) + 1] = RequestNo(tx.seq)
      BY <1>0, <2>2, <3>4, AppendProperties, LenProperties
    <3>6. ~srv.finished => Len(up) # 0
      BY <1>0, <3>2, EmptySeq
    <3>7. srv.rx.seq \in Nat
      BY <1>0 DEF Servers, Aeads
    <3>8. /\ tx' = [valid |-> TRUE, key |-> AppKey("client"), seq |-> tx.seq + 1]
          /\ tx.seq = IF srv.finished THEN srv.rx.seq + Len(up) ELSE Len(up) - 1
      BY <2>2, <3>2 DEF Advance
    <3>9. ASSUME NEW i \in 1..Len(up')
          PROVE  up'[i] = IF srv.finished THEN RequestNo(srv.rx.seq + i - 1)
                          ELSE IF i = 1 THEN ClientFinished ELSE RequestNo(i - 2)
      <4>1. CASE i \in 1..Len(up)
        BY <3>2, <3>5, <4>1
      <4>2. CASE i = Len(up) + 1
        <5>1. CASE srv.finished
          BY <3>5, <3>7, <3>8, <4>2, <5>1
        <5>2. CASE ~srv.finished
          <6>1. i # 1 /\ i - 2 = tx.seq
            BY <3>5, <3>6, <3>8, <4>2, <5>2
          <6> QED BY <3>5, <4>2, <5>2, <6>1
        <5> QED BY <5>1, <5>2
      <4> QED BY <3>5, <4>1, <4>2
    <3>10. tx.seq + 1 = IF srv.finished THEN srv.rx.seq + Len(up') ELSE Len(up') - 1
      <4>1. CASE srv.finished
        BY <3>5, <3>7, <3>8, <4>1
      <4>2. CASE ~srv.finished
        BY <3>5, <3>8, <4>2
      <4> QED BY <4>1, <4>2
    <3>11. UpOk'
      <4>1. \A i \in 1..Len(up') :
               up'[i] = (IF srv.finished THEN RequestNo(srv.rx.seq + i - 1)
                         ELSE IF i = 1 THEN ClientFinished ELSE RequestNo(i - 2))'
        BY <2>2, <3>3, <3>9
      <4> QED BY <2>0, <2>2, <3>3, <3>5, <3>8, <3>10, <4>1 DEF UpOk
    <3>12. ClientOk'
      <4>1. tr = srv.tr /\ tr = Full /\ rx.key = AppKey("server")
        BY <1>a, <2>0 DEF ClientOk, Agreement, Full, AppKey
      <4> QED BY <2>0, <2>2, <3>3, <3>8, <4>1 DEF ClientOk, Agreement, AppKey, Full
    <3> QED BY <3>1, <3>11, <3>12 DEF AgreeInv
  <2> QED BY <1>6, <2>1, <2>2 DEF Request
<1>7. CASE ReadApp
  <2>1. UNCHANGED <<n, srv, up, tx, tr>> /\ down # <<>> /\ down' = Tail(down) /\ pc = "open"
    BY <1>7 DEF ReadApp, Takes
  <2>2. CASE pc' = "leaving"
    BY <2>1, <2>2, LeavingAgrees
  <2>3. CASE pc' = pc /\ (rx' = rx \/ rx' = Advance(rx))
    <3>1. ServerOk' /\ ServerAccepts' /\ FinishedOk' /\ UpOk'
      BY <1>a, <2>1, <2>3, ServerStands, FinishedRead, UpStands
    <3>2. rx'.key = rx.key
      BY <1>0, <2>3, AdvanceTyped
    <3> QED BY <1>a, <2>1, <2>3, <3>1, <3>2 DEF AgreeInv, ClientOk, Agreement, Key
  <2> QED BY <1>7, <2>2, <2>3 DEF ReadApp, Leave
<1>8. CASE ReadFails
  BY <1>8, LeavingAgrees DEF ReadFails, Leave
<1> QED BY <1>1, <1>2, <1>3, <1>4, <1>5, <1>6, <1>7, <1>8 DEF Client

(***************************************************************************)
(* The steps of the server.                                                *)
(***************************************************************************)

\* What the server does to records on their way and to its own state, where it
\* reads nothing.
LEMMA ClientStands ==
    ASSUME ClientOk, UpOk, SrvUnchanged, (srv.tr = Full) => (srv'.tr = Full),
           srv'.finished = srv.finished, srv'.rx = srv.rx \/ ~srv.finished
    PROVE  ClientOk' /\ UpOk'
<1>1. UNCHANGED <<pc, n, tr, tx, rx, up>>
  BY DEF SrvUnchanged, clientVars
<1>2. ClientOk'
  BY <1>1 DEF ClientOk, Agreement, HsKey, Key, Full
<1>3. UpOk'
  BY <1>1 DEF UpOk, RequestNo, ClientFinished, HsKey, AppKey, Key
<1> QED BY <1>2, <1>3

\* A record without messages.
LEMMA EmptyRecords ==
    ASSUME NEW a \in Aeads, NEW type \in {"ccs", "handshake", "alert", "data"}, NEW b
    PROVE  Sealed(a, type, <<>>) \in Closing(b) /\ Plain(type, <<>>) \in Closing(b)
<1>1. <<>> \in Seq(Message)
  BY EmptySeq
<1>2. Sealed(a, type, <<>>) \in Record /\ Plain(type, <<>>) \in Record
  BY <1>1, SealedTyped
<1>3. Sealed(a, type, <<>>).msgs = <<>> /\ Plain(type, <<>>).msgs = <<>>
  BY DEF Sealed, Plain
<1> QED BY <1>2, <1>3, NoMessagesClose

\* The record of a flight: what it holds of the handshake, for all that follows.
LEMMA FlightOf ==
    ASSUME srv \in Servers, NEW k \in 2..4, ServerSent(k),
           NEW whole \in 0..Len(srv.left), NEW more \in {"no", "short", "part"},
           whole + (IF more = "no" THEN 0 ELSE 1) \in 1..Len(srv.left)
    PROVE  /\ Len(srv.left) = 5 - k /\ whole \in 0..(5 - k) /\ k + whole \in 2..5
           /\ srv.tr \o SubSeq(srv.left, 1, whole) = Before(k + whole)
           /\ SubSeq(srv.left, whole + 1, Len(srv.left)) = After(k + whole)
           /\ \A m \in 1..whole : Flight(whole, more)[m] =
                IF m = 1 /\ srv.cut THEN Msg(srv.left[1], "rest", <<>>)
                ELSE IF Full[k + m] = "FIN" THEN Msg("FIN", "whole", Before(4))
                ELSE Whole(Full[k + m])
           /\ \A m \in 1..whole : Full[k + m] = "FIN" => k + whole = 5
<1>1. srv.left = After(k) /\ srv.tr = Before(k) /\ k \in 0..5 /\ k # 1
  BY DEF ServerSent
<1>2. Len(srv.left) = 5 - k /\ \A m \in 1..(5 - k) : srv.left[m] = Full[k + m]
  BY <1>1, AfterIs
<1>3. whole \in 0..(5 - k) /\ k + whole \in 2..5
  BY <1>2
<1>4. /\ srv.tr \o SubSeq(srv.left, 1, whole) = Before(k + whole)
      /\ SubSeq(srv.left, whole + 1, Len(srv.left)) = After(k + whole)
  BY <1>1, <1>3, Advances
<1>5. ASSUME NEW m \in 1..whole, Full[k + m] = "FIN" PROVE k + m = 5
  <2>1. k + m \in 3..5
    BY <1>3
  <2>2. k + m = 3 \/ k + m = 4 \/ k + m = 5
    BY <2>1
  <2> QED BY <1>5, <2>2, FullIs
<1>6. ASSUME NEW m \in 1..whole
      PROVE  Flight(whole, more)[m] =
                IF m = 1 /\ srv.cut THEN Msg(srv.left[1], "rest", <<>>)
                ELSE IF Full[k + m] = "FIN" THEN Msg("FIN", "whole", Before(4))
                ELSE Whole(Full[k + m])
  <2>1. Flight(whole, more)[m] =
            IF m = 1 /\ srv.cut THEN Msg(srv.left[1], "rest", <<>>)
            ELSE IF srv.left[m] = "FIN"
            THEN Msg("FIN", "whole", srv.tr \o SubSeq(srv.left, 1, m - 1))
            ELSE Whole(srv.left[m])
    BY FlightIs
  <2>2. m \in 1..(5 - k) /\ srv.left[m] = Full[k + m]
    BY <1>2, <1>3
  <2>3. Full[k + m] = "FIN" => srv.tr \o SubSeq(srv.left, 1, m - 1) = Before(4)
    <3>1. m - 1 \in 0..(5 - k)
      BY <2>2
    <3>2. srv.tr \o SubSeq(srv.left, 1, m - 1) = Before(k + (m - 1))
      BY <1>1, <3>1, Advances
    <3>3. k + m = 5 => k + (m - 1) = 4
      OBVIOUS
    <3> QED BY <1>5, <3>2, <3>3
  <2> QED BY <2>1, <2>2, <2>3
<1>7. ASSUME NEW m \in 1..whole, Full[k + m] = "FIN" PROVE k + whole = 5
  <2>1. k + m = 5
    BY <1>5, <1>7
  <2> QED BY <1>3, <2>1
<1> QED BY <1>2, <1>3, <1>4, <1>6, <1>7

\* Its record has a Finished only if that is the end of the handshake.
LEMMA FlightCloses ==
    ASSUME srv \in Servers, NEW k \in 2..4, ServerSent(k),
           NEW whole \in 0..Len(srv.left), NEW more \in {"no", "short", "part"},
           whole + (IF more = "no" THEN 0 ELSE 1) \in 1..Len(srv.left)
    PROVE  Sealed(srv.tx, "handshake", Flight(whole, more))
              \in Closing(Before(k + whole) = Full)
<1> DEFINE r == Sealed(srv.tx, "handshake", Flight(whole, more))
<1>1. /\ Flight(whole, more) \in Seq(Message)
      /\ Len(Flight(whole, more)) = whole + (IF more = "no" THEN 0 ELSE 1)
      /\ more # "no" =>
                Flight(whole, more)[whole + 1] = Msg(srv.left[whole + 1], more, <<>>)
  BY FlightIs
<1>2. srv.tx \in Aeads
  BY DEF Servers
<1>3. r \in Record /\ r.msgs = Flight(whole, more)
  <2>1. r \in Record
    BY <1>1, <1>2, SealedTyped
  <2> QED BY <2>1 DEF Sealed
<1>4. ASSUME NEW j \in 1..Len(r.msgs), IsFinished(r.msgs[j])
      PROVE  r.msgs[j].tr = Before(4) /\ Before(k + whole) = Full
  <2>1. j \in 1..whole \/ (more # "no" /\ j = whole + 1)
    BY <1>1, <1>3
  <2>2. CASE more # "no" /\ j = whole + 1
    BY <1>1, <1>3, <1>4, <2>2 DEF IsFinished, Msg
  <2>3. CASE j \in 1..whole
    <3>1. /\ r.msgs[j] = IF j = 1 /\ srv.cut THEN Msg(srv.left[1], "rest", <<>>)
                         ELSE IF Full[k + j] = "FIN" THEN Msg("FIN", "whole", Before(4))
                         ELSE Whole(Full[k + j])
          /\ Full[k + j] = "FIN" => k + whole = 5
      <4>1. /\ \A m \in 1..whole : Flight(whole, more)[m] =
                  IF m = 1 /\ srv.cut THEN Msg(srv.left[1], "rest", <<>>)
                  ELSE IF Full[k + m] = "FIN" THEN Msg("FIN", "whole", Before(4))
                  ELSE Whole(Full[k + m])
            /\ \A m \in 1..whole : Full[k + m] = "FIN" => k + whole = 5
        BY FlightOf
      <4> HIDE DEF r
      <4> QED BY <1>3, <2>3, <4>1
    <3>2. ~ (j = 1 /\ srv.cut)
      BY <1>4, <3>1 DEF IsFinished, Msg
    <3>3. Full[k + j] = "FIN"
      BY <1>4, <3>1, <3>2 DEF IsFinished, Whole, Msg
    <3> QED BY <3>1, <3>2, <3>3, BeforeAll DEF Msg
  <2> QED BY <2>1, <2>2, <2>3
<1> HIDE DEF r
<1>5. r \in Closing(Before(k + whole) = Full)
  BY <1>3, <1>4 DEF Closing
<1> QED BY <1>5 DEF r

\* A step of the server that only changes what this proof says nothing of.
LEMMA ServerGoesOn ==
    ASSUME AgreeInv, SrvUnchanged, srv'.at \in {srv.at, "gone"},
           srv'.tr = srv.tr, srv'.left = srv.left,
           srv'.finished = srv.finished, srv'.rx = srv.rx, srv'.refuses = srv.refuses,
           \/ down' = down
           \/ \E r : down' = Append(down, r) /\ \A b : r \in Closing(b)
    PROVE  AgreeInv'
<1>1. n' = n
  BY DEF SrvUnchanged, clientVars
<1>2. ServerOk' /\ ServerAccepts'
  BY <1>1 DEF AgreeInv, ServerOk, ServerAccepts, ServerSent, HsKey, AppKey, Key
<1>3. ClientOk' /\ UpOk'
  BY ClientStands DEF AgreeInv
<1>4. FinishedOk'
  <2>1. (srv.tr = Full) => (srv.tr = Full)'
    BY DEF Full
  <2>2. down' = down \/ \E r \in Closing((srv.tr = Full)') : down' = Append(down, r)
    OBVIOUS
  <2> QED BY <2>1, <2>2, FinishedKept DEF AgreeInv
<1> QED BY <1>2, <1>3, <1>4 DEF AgreeInv

LEMMA AgreedServer ==
    ASSUME TypeInv, AgreeInv, Server
    PROVE  AgreeInv'
<1>0. /\ n \in Nat /\ srv \in Servers /\ down \in Seq(Record) /\ up \in Seq(Record)
  BY DEF TypeInv
<1>a. ServerOk /\ FinishedOk /\ ClientOk /\ UpOk /\ ServerAccepts
  BY DEF AgreeInv
<1>f. /\ srv.tx \in Aeads /\ srv.rx \in Aeads /\ srv.finished \in BOOLEAN
      /\ srv.at \in {"hello", "flight", "up", "gone"}
  BY <1>0 DEF Servers
<1>1. CASE SrvHello
  <2>0. SrvUnchanged /\ srv.at = "hello" /\ n' = n
    BY <1>1 DEF SrvHello, SrvUnchanged, clientVars
  <2>1. srv.tr = Before(1) /\ srv.left = After(2) /\ ~srv.finished
    BY <1>a, <2>0 DEF ServerOk, ServerSent
  <2>2. srv.tr # Full
    BY <2>1, BeforeTells, BeforeAll
  <2>3. ASSUME NEW name \in {"SH", "HRR"}, NEW b
        PROVE  Plain("handshake", <<Whole(name)>>) \in Closing(b)
    <3>1. name \in Names /\ <<>> \in Seq(Names) /\ name # "FIN"
      BY <2>3, EmptySeq DEF Names
    <3>2. <<Whole(name)>> \in Seq(Message)
      BY <3>1, MsgTyped, OneTyped
    <3>3. NoAead \in Aeads
      BY NoneTyped
    <3>4. Plain("handshake", <<Whole(name)>>) \in Record
      BY <3>2, <3>3, SealedTyped
    <3>5. Plain("handshake", <<Whole(name)>>).msgs = <<Whole(name)>>
      BY DEF Plain
    <3>6. ~IsFinished(Whole(name))
      BY <3>1 DEF IsFinished, Whole, Msg
    <3>7. \A j \in 1..Len(<<Whole(name)>>) : <<Whole(name)>>[j] = Whole(name)
      OBVIOUS
    <3> HIDE DEF Plain, Whole
    <3> QED BY <3>4, <3>5, <3>6, <3>7 DEF Closing
  <2>4. FinishedOk'
    <3>1. \E r \in Closing((srv.tr = Full)') : down' = Append(down, r)
      BY <1>1, <2>3 DEF SrvHello
    <3>2. (srv.tr = Full) => (srv.tr = Full)'
      BY <2>2
    <3> QED BY <1>a, <3>1, <3>2, FinishedKept
  <2>5. CASE srv' = [srv EXCEPT !.at = "flight", !.tr = Append(srv.tr, "SH"),
                                !.tx = Aead(Key("server", "hs", Append(srv.tr, "SH"))),
                                !.rx = Aead(Key("client", "hs", Append(srv.tr, "SH")))]
    <3>1. Append(srv.tr, "SH") = Before(2)
      BY <2>1, BeforeFirst
    <3>2. /\ srv'.at = "flight" /\ srv'.tr = Before(2) /\ srv'.left = After(2)
          /\ srv'.rx = Aead(HsKey("client")) /\ srv'.finished = srv.finished
          /\ srv'.refuses = srv.refuses
      BY <1>0, <2>1, <2>5, <3>1 DEF Servers, HsKey
    <3>3. ServerSent(2)' /\ 2 \in 2..4
      BY <3>2 DEF ServerSent
    <3>4. Aead(HsKey("client"))' = Aead(HsKey("client"))
      BY <2>0 DEF Aead, HsKey, Key
    <3>5. ServerOk'
      BY <2>1, <3>2, <3>3, <3>4 DEF ServerOk
    <3>6. ServerAccepts'
      BY <1>a, <3>2 DEF ServerAccepts
    <3>7. ClientOk' /\ UpOk'
      BY <1>a, <2>0, <2>1, <2>2, <3>2, ClientStands
    <3> QED BY <2>4, <3>5, <3>6, <3>7 DEF AgreeInv
  <2>6. CASE srv' = [srv EXCEPT !.at = "gone", !.odd = TRUE]
    <3>1. /\ srv'.at = "gone" /\ srv'.finished = srv.finished /\ srv'.refuses = srv.refuses
          /\ srv'.rx = srv.rx /\ srv'.tr = srv.tr
      BY <1>0, <2>6 DEF Servers
    <3>2. ServerOk'
      BY <2>1, <3>1 DEF ServerOk
    <3>3. ServerAccepts'
      BY <1>a, <3>1 DEF ServerAccepts
    <3>4. ClientOk' /\ UpOk'
      BY <1>a, <2>0, <2>1, <2>2, <3>1, ClientStands
    <3> QED BY <2>4, <3>2, <3>3, <3>4 DEF AgreeInv
  <2> QED BY <1>1, <2>5, <2>6 DEF SrvHello
<1>2. CASE SrvChangeCipherSpec
  <2>1. \A b : Plain("ccs", <<>>) \in Closing(b)
    BY <1>f, EmptyRecords
  <2>2. /\ SrvUnchanged /\ srv'.at = srv.at /\ srv'.tr = srv.tr /\ srv'.left = srv.left
        /\ srv'.finished = srv.finished /\ srv'.rx = srv.rx /\ srv'.refuses = srv.refuses
    BY <1>0, <1>2 DEF SrvChangeCipherSpec, Servers
  <2>3. down' = Append(down, Plain("ccs", <<>>))
    BY <1>2 DEF SrvChangeCipherSpec
  <2> QED BY <2>1, <2>2, <2>3, ServerGoesOn
<1>3. CASE SrvFlight
  <2>0. SrvUnchanged /\ srv.at = "flight" /\ n' = n
    BY <1>3 DEF SrvFlight, SrvUnchanged, clientVars
  <2>1. PICK whole \in 0..Len(srv.left), more \in {"no", "short", "part"} :
        /\ whole + (IF more = "no" THEN 0 ELSE 1) \in 1..Len(srv.left)
        /\ srv.cut => whole > 0
        /\ down' = Append(down, Sealed(srv.tx, "handshake", Flight(whole, more)))
        /\ LET t == srv.tr \o SubSeq(srv.left, 1, whole)
               over == whole = Len(srv.left)
           IN  srv' = [srv EXCEPT !.at = IF over THEN "up" ELSE "flight",
                                  !.tr = t,
                                  !.left = SubSeq(@, whole + 1, Len(@)),
                                  !.cut = more # "no",
                                  !.odd = @ \/ more # "no",
                                  !.tx = IF over THEN Aead(Key("server", "app", t))
                                         ELSE Advance(@)]
    BY <1>3 DEF SrvFlight
  <2>2. PICK k \in 2..4 : ServerSent(k)
    BY <1>a, <2>0 DEF ServerOk
  <2>3. /\ Len(srv.left) = 5 - k /\ whole \in 0..(5 - k) /\ k + whole \in 2..5
        /\ srv.tr \o SubSeq(srv.left, 1, whole) = Before(k + whole)
        /\ SubSeq(srv.left, whole + 1, Len(srv.left)) = After(k + whole)
    BY <1>0, <2>1, <2>2, FlightOf
  <2>4. /\ srv'.at = IF whole = Len(srv.left) THEN "up" ELSE "flight"
        /\ srv'.tr = Before(k + whole) /\ srv'.left = After(k + whole)
        /\ srv'.finished = srv.finished /\ srv'.rx = srv.rx /\ srv'.refuses = srv.refuses
    BY <1>0, <2>1, <2>3 DEF Servers
  <2>5. ~srv.finished /\ srv.rx = Aead(HsKey("client")) /\ srv.tr = Before(k)
    BY <1>a, <2>0, <2>2 DEF ServerOk, ServerSent
  <2>6. srv.tr # Full
    <3>1. k # 5 /\ k \in 0..5 /\ 5 \in 0..5
      OBVIOUS
    <3> QED BY <2>5, <3>1, BeforeTells, BeforeAll
  <2>7. FinishedOk'
    <3>1. Sealed(srv.tx, "handshake", Flight(whole, more)) \in Closing(Before(k + whole) = Full)
      BY <1>0, <2>1, <2>2, FlightCloses
    <3>2. (srv.tr = Full)' = (Before(k + whole) = Full)
      BY <2>4 DEF Full
    <3> QED BY <1>a, <2>1, <2>6, <3>1, <3>2, FinishedKept
  <2>8. ClientOk' /\ UpOk'
    BY <1>a, <2>0, <2>4, <2>5, <2>6, ClientStands
  <2>9. ServerAccepts'
    BY <1>a, <2>4 DEF ServerAccepts
  <2>10. ServerSent(k + whole)'
    BY <2>3, <2>4 DEF ServerSent
  <2>11. Aead(HsKey("client"))' = Aead(HsKey("client"))
    BY <2>0 DEF Aead, HsKey, Key
  <2>12. ServerOk'
    <3>1. CASE whole = Len(srv.left)
      <4>1. k + whole = 5
        BY <2>3, <3>1
      <4> QED BY <2>4, <2>5, <2>10, <2>11, <3>1, <4>1 DEF ServerOk
    <3>2. CASE whole # Len(srv.left)
      <4>1. k + whole \in 2..4
        BY <2>3, <3>2
      <4> QED BY <2>4, <2>5, <2>10, <2>11, <3>2, <4>1 DEF ServerOk
    <3> QED BY <3>1, <3>2
  <2> QED BY <2>7, <2>8, <2>9, <2>12 DEF AgreeInv
<1>4. CASE SrvRecord
  <2>1. PICK type \in {"data", "handshake"} : down' = Append(down, Sealed(srv.tx, type, <<>>))
    BY <1>4 DEF SrvRecord
  <2>2. \A b : Sealed(srv.tx, type, <<>>) \in Closing(b)
    BY <1>f, EmptyRecords
  <2>3. /\ SrvUnchanged /\ srv'.at = srv.at /\ srv'.tr = srv.tr /\ srv'.left = srv.left
        /\ srv'.finished = srv.finished /\ srv'.rx = srv.rx /\ srv'.refuses = srv.refuses
    BY <1>0, <1>4 DEF SrvRecord, Servers
  <2> QED BY <2>1, <2>2, <2>3, ServerGoesOn
<1>5. CASE SrvKeyUpdate
  <2>1. \A b : Sealed(srv.tx, "handshake", <<>>) \in Closing(b)
    BY <1>f, EmptyRecords
  <2>2. /\ SrvUnchanged /\ srv'.at = srv.at /\ srv'.tr = srv.tr /\ srv'.left = srv.left
        /\ srv'.finished = srv.finished /\ srv'.rx = srv.rx /\ srv'.refuses = srv.refuses
    BY <1>0, <1>5 DEF SrvKeyUpdate, Servers
  <2>3. down' = Append(down, Sealed(srv.tx, "handshake", <<>>))
    BY <1>5 DEF SrvKeyUpdate
  <2> QED BY <2>1, <2>2, <2>3, ServerGoesOn
<1>6. CASE SrvStops
  <2> DEFINE r == IF srv.tx.valid THEN Sealed(srv.tx, "alert", <<>>) ELSE Plain("alert", <<>>)
  <2>1. \A b : r \in Closing(b)
    BY <1>f, EmptyRecords
  <2>2. /\ SrvUnchanged /\ srv'.at = "gone" /\ srv'.tr = srv.tr /\ srv'.left = srv.left
        /\ srv'.finished = srv.finished /\ srv'.rx = srv.rx /\ srv'.refuses = srv.refuses
    BY <1>0, <1>6 DEF SrvStops, Servers
  <2>3. down' = down \o <<>> \/ down' = down \o <<r>>
    BY <1>6 DEF SrvStops
  <2> HIDE DEF r
  <2>4. r \in Record
    BY <2>1 DEF Closing
  <2>5. down' = down \/ down' = Append(down, r)
    BY <1>0, <2>3, <2>4, ConcatEmptySeq, AppendIsConcat
  <2> QED BY <2>1, <2>2, <2>5, ServerGoesOn
<1>7. CASE SrvTakes
  <2>0. /\ srv.at = "up" /\ up # <<>> /\ up' = Tail(up)
        /\ UNCHANGED <<pc, n, tr, tx, rx, down>>
    BY <1>7 DEF SrvTakes, clientVars
  <2>1. srv.tr = Full /\ ServerSent(5)
    BY <1>a, <2>0, BeforeAll DEF ServerOk, ServerSent
  <2>2. /\ Len(up) \in Nat \ {0} /\ Len(up') = Len(up) - 1
        /\ \A i \in 1..(Len(up) - 1) : up'[i] = up[i + 1]
    BY <1>0, <2>0, TailTyped
  <2>3. \A i \in 1..Len(up) :
          up[i] = IF srv.finished THEN RequestNo(srv.rx.seq + i - 1)
                  ELSE IF i = 1 THEN ClientFinished ELSE RequestNo(i - 2)
    BY <1>a DEF UpOk
  <2>4. srv.rx.seq \in Nat
    BY <1>f DEF Aeads
  <2>5. pc \notin {"closed", "hello", "handshake", "finish"}
    BY <1>a, <2>0 DEF UpOk
  <2>6. /\ AppKey("client")' = AppKey("client") /\ AppKey("server")' = AppKey("server")
        /\ ClientFinished' = ClientFinished /\ \A k : RequestNo(k)' = RequestNo(k)
    BY <2>0 DEF AppKey, Key, ClientFinished, RequestNo, HsKey
  <2>7. CASE srv.finished
    <3>1. srv.rx = [valid |-> TRUE, key |-> AppKey("client"), seq |-> srv.rx.seq]
      BY <1>a, <2>7 DEF ServerOk
    <3>2. up[1] = RequestNo(srv.rx.seq)
      <4>1. 1 \in 1..Len(up) /\ srv.rx.seq + 1 - 1 = srv.rx.seq
        BY <2>2, <2>4
      <4> QED BY <2>3, <2>7, <4>1
    <3>3. Opens(srv.rx, up[1]) /\ up[1].type = "data"
      BY <3>1, <3>2 DEF Opens, RequestNo
    <3>4. srv' = [srv EXCEPT !.finished = TRUE, !.rx = Advance(srv.rx), !.got = srv.got + 1]
      BY <1>7, <2>7, <3>3 DEF SrvTakes
    <3>5. /\ srv'.at = "up" /\ srv'.tr = srv.tr /\ srv'.left = srv.left /\ srv'.finished
          /\ srv'.refuses = srv.refuses /\ srv'.rx = Advance(srv.rx)
      BY <1>0, <2>0, <3>4 DEF Servers
    <3>6. /\ srv'.rx.seq = srv.rx.seq + 1
          /\ srv'.rx = [valid |-> TRUE, key |-> AppKey("client"), seq |-> srv'.rx.seq]
      <4>1. srv.rx.valid /\ srv.rx.key = AppKey("client")
        BY <3>1
      <4>2. /\ srv'.rx \in Aeads /\ srv'.rx.key = AppKey("client")
            /\ srv'.rx.seq = srv.rx.seq + 1 /\ srv'.rx.valid = TRUE
        BY <1>f, <3>5, <4>1, AdvanceTyped
      <4> QED BY <4>2 DEF Aeads
    <3>7. ServerSent(5)'
      BY <2>1, <3>5 DEF ServerSent
    <3>8. ServerOk'
      BY <2>6, <3>5, <3>6, <3>7 DEF ServerOk
    <3>9. ASSUME NEW i \in 1..Len(up') PROVE up'[i] = RequestNo(srv'.rx.seq + i - 1)
      <4>1. i \in 1..(Len(up) - 1) /\ i + 1 \in 1..Len(up)
        BY <2>2
      <4>2. srv'.rx.seq + i - 1 = srv.rx.seq + (i + 1) - 1
        BY <2>4, <3>6
      <4> QED BY <2>2, <2>3, <2>7, <4>1, <4>2
    <3>10. srv'.rx.seq + Len(up') = srv.rx.seq + Len(up)
      BY <2>2, <2>4, <3>6
    <3>11. UpOk'
      <4>1. \A i \in 1..Len(up') : up'[i] = RequestNo(srv.rx.seq + i - 1)'
        BY <2>6, <3>9
      <4>2. pc = "open" => tx = [valid |-> TRUE, key |-> AppKey("client"),
                                 seq |-> srv.rx.seq + Len(up)]
        BY <1>a, <2>7 DEF UpOk
      <4> QED BY <2>0, <2>5, <2>6, <3>5, <3>10, <4>1, <4>2 DEF UpOk
    <3>12. FinishedOk' /\ ServerAccepts'
      BY <1>a, <2>0, <3>5, FinishedKept DEF ServerAccepts
    <3>13. ClientOk'
      BY <1>a, <2>0, <2>5, <3>5 DEF ClientOk, Agreement, Key
    <3> QED BY <3>8, <3>11, <3>12, <3>13 DEF AgreeInv
  <2>8. CASE ~srv.finished
    <3>1. srv.rx = Aead(HsKey("client"))
      BY <1>a, <2>0, <2>8 DEF ServerOk
    <3>2. up[1] = ClientFinished
      <4>1. 1 \in 1..Len(up)
        BY <2>2
      <4> QED BY <2>3, <2>8, <4>1
    <3>3. Opens(srv.rx, up[1]) /\ up[1].msgs = <<Msg("CFIN", "whole", srv.tr)>>
      BY <2>1, <3>1, <3>2 DEF Opens, ClientFinished, Aead
    <3>4. srv' = [srv EXCEPT !.finished = TRUE, !.rx = Aead(Key("client", "app", srv.tr)),
                             !.got = srv.got]
      BY <1>7, <2>8, <3>3 DEF SrvTakes
    <3>5. /\ srv'.at = "up" /\ srv'.tr = srv.tr /\ srv'.left = srv.left /\ srv'.finished
          /\ srv'.refuses = srv.refuses /\ srv'.rx = Aead(AppKey("client"))
      BY <1>0, <2>0, <2>1, <3>4 DEF Servers, AppKey
    <3>6. /\ srv'.rx.seq = 0
          /\ srv'.rx = [valid |-> TRUE, key |-> AppKey("client"), seq |-> srv'.rx.seq]
      BY <3>5 DEF Aead
    <3>7. ServerSent(5)'
      BY <2>1, <3>5 DEF ServerSent
    <3>8. ServerOk'
      BY <2>6, <3>5, <3>6, <3>7 DEF ServerOk
    <3>9. ASSUME NEW i \in 1..Len(up') PROVE up'[i] = RequestNo(srv'.rx.seq + i - 1)
      <4>1. i \in 1..(Len(up) - 1) /\ i + 1 \in 1..Len(up) /\ i + 1 # 1
        BY <2>2
      <4>2. srv'.rx.seq + i - 1 = (i + 1) - 2
        BY <3>6
      <4> QED BY <2>2, <2>3, <2>8, <4>1, <4>2
    <3>10. srv'.rx.seq + Len(up') = Len(up) - 1
      BY <2>2, <3>6
    <3>11. UpOk'
      <4>1. \A i \in 1..Len(up') : up'[i] = RequestNo(srv.rx.seq + i - 1)'
        BY <2>6, <3>9
      <4>2. pc = "open" => tx = [valid |-> TRUE, key |-> AppKey("client"),
                                 seq |-> Len(up) - 1]
        BY <1>a, <2>8 DEF UpOk
      <4> QED BY <2>0, <2>5, <2>6, <3>5, <3>10, <4>1, <4>2 DEF UpOk
    <3>12. FinishedOk' /\ ServerAccepts'
      BY <1>a, <2>0, <3>5, FinishedKept DEF ServerAccepts
    <3>13. ClientOk'
      BY <1>a, <2>0, <2>5, <3>5 DEF ClientOk, Agreement, Key
    <3> QED BY <3>8, <3>11, <3>12, <3>13 DEF AgreeInv
  <2> QED BY <2>7, <2>8
<1> QED BY <1>1, <1>2, <1>3, <1>4, <1>5, <1>6, <1>7 DEF Server

LEMMA AgreedAlways == Spec => []AgreeInv
<1>1. Init => AgreeInv
  <2> SUFFICES ASSUME Init PROVE AgreeInv
    OBVIOUS
  <2>1. FinishedOk
    BY EmptySeq DEF Init, FinishedOk
  <2>2. srv = [SrvStart EXCEPT !.at = "gone"] /\ pc = "closed" /\ up = <<>>
    BY DEF Init
  <2>3. srv.at = "gone" /\ ~srv.finished /\ ~srv.refuses
    BY <2>2 DEF SrvStart
  <2> QED BY <2>1, <2>2, <2>3, EmptySeq
          DEF AgreeInv, ServerOk, ClientOk, Agreement, UpOk, ServerAccepts
<1>2. TypeInv /\ AgreeInv /\ [Next]_vars => AgreeInv'
  <2> SUFFICES ASSUME TypeInv, AgreeInv, [Next]_vars PROVE AgreeInv'
    OBVIOUS
  <2>1. CASE UNCHANGED vars
    <3>1. /\ UNCHANGED <<n, srv, up, down, pc, tx, rx, tr>>
          /\ ServerOk /\ FinishedOk /\ ClientOk /\ UpOk /\ ServerAccepts
      BY <2>1 DEF vars, clientVars, AgreeInv
    <3>2. ServerOk' /\ ServerAccepts' /\ FinishedOk' /\ UpOk'
      BY <3>1, ServerStands, FinishedRead, UpStands
    <3>3. ClientOk'
      BY <3>1 DEF ClientOk, Agreement, HsKey, Key
    <3> QED BY <3>2, <3>3 DEF AgreeInv
  <2> QED BY <2>1, AgreedClient, AgreedServer DEF Next
<1> QED BY <1>1, <1>2, TypedAlways, PTL DEF Spec

\* A connection is open only when the server has proved to have seen the same
\* handshake, to its last message, and both have the same keys: no request of
\* the browser goes out before that, whatever the records carry.
THEOREM SameHandshake == Spec => []Agreement
<1>1. AgreeInv => Agreement
  BY DEF AgreeInv, ClientOk
<1> QED BY <1>1, AgreedAlways, PTL

\* The server never finds a record of the client that it cannot open or does not
\* expect, for any number of requests and however late it comes to read them.
THEOREM ServerUnderstands == Spec => []ServerAccepts
<1>1. AgreeInv => ServerAccepts
  BY DEF AgreeInv
<1> QED BY <1>1, AgreedAlways, PTL

-----------------------------------------------------------------------------
(***************************************************************************)
(* A server that does nothing odd is understood: the records on their way  *)
(* take the client from where it is to where the server is.                *)
(***************************************************************************)

\* How far a stream of records has come: messages of the handshake, records
\* under the current key, and whether an alert has ended it.
Stage == [len : 1..5, seq : Nat, over : BOOLEAN]

\* The server's key and number there, on connection c.
ServerTx(c, a) ==
    IF a.len = 1 THEN NoAead
    ELSE [valid |-> TRUE, seq |-> a.seq,
          key |-> [conn |-> c, side |-> "server", phase |-> IF a.len = 5 THEN "app" ELSE "hs",
                   from |-> IF a.len = 5 THEN Full ELSE Before(2)]]

\* The messages after the first i, up to the jth.
Messages(i, j) ==
    [m \in 1..(j - i) |-> IF Full[i + m] = "FIN" THEN Msg("FIN", "whole", Before(4))
                          ELSE Whole(Full[i + m])]

\* The records that take a stream from a to b.
EmitsHello(a, r, b) ==
    /\ a.len = 1 /\ b.len = 2 /\ b.seq = 0 /\ ~b.over
    /\ r = Plain("handshake", <<Whole("SH")>>)
EmitsFlight(c, a, r, b) ==
    /\ a.len \in 2..4 /\ b.len \in (a.len + 1)..5
    /\ b.seq = (IF b.len = 5 THEN 0 ELSE a.seq + 1) /\ ~b.over
    /\ r = Sealed(ServerTx(c, a), "handshake", Messages(a.len, b.len))
EmitsData(c, a, r, b) ==
    /\ a.len = 5 /\ b.len = 5 /\ b.seq = a.seq + 1 /\ ~b.over
    /\ \E type \in {"data", "handshake"} : r = Sealed(ServerTx(c, a), type, <<>>)
EmitsAlert(c, a, r, b) ==
    /\ b.over
    /\ r = IF a.len = 1 THEN Plain("alert", <<>>) ELSE Sealed(ServerTx(c, a), "alert", <<>>)
Emits(c, a, r, b) ==
    /\ ~a.over
    /\ \/ r.type = "ccs" /\ b = a
       \/ EmitsHello(a, r, b)
       \/ EmitsFlight(c, a, r, b)
       \/ EmitsData(c, a, r, b)
       \/ EmitsAlert(c, a, r, b)

FlowsTo(c, a, q, b) ==
    \E g \in [0..Len(q) -> Stage] :
        /\ g[0] = a /\ g[Len(q)] = b
        /\ \A x \in 1..Len(q) : Emits(c, g[x - 1], q[x], g[x])

\* The client is where the stream is, and the server where it ends.
ClientAt(a) ==
    ~a.over =>
        /\ pc = "hello" => a.len = 1
        /\ pc = "handshake" => a.len \in 2..4 /\ tr = Before(a.len) /\ rx = ServerTx(n, a)
        /\ pc = "finish" => a.len = 5 /\ a.seq = 0
        /\ pc = "open" => a.len = 5 /\ rx = ServerTx(n, a)
ServerAt(b) ==
    srv.at # "gone" => ~b.over /\ srv.tr = Before(b.len) /\ srv.tx = ServerTx(n, b)

Understood ==
    ~srv.odd /\ pc \in {"hello", "handshake", "finish", "open"} =>
        \E a, b \in Stage : ClientAt(a) /\ FlowsTo(n, a, down, b) /\ ServerAt(b)

RejectInv == RejectsOnlyTheOdd /\ Understood /\ (srv.cut => srv.odd)

LEMMA FlowsNothing ==
    ASSUME NEW c, NEW a \in Stage
    PROVE  FlowsTo(c, a, <<>>, a)
<1> DEFINE g == [x \in 0..0 |-> a]
<1>1. g \in [0..0 -> Stage] /\ g[0] = a
  OBVIOUS
<1>2. Len(<<>>) = 0
  BY EmptySeq
<1>3. \A x \in 1..0 : FALSE
  OBVIOUS
<1> HIDE DEF g
<1> QED BY <1>1, <1>2, <1>3 DEF FlowsTo

LEMMA FlowsMore ==
    ASSUME NEW c, NEW a, NEW q \in Seq(Record), NEW b, FlowsTo(c, a, q, b),
           NEW r \in Record, NEW e \in Stage, Emits(c, b, r, e)
    PROVE  FlowsTo(c, a, Append(q, r), e)
<1> DEFINE k == Len(q)
           m == Append(q, r)
<1>1. k \in Nat /\ Len(m) = k + 1 /\ m[k + 1] = r /\ \A x \in 1..k : m[x] = q[x]
  BY LenProperties, AppendProperties
<1>2. PICK g \in [0..k -> Stage] :
        /\ g[0] = a /\ g[k] = b
        /\ \A x \in 1..k : Emits(c, g[x - 1], q[x], g[x])
  BY DEF FlowsTo
<1> HIDE DEF k, m
<1> DEFINE h == [x \in 0..(k + 1) |-> IF x = k + 1 THEN e ELSE g[x]]
<1>3. h \in [0..(k + 1) -> Stage]
  BY <1>1, <1>2
<1>4. h[k + 1] = e /\ \A x \in 0..k : h[x] = g[x]
  BY <1>1
<1> HIDE DEF h
<1>5. h[0] = a /\ h[k] = b
  BY <1>1, <1>2, <1>4
<1>6. ASSUME NEW x \in 1..(k + 1) PROVE Emits(c, h[x - 1], m[x], h[x])
  <2>1. CASE x = k + 1
    <3>1. x - 1 = k
      BY <1>1, <2>1
    <3> QED BY <1>1, <1>4, <1>5, <2>1, <3>1
  <2>2. CASE x # k + 1
    <3>1. x \in 1..k /\ x \in 0..k /\ x - 1 \in 0..k
      BY <1>1, <2>2
    <3> QED BY <1>1, <1>2, <1>4, <3>1
  <2> QED BY <2>1, <2>2
<1>7. FlowsTo(c, a, m, e)
  BY <1>1, <1>3, <1>4, <1>5, <1>6 DEF FlowsTo
<1> QED BY <1>7 DEF m

LEMMA FlowsRead ==
    ASSUME NEW c, NEW a, NEW q \in Seq(Record), q # <<>>, NEW b, FlowsTo(c, a, q, b)
    PROVE  \E e \in Stage : Emits(c, a, q[1], e) /\ FlowsTo(c, e, Tail(q), b)
<1> DEFINE k == Len(q)
           m == Tail(q)
<1>1. k \in Nat \ {0} /\ Len(m) = k - 1 /\ \A x \in 1..(k - 1) : m[x] = q[x + 1]
  BY TailTyped
<1>2. PICK g \in [0..k -> Stage] :
        /\ g[0] = a /\ g[k] = b
        /\ \A x \in 1..k : Emits(c, g[x - 1], q[x], g[x])
  BY DEF FlowsTo
<1> DEFINE h == [x \in 0..(k - 1) |-> g[x + 1]]
<1> HIDE DEF k, m
<1>3. h \in [0..(k - 1) -> Stage] /\ \A x \in 0..(k - 1) : h[x] = g[x + 1]
  BY <1>1, <1>2
<1> HIDE DEF h
<1>4. 1 \in 1..k /\ 1 \in 0..k /\ 1 - 1 = 0
  BY <1>1
<1>5. g[1] \in Stage /\ Emits(c, a, q[1], g[1])
  BY <1>2, <1>4
<1>6. h[0] = g[1] /\ h[k - 1] = b
  BY <1>1, <1>2, <1>3
<1>7. ASSUME NEW x \in 1..(k - 1) PROVE Emits(c, h[x - 1], m[x], h[x])
  <2>1. /\ x + 1 \in 1..k /\ (x + 1) - 1 = x /\ (x - 1) + 1 = x /\ x \in 0..(k - 1)
        /\ x - 1 \in 0..(k - 1)
    BY <1>1
  <2>2. Emits(c, g[x], q[x + 1], g[x + 1])
    BY <1>2, <2>1
  <2> QED BY <1>1, <1>3, <2>1, <2>2
<1>8. FlowsTo(c, g[1], m, b)
  BY <1>1, <1>3, <1>6, <1>7 DEF FlowsTo
<1> QED BY <1>5, <1>8 DEF m

\* The messages of a record of a server that does nothing odd, and what the
\* client has of the handshake after them.
LEMMA LastIs == \A p \in 3..5 : (Full[p] = "FIN" <=> p = 5) /\ Full[p] \in Names
<1>1. \A p \in 3..5 : p = 3 \/ p = 4 \/ p = 5
  OBVIOUS
<1> QED BY <1>1, FullIs DEF Names

LEMMA MessagesAre ==
    ASSUME NEW i \in 2..4, NEW j \in (i + 1)..5
    PROVE  /\ Messages(i, j) \in Seq(Message) /\ Len(Messages(i, j)) = j - i
           /\ \A m \in 1..(j - i) :
                /\ Messages(i, j)[m] =
                     IF Full[i + m] = "FIN" THEN Msg("FIN", "whole", Before(4))
                     ELSE Whole(Full[i + m])
                /\ Messages(i, j)[m].part = "whole"
                /\ Messages(i, j)[m].name = Full[i + m]
                /\ i + m = 5 => Messages(i, j)[m].tr = Before(4)
<1> DEFINE e(m) == IF Full[i + m] = "FIN" THEN Msg("FIN", "whole", Before(4))
                   ELSE Whole(Full[i + m])
<1>1. j - i \in Nat /\ \A m \in 1..(j - i) : i + m \in 3..5
  OBVIOUS
<1>2. Before(4) \in Seq(Names)
  <2>1. 4 \in 0..5
    OBVIOUS
  <2> QED BY <2>1, BeforeIs
<1>3. ASSUME NEW m \in 1..(j - i)
      PROVE  /\ e(m) \in Message /\ e(m).part = "whole" /\ e(m).name = Full[i + m]
             /\ i + m = 5 => e(m).tr = Before(4)
  <2>1. i + m \in 3..5
    BY <1>1
  <2>2. Full[i + m] \in Names /\ (Full[i + m] = "FIN" <=> i + m = 5) /\ "FIN" \in Names
    BY <2>1, LastIs DEF Names
  <2>3. Msg("FIN", "whole", Before(4)) \in Message /\ Whole(Full[i + m]) \in Message
    BY <1>2, <2>2, MsgTyped
  <2>4. e(m) \in Message
    BY <2>3
  <2>5. e(m).part = "whole" /\ e(m).name = Full[i + m]
    BY DEF Msg, Whole
  <2>6. i + m = 5 => e(m).tr = Before(4)
    BY <2>2 DEF Msg
  <2> QED BY <2>4, <2>5, <2>6
<1> HIDE DEF e
<1>4. Messages(i, j) = [m \in 1..(j - i) |-> e(m)]
  BY DEF Messages, e
<1>5. Messages(i, j) \in [1..(j - i) -> Message]
  BY <1>3, <1>4
<1>6. Messages(i, j) \in Seq(Message)
  BY <1>1, <1>5, SeqDef
<1>7. Len(Messages(i, j)) = j - i
  <2>1. DOMAIN Messages(i, j) = 1..Len(Messages(i, j)) /\ Len(Messages(i, j)) \in Nat
        /\ DOMAIN Messages(i, j) = 1..(j - i)
    BY <1>5, <1>6, LenProperties
  <2> QED BY <1>1, <2>1
<1>8. \A m \in 1..(j - i) : Messages(i, j)[m] = e(m)
  BY <1>4
<1>9. \A m \in 1..(j - i) : e(m) = IF Full[i + m] = "FIN" THEN Msg("FIN", "whole", Before(4))
                                   ELSE Whole(Full[i + m])
  BY DEF e
<1> QED BY <1>3, <1>6, <1>7, <1>8, <1>9

LEMMA MessagesTaken ==
    ASSUME NEW i \in 2..4, NEW j \in (i + 1)..5, tr = Before(i)
    PROVE  /\ TakeMsgs(Messages(i, j)).ok
           /\ TakeMsgs(Messages(i, j)).tr = Before(j)
           /\ TakeMsgs(Messages(i, j)).fin <=> j = 5
<1> DEFINE s == Messages(i, j)
           base == [tr |-> tr, ok |-> TRUE, fin |-> FALSE]
           Good(k, x) == x.ok /\ x.tr = Before(i + k) /\ (x.fin <=> i + k = 5)
           G == {p \in Nat \X Progress : Good(p[1], p[2])}
<1>1. /\ s \in Seq(Message) /\ Len(s) = j - i
      /\ \A m \in 1..(j - i) :
            /\ s[m].part = "whole" /\ s[m].name = Full[i + m]
            /\ i + m = 5 => s[m].tr = Before(4)
            /\ s[m] \in Message
  BY MessagesAre, ElementOfSeq
<1> HIDE DEF s
<1>2. i \in 0..5 /\ j - i \in Nat /\ i + (j - i) = j /\ i + 0 = i /\ i # 5
  OBVIOUS
<1>3. <<0, base>> \in G
  <2>1. Before(i) \in Seq(Names)
    BY <1>2, BeforeIs
  <2>2. base \in Progress
    BY <2>1, BaseTyped
  <2>3. Good(0, base)
    BY <1>2
  <2> HIDE DEF base, Good
  <2> QED BY <2>2, <2>3
<1>4. ASSUME NEW k \in 1..Len(s), NEW x, <<k - 1, x>> \in G
      PROVE  <<k, TakeMsg(x, s[k])>> \in G
  <2>1. x \in Progress /\ Good(k - 1, x)
    BY <1>4
  <2>2. /\ k \in 1..(j - i) /\ i + k \in 3..5 /\ i + (k - 1) \in 0..4 /\ k \in Nat
        /\ i + (k - 1) # 5 /\ (i + (k - 1)) + 1 = i + k
        /\ i + k = 5 => i + (k - 1) = 4
    BY <1>1, <1>2
  <2>3. x.ok /\ ~x.fin /\ x.tr = Before(i + (k - 1))
    BY <2>1, <2>2
  <2>4. s[k] \in Message /\ s[k].part = "whole" /\ s[k].name = Full[i + k]
        /\ (i + k = 5 => s[k].tr = Before(4))
    BY <1>1, <2>2
  <2>5. Full[i + k] = "FIN" <=> i + k = 5
    BY <2>2, LastIs
  <2>6. s[k].name = "FIN" => s[k].tr = x.tr
    BY <2>2, <2>3, <2>4, <2>5
  <2>7. /\ TakeMsg(x, s[k]) \in Progress /\ TakeMsg(x, s[k]).ok
        /\ TakeMsg(x, s[k]).tr = Append(x.tr, s[k].name)
        /\ TakeMsg(x, s[k]).fin <=> s[k].name = "FIN"
    BY <2>1, <2>3, <2>4, <2>6, TakeMsgIs
  <2>8. Append(Before(i + (k - 1)), Full[(i + (k - 1)) + 1]) = Before((i + (k - 1)) + 1)
    BY <2>2, BeforeNext
  <2>9. Append(x.tr, s[k].name) = Before(i + k)
    BY <2>2, <2>3, <2>4, <2>8
  <2>10. Good(k, TakeMsg(x, s[k]))
    BY <2>4, <2>5, <2>7, <2>9
  <2> HIDE DEF Good
  <2> QED BY <2>2, <2>7, <2>10
<1>5. <<Len(s), T!Fold(base, s)>> \in G
  <2> HIDE DEF G, base
  <2> QED BY <1>1, <1>3, <1>4, T!FoldKeepsAlong
<1>6. Good(j - i, T!Fold(base, s))
  <2> HIDE DEF base, Good
  <2> QED BY <1>1, <1>5
<1>7. TakeMsgs(s) = T!Fold(base, s)
  BY TakeMsgsIs
<1> HIDE DEF base
<1> QED BY <1>2, <1>6, <1>7 DEF s

\* The server's keys during the handshake, and after it.
LEMMA ServerTxIs ==
    ASSUME NEW c, NEW a
    PROVE  /\ a.len \in 2..4 => ServerTx(c, a) =
                [valid |-> TRUE, seq |-> a.seq,
                 key |-> [conn |-> c, side |-> "server", phase |-> "hs", from |-> Before(2)]]
           /\ a.len = 5 => ServerTx(c, a) =
                [valid |-> TRUE, seq |-> a.seq,
                 key |-> [conn |-> c, side |-> "server", phase |-> "app", from |-> Full]]
<1>1. CASE a.len \in 2..4
  <2>1. a.len # 1 /\ a.len # 5
    BY <1>1
  <2> QED BY <2>1 DEF ServerTx
<1>2. CASE a.len = 5
  BY <1>2 DEF ServerTx
<1> QED BY <1>1, <1>2

LEMMA GoesOn ==
    ASSUME NEW a \in Stage, NEW b \in Stage, ClientAt(a)', FlowsTo(n', a, down', b),
           ServerAt(b)'
    PROVE  Understood'
BY DEF Understood

LEMMA ServerStays ==
    ASSUME NEW b, ServerAt(b), UNCHANGED <<n, srv>>
    PROVE  ServerAt(b)'
BY DEF ServerAt

\* The client leaves for another reason, and the server has no part in it.
LEMMA LeavesUnderstood ==
    ASSUME RejectInv, UNCHANGED srv, pc' = "leaving", why' # "rejected" \/ srv.odd
    PROVE  RejectInv'
BY DEF RejectInv, RejectsOnlyTheOdd, Understood

\* A step that leaves the reason as it is.
LEMMA StaysUnderstood ==
    ASSUME RejectInv, UNCHANGED <<srv, why>>, Understood'
    PROVE  RejectInv'
BY DEF RejectInv, RejectsOnlyTheOdd

LEMMA ConnectionUnderstood ==
    ASSUME n' \in Nat, down' = <<>>, why' = "none",
           \/ pc' = "hello" /\ srv' = SrvStart
           \/ pc' = "closed" /\ srv' = [SrvStart EXCEPT !.at = "gone"]
    PROVE  RejectInv'
<1>1. RejectsOnlyTheOdd' /\ ~srv'.cut
  BY DEF RejectsOnlyTheOdd, SrvStart
<1>2. Understood'
  <2>1. CASE pc' = "closed"
    BY <2>1 DEF Understood
  <2>2. CASE pc' = "hello" /\ srv' = SrvStart
    <3> DEFINE a == [len |-> 1, seq |-> 0, over |-> FALSE]
    <3>1. a \in Stage /\ a.len = 1 /\ ~a.over
      BY DEF Stage
    <3> HIDE DEF a
    <3>2. FlowsTo(n', a, down', a)
      BY <3>1, FlowsNothing
    <3>3. ClientAt(a)'
      BY <2>2, <3>1 DEF ClientAt
    <3>4. srv'.tr = Before(1) /\ srv'.tx = NoAead
      BY <2>2, BeforeFirst DEF SrvStart
    <3>5. ServerAt(a)'
      BY <3>1, <3>4 DEF ServerAt, ServerTx
    <3> QED BY <3>1, <3>2, <3>3, <3>5, GoesOn
  <2> QED BY <2>1, <2>2
<1> QED BY <1>1, <1>2 DEF RejectInv

LEMMA UnderstoodClient ==
    ASSUME TypeInv, AgreeInv, RejectInv, Client
    PROVE  RejectInv'
<1>0. /\ n \in Nat /\ tr \in Seq(Names) /\ tx \in Aeads /\ rx \in Aeads /\ srv \in Servers
      /\ down \in Seq(Record)
  BY DEF TypeInv
<1>a. RejectsOnlyTheOdd /\ Understood /\ ClientOk
  BY DEF RejectInv, AgreeInv
<1>r. ASSUME UNCHANGED <<n, srv>>, down # <<>>, down' = Tail(down), ~srv.odd,
             pc \in {"hello", "handshake", "open"}
      PROVE  \E a, e, b \in Stage :
                /\ ClientAt(a) /\ Emits(n, a, down[1], e)
                /\ FlowsTo(n', e, down', b) /\ ServerAt(b)'
  <2>1. PICK a \in Stage, b \in Stage : ClientAt(a) /\ FlowsTo(n, a, down, b) /\ ServerAt(b)
    BY <1>a, <1>r DEF Understood
  <2>2. PICK e \in Stage : Emits(n, a, down[1], e) /\ FlowsTo(n, e, Tail(down), b)
    BY <1>0, <1>r, <2>1, FlowsRead
  <2>3. ServerAt(b)'
    BY <1>r, <2>1, ServerStays
  <2> QED BY <1>r, <2>1, <2>2, <2>3
<1>1. CASE Open
  <2>1. n' \in Nat
    BY <1>0, <1>1 DEF Open
  <2> QED BY <1>1, <2>1, ConnectionUnderstood DEF Open
<1>2. CASE Close
  BY <1>0, <1>2, ConnectionUnderstood DEF Close, CloseSocket
<1>3. CASE ReadServerHello
  <2>1. UNCHANGED <<n, srv>> /\ down # <<>> /\ down' = Tail(down) /\ pc = "hello"
    BY <1>3 DEF ReadServerHello, Takes
  <2>2. CASE srv.odd
    <3>1. srv'.odd
      BY <2>1, <2>2
    <3> QED BY <3>1 DEF RejectInv, RejectsOnlyTheOdd, Understood
  <2>3. CASE ~srv.odd
    <3>1. PICK a \in Stage, e \in Stage, b \in Stage :
                /\ ClientAt(a) /\ Emits(n, a, down[1], e)
                /\ FlowsTo(n', e, down', b) /\ ServerAt(b)'
      BY <1>r, <2>1, <2>3
    <3>2. ~a.over /\ a.len = 1
      BY <2>1, <3>1 DEF ClientAt, Emits
    <3>3. CASE down[1].type = "ccs" /\ e = a
      <4>1. UNCHANGED <<pc, tr, rx, why>>
        BY <1>3, <3>3 DEF ReadServerHello, Plain
      <4>2. ClientAt(e)'
        BY <2>1, <3>2, <3>3, <4>1 DEF ClientAt
      <4> QED BY <2>1, <3>1, <4>1, <4>2, GoesOn, StaysUnderstood
    <3>4. CASE EmitsHello(a, down[1], e)
      <4>1. down[1].type = "handshake" /\ down[1].msgs = <<Whole("SH")>>
        BY <3>4 DEF EmitsHello, Plain
      <4>2. /\ tr' = Append(tr, "SH") /\ pc' = "handshake" /\ why' = why
            /\ rx' = Aead(Key("server", "hs", tr'))
        BY <1>3, <4>1 DEF ReadServerHello
      <4>3. tr' = Before(2)
        BY <1>a, <2>1, <4>2, BeforeFirst DEF ClientOk
      <4>4. e.len = 2 /\ e.seq = 0 /\ ~e.over
        BY <3>4 DEF EmitsHello
      <4>5. rx' = ServerTx(n, e)
        <5>1. e.len \in 2..4
          BY <4>4
        <5>2. rx' = [valid |-> TRUE, seq |-> e.seq,
                     key |-> [conn |-> n, side |-> "server", phase |-> "hs", from |-> Before(2)]]
          BY <4>2, <4>3, <4>4 DEF Aead, Key
        <5> QED BY <5>1, <5>2, ServerTxIs
      <4>6. ClientAt(e)'
        BY <2>1, <4>2, <4>3, <4>4, <4>5 DEF ClientAt
      <4> QED BY <2>1, <3>1, <4>2, <4>6, GoesOn, StaysUnderstood
    <3>5. CASE EmitsAlert(n, a, down[1], e)
      <4>1. down[1].type = "alert" /\ down[1].msgs = <<>>
        BY <3>2, <3>5 DEF EmitsAlert, Plain
      <4>2. pc' = "leaving" /\ why' = "alert"
        BY <1>3, <4>1 DEF ReadServerHello, Leave
      <4> QED BY <2>1, <4>2, LeavesUnderstood
    <3> QED BY <3>1, <3>2, <3>3, <3>4, <3>5 DEF Emits, EmitsFlight, EmitsData
  <2> QED BY <2>2, <2>3
<1>4. CASE ReadHandshake
  <2>1. UNCHANGED <<n, srv, tx>> /\ down # <<>> /\ down' = Tail(down) /\ pc = "handshake"
    BY <1>4 DEF ReadHandshake, Takes
  <2>2. CASE srv.odd
    <3>1. srv'.odd
      BY <2>1, <2>2
    <3> QED BY <3>1 DEF RejectInv, RejectsOnlyTheOdd, Understood
  <2>3. CASE ~srv.odd
    <3>1. PICK a \in Stage, e \in Stage, b \in Stage :
                /\ ClientAt(a) /\ Emits(n, a, down[1], e)
                /\ FlowsTo(n', e, down', b) /\ ServerAt(b)'
      BY <1>r, <2>1, <2>3
    <3>2. ~a.over /\ a.len \in 2..4 /\ tr = Before(a.len) /\ rx = ServerTx(n, a)
      BY <2>1, <3>1 DEF ClientAt, Emits
    <3>3. CASE down[1].type = "ccs" /\ e = a
      <4>1. UNCHANGED <<pc, tr, rx, why>>
        BY <1>4, <3>3 DEF ReadHandshake
      <4>2. ClientAt(e)'
        BY <2>1, <3>2, <3>3, <4>1 DEF ClientAt
      <4> QED BY <2>1, <3>1, <4>1, <4>2, GoesOn, StaysUnderstood
    <3>4. CASE EmitsFlight(n, a, down[1], e)
      <4> DEFINE msgs == Messages(a.len, e.len)
      <4>1. /\ e.len \in (a.len + 1)..5 /\ ~e.over
            /\ e.seq = IF e.len = 5 THEN 0 ELSE a.seq + 1
            /\ down[1] = Sealed(rx, "handshake", msgs)
        BY <3>2, <3>4 DEF EmitsFlight
      <4>2. /\ TakeMsgs(msgs).ok /\ TakeMsgs(msgs).tr = Before(e.len)
            /\ TakeMsgs(msgs).fin <=> e.len = 5
        BY <3>2, <4>1, MessagesTaken
      <4>3. msgs # <<>> /\ msgs[1].part = "whole"
        <5>1. 1 \in 1..(e.len - a.len) /\ Len(msgs) = e.len - a.len
              /\ \A m \in 1..(e.len - a.len) : msgs[m].part = "whole"
          <6>1. a.len \in 2..4 /\ e.len \in (a.len + 1)..5
            BY <3>2, <4>1
          <6>2. 1 \in 1..(e.len - a.len)
            BY <6>1
          <6> QED BY <6>1, <6>2, MessagesAre
        <5>2. Len(<<>>) = 0
          BY EmptySeq
        <5> HIDE DEF msgs
        <5> QED BY <3>2, <4>1, <5>1, <5>2
      <4>4. /\ down[1].type = "handshake" /\ down[1].msgs = msgs /\ down[1].key = rx.key
            /\ down[1].seq = rx.seq
        BY <4>1 DEF Sealed
      <4>5. rx.valid /\ rx.seq = a.seq
        BY <3>2 DEF ServerTx
      <4> HIDE DEF msgs
      <4>6. Opens(rx, down[1]) /\ ~Misread(msgs)
        BY <4>3, <4>4, <4>5 DEF Opens, Misread
      <4>7. /\ rx' = Advance(rx) /\ tr' = TakeMsgs(msgs).tr /\ why' = why
            /\ pc' = IF TakeMsgs(msgs).fin THEN "finish" ELSE "handshake"
        BY <1>4, <4>2, <4>4, <4>6 DEF ReadHandshake
      <4>8. CASE e.len = 5
        <5>1. pc' = "finish"
          BY <4>2, <4>7, <4>8
        <5>2. ClientAt(e)'
          BY <4>1, <4>8, <5>1 DEF ClientAt
        <5> QED BY <2>1, <3>1, <4>7, <5>2, GoesOn, StaysUnderstood
      <4>9. CASE e.len # 5
        <5>1. pc' = "handshake" /\ tr' = Before(e.len) /\ e.len \in 2..4
          BY <3>2, <4>1, <4>2, <4>7, <4>9
        <5>2. rx' \in Aeads /\ rx'.key = rx.key /\ rx'.seq = a.seq + 1 /\ rx'.valid = TRUE
          BY <1>0, <4>5, <4>7, AdvanceTyped
        <5>3. rx' = [valid |-> TRUE, seq |-> e.seq, key |-> rx.key]
          BY <4>1, <4>9, <5>2 DEF Aeads
        <5>4. rx' = ServerTx(n, e)
          <6>1. rx.key = [conn |-> n, side |-> "server", phase |-> "hs", from |-> Before(2)]
            BY <3>2, ServerTxIs
          <6> QED BY <5>1, <5>3, <6>1, ServerTxIs
        <5>5. ClientAt(e)'
          BY <2>1, <5>1, <5>4 DEF ClientAt
        <5> QED BY <2>1, <3>1, <4>7, <5>5, GoesOn, StaysUnderstood
      <4> QED BY <4>8, <4>9
    <3>5. CASE EmitsAlert(n, a, down[1], e)
      <4>1. down[1] = Sealed(rx, "alert", <<>>) /\ e.over
        BY <3>2, <3>5 DEF EmitsAlert
      <4>2. down[1].type = "alert" /\ down[1].key = rx.key /\ down[1].seq = rx.seq
        BY <4>1 DEF Sealed
      <4>3. rx.valid
        BY <3>2 DEF ServerTx
      <4>4. Opens(rx, down[1])
        BY <4>2, <4>3 DEF Opens
      <4>5. why' = why
        BY <1>4, <4>2, <4>4 DEF ReadHandshake
      <4>6. ClientAt(e)'
        BY <4>1 DEF ClientAt
      <4> QED BY <2>1, <3>1, <4>5, <4>6, GoesOn, StaysUnderstood
    <3>6. a.len # 1 /\ a.len # 5
      BY <3>2
    <3> QED BY <3>1, <3>3, <3>4, <3>5, <3>6 DEF Emits, EmitsHello, EmitsData
  <2> QED BY <2>2, <2>3
<1>5. CASE SendFinished
  <2>0. pc = "finish" /\ UNCHANGED <<n, srv, down, tr>>
    BY <1>5 DEF SendFinished, SealFails
  <2>1. CASE SealFails
    BY <2>0, <2>1, LeavesUnderstood DEF SealFails, Leave
  <2>2. CASE pc' = "open" /\ rx' = AppKeys("server") /\ UNCHANGED why
    <3>1. tr = Full
      BY <1>a, <2>0 DEF ClientOk
    <3>2. CASE srv.odd
      BY <2>0, <2>2, <3>2, StaysUnderstood DEF Understood
    <3>3. CASE ~srv.odd
      <4>1. PICK a \in Stage, b \in Stage : ClientAt(a) /\ FlowsTo(n, a, down, b) /\ ServerAt(b)
        BY <1>a, <2>0, <3>3 DEF Understood
      <4>2. ServerAt(b)' /\ FlowsTo(n', a, down', b)
        BY <2>0, <4>1, ServerStays
      <4>3. ClientAt(a)'
        <5>1. CASE a.over
          BY <5>1 DEF ClientAt
        <5>2. CASE ~a.over
          <6>1. a.len = 5 /\ a.seq = 0
            BY <2>0, <4>1, <5>2 DEF ClientAt
          <6>2. rx' = ServerTx(n, a)
            BY <2>2, <3>1, <6>1 DEF AppKeys, Aead, Key, ServerTx
          <6> QED BY <2>0, <2>2, <6>1, <6>2 DEF ClientAt
        <5> QED BY <5>1, <5>2
      <4> QED BY <2>0, <2>2, <4>2, <4>3, GoesOn, StaysUnderstood
    <3> QED BY <3>2, <3>3
  <2> QED BY <1>5, <2>1, <2>2 DEF SendFinished
<1>6. CASE Request
  <2>1. CASE SealFails
    BY <2>1, LeavesUnderstood DEF SealFails, Leave
  <2>2. CASE UNCHANGED <<pc, n, tr, rx, srv, down, why>>
    BY <2>2 DEF RejectInv, RejectsOnlyTheOdd, Understood, ClientAt, ServerAt
  <2> QED BY <1>6, <2>1, <2>2 DEF Request
<1>7. CASE ReadApp
  <2>1. UNCHANGED <<n, srv, tx, tr>> /\ down # <<>> /\ down' = Tail(down) /\ pc = "open"
    BY <1>7 DEF ReadApp, Takes
  <2>2. CASE srv.odd
    <3>1. srv'.odd
      BY <2>1, <2>2
    <3> QED BY <3>1 DEF RejectInv, RejectsOnlyTheOdd, Understood
  <2>3. CASE ~srv.odd
    <3>1. PICK a \in Stage, e \in Stage, b \in Stage :
                /\ ClientAt(a) /\ Emits(n, a, down[1], e)
                /\ FlowsTo(n', e, down', b) /\ ServerAt(b)'
      BY <1>r, <2>1, <2>3
    <3>2. ~a.over /\ a.len = 5 /\ rx = ServerTx(n, a)
      BY <2>1, <3>1 DEF ClientAt, Emits
    <3>3. CASE down[1].type = "ccs" /\ e = a
      <4>1. UNCHANGED <<pc, rx, why>>
        BY <1>7, <3>3 DEF ReadApp
      <4>2. ClientAt(e)'
        BY <2>1, <3>2, <3>3, <4>1 DEF ClientAt
      <4> QED BY <2>1, <3>1, <4>1, <4>2, GoesOn, StaysUnderstood
    <3>4. rx.valid /\ rx.seq = a.seq
      BY <3>2 DEF ServerTx
    <3>5. CASE EmitsData(n, a, down[1], e)
      <4>1. PICK type \in {"data", "handshake"} : down[1] = Sealed(rx, type, <<>>)
        BY <3>2, <3>5 DEF EmitsData
      <4>2. /\ down[1].type \in {"data", "handshake"} /\ down[1].key = rx.key
            /\ down[1].seq = rx.seq
        BY <4>1 DEF Sealed
      <4>3. Opens(rx, down[1])
        BY <3>4, <4>2 DEF Opens
      <4>4. rx' = Advance(rx) /\ UNCHANGED <<pc, why>>
        BY <1>7, <4>2, <4>3 DEF ReadApp
      <4>5. e.len = 5 /\ e.seq = a.seq + 1 /\ ~e.over
        BY <3>5 DEF EmitsData
      <4>6. rx' \in Aeads /\ rx'.key = rx.key /\ rx'.seq = e.seq /\ rx'.valid = TRUE
        BY <1>0, <3>4, <4>4, <4>5, AdvanceTyped
      <4>7. rx' = [valid |-> TRUE, seq |-> e.seq, key |-> rx.key]
        BY <4>6 DEF Aeads
      <4>8. rx' = ServerTx(n, e)
        <5>1. rx.key = [conn |-> n, side |-> "server", phase |-> "app", from |-> Full]
          BY <3>2 DEF ServerTx
        <5> QED BY <4>5, <4>7, <5>1 DEF ServerTx
      <4>9. ClientAt(e)'
        BY <2>1, <4>4, <4>5, <4>8 DEF ClientAt
      <4> QED BY <2>1, <3>1, <4>4, <4>9, GoesOn, StaysUnderstood
    <3>6. CASE EmitsAlert(n, a, down[1], e)
      <4>1. down[1] = Sealed(rx, "alert", <<>>)
        BY <3>2, <3>6 DEF EmitsAlert
      <4>2. down[1].type = "alert" /\ down[1].key = rx.key /\ down[1].seq = rx.seq
        BY <4>1 DEF Sealed
      <4>3. Opens(rx, down[1])
        BY <3>4, <4>2 DEF Opens
      <4>4. pc' = "leaving" /\ why' = "alert"
        BY <1>7, <4>2, <4>3 DEF ReadApp, Leave
      <4> QED BY <2>1, <4>4, LeavesUnderstood
    <3>7. ~EmitsHello(a, down[1], e) /\ ~EmitsFlight(n, a, down[1], e)
      BY <3>2 DEF EmitsHello, EmitsFlight
    <3> QED BY <3>1, <3>3, <3>5, <3>6, <3>7 DEF Emits
  <2> QED BY <2>2, <2>3
<1>8. CASE ReadFails
  BY <1>8, LeavesUnderstood DEF ReadFails, Leave
<1> QED BY <1>1, <1>2, <1>3, <1>4, <1>5, <1>6, <1>7, <1>8 DEF Client

\* The server sends one more record, and the client does nothing.
LEMMA SendsUnderstood ==
    ASSUME TypeInv, RejectInv, SrvUnchanged, srv'.odd = srv.odd, srv'.cut => srv'.odd,
           NEW r \in Record, down' = Append(down, r),
           ~srv.odd => \A b \in Stage : ServerAt(b) =>
                            \E e \in Stage : Emits(n, b, r, e) /\ ServerAt(e)'
    PROVE  RejectInv'
<1>0. UNCHANGED <<pc, n, tr, rx, why>> /\ down \in Seq(Record)
  BY DEF SrvUnchanged, clientVars, TypeInv
<1>1. RejectsOnlyTheOdd'
  BY <1>0 DEF RejectInv, RejectsOnlyTheOdd
<1>2. Understood'
  <2>1. CASE srv.odd \/ pc \notin {"hello", "handshake", "finish", "open"}
    BY <1>0, <2>1 DEF Understood
  <2>2. CASE ~srv.odd /\ pc \in {"hello", "handshake", "finish", "open"}
    <3>1. PICK a \in Stage, b \in Stage : ClientAt(a) /\ FlowsTo(n, a, down, b) /\ ServerAt(b)
      BY <2>2 DEF RejectInv, Understood
    <3>2. PICK e \in Stage : Emits(n, b, r, e) /\ ServerAt(e)'
      BY <2>2, <3>1
    <3>3. FlowsTo(n, a, Append(down, r), e)
      BY <1>0, <3>1, <3>2, FlowsMore
    <3>4. ClientAt(a)'
      BY <1>0, <3>1 DEF ClientAt
    <3>5. FlowsTo(n', a, down', e)
      BY <1>0, <3>3
    <3> QED BY <3>2, <3>4, <3>5, GoesOn
  <2> QED BY <2>1, <2>2
<1> QED BY <1>1, <1>2 DEF RejectInv

\* A step of the server that sends nothing.
LEMMA SilentUnderstood ==
    ASSUME RejectInv, UNCHANGED <<clientVars, down>>, srv'.odd = srv.odd, srv'.cut = srv.cut,
           srv'.tr = srv.tr, srv'.tx = srv.tx, srv'.at \in {srv.at, "gone"}
    PROVE  RejectInv'
<1>0. UNCHANGED <<pc, n, tr, rx, why, down>>
  BY DEF clientVars
<1>1. ASSUME NEW a \in Stage, NEW b \in Stage, ClientAt(a), FlowsTo(n, a, down, b), ServerAt(b)
      PROVE  ClientAt(a)' /\ FlowsTo(n', a, down', b) /\ ServerAt(b)'
  BY <1>0, <1>1 DEF ClientAt, ServerAt
<1>2. Understood'
  <2>1. CASE srv.odd \/ pc \notin {"hello", "handshake", "finish", "open"}
    BY <1>0, <2>1 DEF Understood
  <2>2. CASE ~srv.odd /\ pc \in {"hello", "handshake", "finish", "open"}
    <3>1. PICK a \in Stage, b \in Stage : ClientAt(a) /\ FlowsTo(n, a, down, b) /\ ServerAt(b)
      BY <2>2 DEF RejectInv, Understood
    <3>2. ClientAt(a)' /\ FlowsTo(n', a, down', b) /\ ServerAt(b)'
      BY <1>1, <3>1
    <3> QED BY <3>2, GoesOn
  <2> QED BY <2>1, <2>2
<1> QED BY <1>0, <1>2 DEF RejectInv, RejectsOnlyTheOdd

\* A step that makes use of what the client does not support.
LEMMA OddUnderstood ==
    ASSUME srv'.odd
    PROVE  RejectInv'
BY DEF RejectInv, RejectsOnlyTheOdd, Understood

LEMMA UnderstoodServer ==
    ASSUME TypeInv, AgreeInv, RejectInv, Server
    PROVE  RejectInv'
<1>0. n \in Nat /\ srv \in Servers /\ down \in Seq(Record) /\ ServerOk
  BY DEF TypeInv, AgreeInv
<1>f. /\ srv.tx \in Aeads /\ srv.odd \in BOOLEAN /\ srv.cut \in BOOLEAN
      /\ (srv.cut => srv.odd)
  BY <1>0 DEF Servers, RejectInv
<1>e. <<>> \in Seq(Message) /\ <<>> \in Seq(Names)
  BY EmptySeq
<1>1. CASE SrvHello
  <2>0. SrvUnchanged /\ srv.at = "hello" /\ n' = n
    BY <1>1 DEF SrvHello, SrvUnchanged, clientVars
  <2>1. CASE srv' = [srv EXCEPT !.at = "gone", !.odd = TRUE]
    <3>1. srv'.odd
      BY <1>0, <2>1 DEF Servers
    <3> QED BY <3>1, OddUnderstood
  <2>2. CASE /\ down' = Append(down, Plain("handshake", <<Whole("SH")>>))
             /\ srv' = [srv EXCEPT !.at = "flight", !.tr = Append(srv.tr, "SH"),
                                   !.tx = Aead(Key("server", "hs", Append(srv.tr, "SH"))),
                                   !.rx = Aead(Key("client", "hs", Append(srv.tr, "SH")))]
    <3>1. srv.tr = Before(1)
      BY <1>0, <2>0 DEF ServerOk, ServerSent
    <3>2. Append(srv.tr, "SH") = Before(2)
      BY <3>1, BeforeFirst
    <3>3. /\ srv'.tr = Before(2) /\ srv'.tx = Aead(Key("server", "hs", Before(2)))
          /\ srv'.odd = srv.odd /\ srv'.cut = srv.cut
      BY <1>0, <2>2, <3>2 DEF Servers
    <3>4. Plain("handshake", <<Whole("SH")>>) \in Record
      <4>1. "SH" \in Names
        BY DEF Names
      <4>2. <<Whole("SH")>> \in Seq(Message)
        BY <1>e, <4>1, MsgTyped, OneTyped
      <4> QED BY <1>f, <4>2, SealedTyped
    <3>5. ASSUME NEW b \in Stage, ServerAt(b)
          PROVE  \E e \in Stage : /\ Emits(n, b, Plain("handshake", <<Whole("SH")>>), e)
                                  /\ ServerAt(e)'
      <4>1. ~b.over /\ Before(b.len) = Before(1)
        BY <2>0, <3>1, <3>5 DEF ServerAt
      <4>2. b.len = 1
        <5>1. b.len \in 0..5 /\ 1 \in 0..5
          BY DEF Stage
        <5> QED BY <4>1, <5>1, BeforeTells
      <4> DEFINE e == [len |-> 2, seq |-> 0, over |-> FALSE]
      <4>3. e \in Stage /\ e.len = 2 /\ e.seq = 0 /\ ~e.over
        BY DEF Stage
      <4> HIDE DEF e
      <4>4. Emits(n, b, Plain("handshake", <<Whole("SH")>>), e)
        BY <4>1, <4>2, <4>3 DEF Emits, EmitsHello
      <4>5. srv'.tx = ServerTx(n, e)
        <5>1. srv'.tx = [valid |-> TRUE, seq |-> e.seq, key |->
                   [conn |-> n, side |-> "server", phase |-> "hs", from |-> Before(2)]]
          BY <3>3, <4>3 DEF Aead, Key
        <5>2. e.len \in 2..4
          BY <4>3
        <5> QED BY <5>1, <5>2, ServerTxIs
      <4>6. ServerAt(e)'
        BY <2>0, <3>3, <4>3, <4>5 DEF ServerAt
      <4> QED BY <4>3, <4>4, <4>6
    <3> QED BY <1>f, <2>0, <2>2, <3>3, <3>4, <3>5, SendsUnderstood
  <2> QED BY <1>1, <2>1, <2>2 DEF SrvHello
<1>2. CASE SrvChangeCipherSpec
  <2>0. SrvUnchanged /\ n' = n /\ srv.at # "gone"
    BY <1>2 DEF SrvChangeCipherSpec, SrvUnchanged, clientVars
  <2>1. Plain("ccs", <<>>) \in Record /\ Plain("ccs", <<>>).type = "ccs"
    <3>1. Plain("ccs", <<>>) \in Record
      BY <1>e, <1>f, SealedTyped
    <3> QED BY <3>1 DEF Plain
  <2>2. /\ srv'.at = srv.at /\ srv'.tr = srv.tr /\ srv'.tx = srv.tx
        /\ srv'.odd = srv.odd /\ srv'.cut = srv.cut
    BY <1>0, <1>2 DEF SrvChangeCipherSpec, Servers
  <2>3. ASSUME NEW b \in Stage, ServerAt(b)
        PROVE  Emits(n, b, Plain("ccs", <<>>), b) /\ ServerAt(b)'
    BY <2>0, <2>1, <2>2, <2>3 DEF ServerAt, Emits
  <2>4. down' = Append(down, Plain("ccs", <<>>))
    BY <1>2 DEF SrvChangeCipherSpec
  <2> QED BY <1>f, <2>0, <2>1, <2>2, <2>3, <2>4, SendsUnderstood
<1>3. CASE SrvFlight
  <2>0. SrvUnchanged /\ srv.at = "flight" /\ n' = n
    BY <1>3 DEF SrvFlight, SrvUnchanged, clientVars
  <2>1. PICK whole \in 0..Len(srv.left), more \in {"no", "short", "part"} :
        /\ whole + (IF more = "no" THEN 0 ELSE 1) \in 1..Len(srv.left)
        /\ srv.cut => whole > 0
        /\ down' = Append(down, Sealed(srv.tx, "handshake", Flight(whole, more)))
        /\ LET t == srv.tr \o SubSeq(srv.left, 1, whole)
               over == whole = Len(srv.left)
           IN  srv' = [srv EXCEPT !.at = IF over THEN "up" ELSE "flight",
                                  !.tr = t,
                                  !.left = SubSeq(@, whole + 1, Len(@)),
                                  !.cut = more # "no",
                                  !.odd = @ \/ more # "no",
                                  !.tx = IF over THEN Aead(Key("server", "app", t))
                                         ELSE Advance(@)]
    BY <1>3 DEF SrvFlight
  <2>2. srv'.odd = (srv.odd \/ more # "no") /\ srv'.cut = (more # "no")
    BY <1>0, <2>1 DEF Servers
  <2>3. CASE srv.odd \/ more # "no"
    BY <2>2, <2>3, OddUnderstood
  <2>4. CASE ~srv.odd /\ more = "no"
    <3>1. PICK k \in 2..4 : ServerSent(k)
      BY <1>0, <2>0 DEF ServerOk
    <3>2. ~srv.cut /\ whole \in 1..Len(srv.left)
      BY <1>f, <2>1, <2>4
    <3>3. /\ Len(srv.left) = 5 - k /\ k + whole \in 2..5
          /\ srv.tr \o SubSeq(srv.left, 1, whole) = Before(k + whole)
          /\ \A m \in 1..whole : Flight(whole, more)[m] =
                IF m = 1 /\ srv.cut THEN Msg(srv.left[1], "rest", <<>>)
                ELSE IF Full[k + m] = "FIN" THEN Msg("FIN", "whole", Before(4))
                ELSE Whole(Full[k + m])
      BY <1>0, <2>1, <3>1, FlightOf
    <3>4. Flight(whole, more) \in Seq(Message) /\ Len(Flight(whole, more)) = whole
      BY <1>0, <2>1, <2>4, FlightIs
    <3>5. k + whole \in (k + 1)..5 /\ (k + whole) - k = whole
      BY <3>2, <3>3
    <3>6. Flight(whole, more) = Messages(k, k + whole)
      <4>1. /\ Messages(k, k + whole) \in Seq(Message) /\ Len(Messages(k, k + whole)) = whole
            /\ \A m \in 1..whole : Messages(k, k + whole)[m] =
                     IF Full[k + m] = "FIN" THEN Msg("FIN", "whole", Before(4))
                     ELSE Whole(Full[k + m])
        BY <3>5, MessagesAre
      <4>2. \A m \in 1..whole : Flight(whole, more)[m] = Messages(k, k + whole)[m]
        BY <3>2, <3>3, <4>1
      <4> QED BY <3>4, <4>1, <4>2, SeqEqual
    <3> DEFINE r == Sealed(srv.tx, "handshake", Messages(k, k + whole))
    <3>7. r \in Record
      BY <1>f, <3>4, <3>6, SealedTyped
    <3>8. /\ srv'.tr = Before(k + whole)
          /\ srv'.tx = IF whole = Len(srv.left) THEN Aead(Key("server", "app", Before(k + whole)))
                       ELSE Advance(srv.tx)
      BY <1>0, <2>1, <3>3 DEF Servers
    <3>9. ASSUME NEW b \in Stage, ServerAt(b)
          PROVE  \E e \in Stage : Emits(n, b, r, e) /\ ServerAt(e)'
      <4>1. ~b.over /\ Before(b.len) = Before(k) /\ srv.tx = ServerTx(n, b)
        BY <2>0, <3>1, <3>9 DEF ServerAt, ServerSent
      <4>2. b.len = k /\ b.seq \in Nat
        <5>1. b.len \in 0..5 /\ k \in 0..5 /\ b.seq \in Nat
          BY DEF Stage
        <5> QED BY <4>1, <5>1, BeforeTells
      <4> DEFINE e == [len |-> k + whole, seq |-> IF k + whole = 5 THEN 0 ELSE b.seq + 1,
                       over |-> FALSE]
      <4>3. /\ e \in Stage /\ e.len = k + whole /\ ~e.over
            /\ e.seq = IF k + whole = 5 THEN 0 ELSE b.seq + 1
        BY <3>5, <4>2 DEF Stage
      <4> HIDE DEF e
      <4>4. EmitsFlight(n, b, r, e)
        BY <3>5, <4>1, <4>2, <4>3 DEF EmitsFlight
      <4>5. srv'.tx = ServerTx(n, e)
        <5>1. CASE whole = Len(srv.left)
          <6>1. k + whole = 5 /\ srv'.tx = Aead(Key("server", "app", Full))
            BY <3>3, <3>8, <5>1, BeforeAll
          <6>2. srv'.tx = [valid |-> TRUE, seq |-> e.seq, key |->
                     [conn |-> n, side |-> "server", phase |-> "app", from |-> Full]]
            BY <4>3, <6>1 DEF Aead, Key
          <6> QED BY <4>3, <6>1, <6>2, ServerTxIs
        <5>2. CASE whole # Len(srv.left)
          <6>1. k + whole # 5 /\ e.len \in 2..4 /\ e.seq = b.seq + 1
            BY <3>3, <4>3, <5>2
          <6>2. srv.tx = [valid |-> TRUE, seq |-> b.seq, key |->
                     [conn |-> n, side |-> "server", phase |-> "hs", from |-> Before(2)]]
            BY <4>1, <4>2, ServerTxIs
          <6>3. /\ srv'.tx \in Aeads /\ srv'.tx.key = srv.tx.key
                /\ srv'.tx.seq = srv.tx.seq + 1 /\ srv'.tx.valid = srv.tx.valid
            BY <1>f, <3>8, <5>2, AdvanceTyped
          <6>4. srv.tx.valid = TRUE /\ srv.tx.seq = b.seq /\ srv.tx.key =
                     [conn |-> n, side |-> "server", phase |-> "hs", from |-> Before(2)]
            BY <6>2
          <6>5. srv'.tx = [valid |-> TRUE, seq |-> e.seq, key |->
                     [conn |-> n, side |-> "server", phase |-> "hs", from |-> Before(2)]]
            BY <6>1, <6>3, <6>4 DEF Aeads
          <6> QED BY <6>1, <6>5, ServerTxIs
        <5> QED BY <5>1, <5>2
      <4>6. ServerAt(e)'
        BY <2>0, <3>8, <4>3, <4>5 DEF ServerAt
      <4>7. Emits(n, b, r, e)
        BY <4>1, <4>4 DEF Emits
      <4> QED BY <4>3, <4>6, <4>7
    <3>10. down' = Append(down, r) /\ srv'.odd = srv.odd /\ (srv'.cut => srv'.odd)
      BY <1>f, <2>1, <2>2, <2>4, <3>6
    <3> HIDE DEF r
    <3> QED BY <2>0, <3>7, <3>9, <3>10, SendsUnderstood
  <2> QED BY <2>3, <2>4
<1>4. CASE SrvRecord
  <2>0. SrvUnchanged /\ srv.at = "up" /\ n' = n
    BY <1>4 DEF SrvRecord, SrvUnchanged, clientVars
  <2>1. PICK type \in {"data", "handshake"} : down' = Append(down, Sealed(srv.tx, type, <<>>))
    BY <1>4 DEF SrvRecord
  <2>2. Sealed(srv.tx, type, <<>>) \in Record
    BY <1>e, <1>f, SealedTyped
  <2>3. /\ srv'.tr = srv.tr /\ srv'.tx = Advance(srv.tx)
        /\ srv'.odd = srv.odd /\ srv'.cut = srv.cut
    BY <1>0, <1>4 DEF SrvRecord, Servers
  <2>4. srv.tr = Before(5)
    BY <1>0, <2>0 DEF ServerOk, ServerSent
  <2>5. ASSUME NEW b \in Stage, ServerAt(b)
        PROVE  \E e \in Stage : Emits(n, b, Sealed(srv.tx, type, <<>>), e) /\ ServerAt(e)'
    <3>1. ~b.over /\ Before(b.len) = Before(5) /\ srv.tx = ServerTx(n, b)
      BY <2>0, <2>4, <2>5 DEF ServerAt
    <3>2. b.len = 5 /\ b.seq \in Nat
      <4>1. b.len \in 0..5 /\ 5 \in 0..5 /\ b.seq \in Nat
        BY DEF Stage
      <4> QED BY <3>1, <4>1, BeforeTells
    <3> DEFINE e == [len |-> 5, seq |-> b.seq + 1, over |-> FALSE]
    <3>3. e \in Stage /\ e.len = 5 /\ ~e.over /\ e.seq = b.seq + 1
      BY <3>2 DEF Stage
    <3> HIDE DEF e
    <3>4. EmitsData(n, b, Sealed(srv.tx, type, <<>>), e)
      BY <3>1, <3>2, <3>3 DEF EmitsData
    <3>5. srv'.tx = ServerTx(n, e)
      <4>1. srv.tx = [valid |-> TRUE, seq |-> b.seq, key |->
                 [conn |-> n, side |-> "server", phase |-> "app", from |-> Full]]
        BY <3>1, <3>2, ServerTxIs
      <4>2. srv.tx.valid = TRUE /\ srv.tx.seq = b.seq /\ srv.tx.key =
                 [conn |-> n, side |-> "server", phase |-> "app", from |-> Full]
        BY <4>1
      <4>3. /\ srv'.tx \in Aeads /\ srv'.tx.key = srv.tx.key
            /\ srv'.tx.seq = srv.tx.seq + 1 /\ srv'.tx.valid = srv.tx.valid
        BY <1>f, <2>3, AdvanceTyped
      <4>4. srv'.tx = [valid |-> TRUE, seq |-> e.seq, key |->
                 [conn |-> n, side |-> "server", phase |-> "app", from |-> Full]]
        BY <3>3, <4>2, <4>3 DEF Aeads
      <4> QED BY <3>3, <4>4, ServerTxIs
    <3>6. ServerAt(e)'
      BY <2>0, <2>3, <2>4, <3>3, <3>5 DEF ServerAt
    <3>7. Emits(n, b, Sealed(srv.tx, type, <<>>), e)
      BY <3>1, <3>4 DEF Emits
    <3> QED BY <3>3, <3>6, <3>7
  <2> QED BY <1>f, <2>0, <2>1, <2>2, <2>3, <2>5, SendsUnderstood
<1>5. CASE SrvKeyUpdate
  <2>1. srv'.odd
    BY <1>0, <1>5 DEF SrvKeyUpdate, Servers
  <2> QED BY <2>1, OddUnderstood
<1>6. CASE SrvStops
  <2> DEFINE r == IF srv.tx.valid THEN Sealed(srv.tx, "alert", <<>>) ELSE Plain("alert", <<>>)
  <2>0. SrvUnchanged /\ srv.at # "gone" /\ n' = n
    BY <1>6 DEF SrvStops, SrvUnchanged, clientVars
  <2>1. r \in Record
    BY <1>e, <1>f, SealedTyped
  <2>2. /\ srv'.at = "gone" /\ srv'.tr = srv.tr /\ srv'.tx = srv.tx
        /\ srv'.odd = srv.odd /\ srv'.cut = srv.cut
    BY <1>0, <1>6 DEF SrvStops, Servers
  <2>3. ASSUME NEW b \in Stage, ServerAt(b)
        PROVE  \E e \in Stage : Emits(n, b, r, e) /\ ServerAt(e)'
    <3>1. ~b.over /\ srv.tx = ServerTx(n, b)
      BY <2>0, <2>3 DEF ServerAt
    <3>2. srv.tx.valid <=> b.len # 1
      BY <3>1 DEF ServerTx, NoAead
    <3> DEFINE e == [b EXCEPT !.over = TRUE]
    <3>3. e \in Stage /\ e.over
      BY DEF Stage
    <3> HIDE DEF e
    <3>4. EmitsAlert(n, b, r, e)
      BY <3>1, <3>2, <3>3 DEF EmitsAlert
    <3>5. Emits(n, b, r, e)
      BY <3>1, <3>4 DEF Emits
    <3>6. ServerAt(e)'
      BY <2>2 DEF ServerAt
    <3> QED BY <3>3, <3>5, <3>6
  <2>4. down' = down \o <<>> \/ down' = down \o <<r>>
    BY <1>6 DEF SrvStops
  <2> HIDE DEF r
  <2>5. down' = down \/ down' = Append(down, r)
    BY <1>0, <2>1, <2>4, ConcatEmptySeq, AppendIsConcat
  <2>6. CASE down' = down
    BY <2>0, <2>2, <2>6, SilentUnderstood DEF SrvUnchanged
  <2>7. CASE down' = Append(down, r)
    BY <1>f, <2>0, <2>1, <2>2, <2>3, <2>7, SendsUnderstood
  <2> QED BY <2>5, <2>6, <2>7
<1>7. CASE SrvTakes
  <2>1. UNCHANGED <<clientVars, down>>
    BY <1>7 DEF SrvTakes
  <2>2. /\ srv'.odd = srv.odd /\ srv'.cut = srv.cut /\ srv'.tr = srv.tr /\ srv'.tx = srv.tx
        /\ srv'.at \in {srv.at, "gone"}
    <3>1. CASE srv' = [srv EXCEPT !.refuses = TRUE, !.at = "gone"]
      BY <1>0, <3>1 DEF Servers
    <3>2. CASE srv' = [srv EXCEPT !.finished = TRUE,
                                  !.rx = IF srv.finished THEN Advance(srv.rx)
                                         ELSE Aead(Key("client", "app", srv.tr)),
                                  !.got = IF srv.finished THEN srv.got + 1 ELSE srv.got]
      BY <1>0, <3>2 DEF Servers
    <3> QED BY <1>7, <3>1, <3>2 DEF SrvTakes
  <2> QED BY <2>1, <2>2, SilentUnderstood
<1> QED BY <1>1, <1>2, <1>3, <1>4, <1>5, <1>6, <1>7 DEF Server

\* The client breaks with a server only when that does what the client does not
\* support: whatever the server sends between the messages it must send, however
\* it packs them into records, and however early its data come, the client is at
\* the same place of the same stream.
THEOREM OnlyTheOddIsRejected == Spec => []RejectsOnlyTheOdd
<1>1. Init => RejectInv
  BY DEF Init, RejectInv, RejectsOnlyTheOdd, Understood, SrvStart
<1>2. TypeInv /\ AgreeInv /\ RejectInv /\ [Next]_vars => RejectInv'
  <2> SUFFICES ASSUME TypeInv, AgreeInv, RejectInv, [Next]_vars PROVE RejectInv'
    OBVIOUS
  <2>1. CASE UNCHANGED vars
    <3>1. UNCHANGED <<pc, n, tr, rx, why, down, srv>>
      BY <2>1 DEF vars, clientVars
    <3> QED BY <3>1 DEF RejectInv, RejectsOnlyTheOdd, Understood, ClientAt, ServerAt
  <2> QED BY <2>1, UnderstoodClient, UnderstoodServer DEF Next
<1>3. RejectInv => RejectsOnlyTheOdd
  BY DEF RejectInv
<1> QED BY <1>1, <1>2, <1>3, TypedAlways, AgreedAlways, PTL DEF Spec
=============================================================================
