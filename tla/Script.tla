------------------------------- MODULE Script -------------------------------
(***************************************************************************)
(* What a script keeps in LuaState (engine/ctx.rs) while it runs in the    *)
(* sandbox: its last error, sockets, websockets and mqtt connections, http *)
(* sessions with their cookies and http clients, and what the functions of *)
(* sn0int-std (sockets, websockets, mqtt, web) do with them.  The script   *)
(* is any sequence of calls; the peers send and close when they like.      *)
(* What a peer sends is a sequence of items: bytes on a socket, messages   *)
(* on a websocket, the type and the rest of each packet on an mqtt         *)
(* connection.                                                             *)
(***************************************************************************)
EXTENDS Integers, Sequences, FiniteSets

CONSTANTS
  Bytes,      \* bytes of sockets
  Delims,     \* arguments of sock_recvuntil, the newlines among them
  Counts,     \* arguments of sock_recvn
  Kinds,      \* "tcp", "tls", "ws" and "mqtt"
  Proxies,    \* proxy options
  MaxCalls,   \* bound: calls of the script
  MaxItems,   \* bound: bytes, messages or packets of a peer
  MaxConnections, \* bound: connections
  MaxSessions,    \* bound: http sessions
  None

ASSUME ScriptAssumption ==
  /\ Delims \subseteq Seq(Bytes) \ {<<>>} /\ Counts \subseteq Nat
  /\ Kinds \subseteq {"tcp", "tls", "ws", "mqtt"}
  /\ None \notin Proxies \cup {"tcp", "tls", "http", "ok", "failed", "panic"}
  /\ MaxCalls \in Nat /\ MaxItems \in Nat /\ MaxConnections \in Nat /\ MaxSessions \in Nat

VARIABLES
  err,      \* LuaState.error: whether there is one
  proxy,    \* LuaState.proxy, from the configuration
  sess,     \* the connections, in the order they were made
  call,     \* the call under way, on a socket
  calls,    \* calls so far
  jars,     \* http_sessions: the cookies of each one
  reqs,     \* the requests the script has made and not sent
  clients,  \* http_clients: the proxy each client was made with
  end,      \* None, "ok", "failed" or "panic"
  cleared,  \* observation: the script has called clear_err
  route     \* observation: the last connection, its wanted and used proxies

web == <<jars, reqs, clients>>
vars == <<err, proxy, sess, call, calls, web, end, cleared, route>>

NoCall == [op |-> "none", s |-> 0]
NoRoute == [kind |-> None, wanted |-> None, used |-> None]

Init ==
  /\ err = FALSE /\ cleared = FALSE /\ end = None
  /\ proxy \in Proxies \cup {None}
  /\ sess = <<>> /\ call = NoCall /\ calls = 0
  /\ jars = <<>> /\ reqs = {} /\ clients = [x \in {} |-> None]
  /\ route = NoRoute

(* The script calls a function.                                             *)
Call ==
  /\ end = None /\ call = NoCall /\ calls < MaxCalls
  /\ calls' = calls + 1

(* map_err(|err| state.set_error(err)): the script gets nil and goes on.    *)
SetError == err' = TRUE

ClearErr ==
  /\ Call
  /\ err' = FALSE /\ cleared' = TRUE
  /\ UNCHANGED <<proxy, sess, call, web, end, route>>

SetErr ==
  /\ Call /\ SetError
  /\ UNCHANGED <<proxy, sess, call, web, end, cleared, route>>

(* Script::run: an error that was not cleared, or a string, is a failure.   *)
Return(text) == end' = IF err \/ text THEN "failed" ELSE "ok"

Finish ==
  /\ end = None /\ call = NoCall
  /\ \E text \in BOOLEAN : Return(text)
  /\ UNCHANGED <<err, proxy, sess, call, calls, web, cleared, route>>

-----------------------------------------------------------------------------
(* Connections *)

Refused == "refused"

(* resolve_proxy_options *)
ResolveProxy(option) ==
  IF proxy = None THEN option
  ELSE IF option \in {None, proxy} THEN proxy ELSE Refused

(* sent, got, lost and told are observations: what the peer has sent, what  *)
(* the script was given, why something is missing that the script was not   *)
(* told of, and whether it was told of an error.                            *)
NewSession(kind, timeout) ==
  [kind |-> kind, wire |-> <<>>, buf |-> <<>>, closed |-> FALSE, timeout |-> timeout, open |-> TRUE,
   sent |-> <<>>, got |-> <<>>, lost |-> {}, told |-> FALSE]

Socket(kind) == kind \in {"tcp", "tls"}

(* sock_connect goes through the proxy; ws_connect and mqtt_connect do not  *)
(* look at it.                                                              *)
Route(kind, option) == IF Socket(kind) THEN ResolveProxy(option) ELSE None

(* A connection through a proxy does not get the timeouts.                  *)
Connect(kind, option) ==
  /\ Call
  /\ LET via == Route(kind, option) IN
     \/ SetError /\ UNCHANGED <<sess, route>>
     \/ /\ via # Refused /\ Len(sess) < MaxConnections
        /\ \E timeout \in IF via = None THEN BOOLEAN ELSE {FALSE} :
             sess' = Append(sess, NewSession(kind, timeout))
        /\ route' = [kind |-> kind, wanted |-> option, used |-> via]
        /\ UNCHANGED err
  /\ UNCHANGED <<proxy, call, web, end, cleared>>

(* get_sock, get_ws and get_mqtt panic on a handle that is gone.            *)
Panic(s) ==
  /\ Call /\ ~sess[s].open
  /\ end' = "panic"
  /\ UNCHANGED <<err, proxy, sess, call, web, cleared, route>>

On(s, new) == sess' = [sess EXCEPT ![s] = new]
Told(r) == [r EXCEPT !.told = TRUE]
Usable(s) == Call /\ sess[s].open

(* sock_upgrade_tls: the socket is taken out of the table first, and when   *)
(* it is no tcp socket or the handshake fails, as it does on bytes that are *)
(* still to be read, it is gone.  into_inner drops what was buffered.       *)
Upgrade(s) ==
  /\ Usable(s) /\ Socket(sess[s].kind)
  /\ \/ SetError /\ On(s, Told([sess[s] EXCEPT !.open = FALSE]))
     \/ /\ sess[s].kind = "tcp" /\ sess[s].wire = <<>> /\ ~sess[s].closed
        /\ On(s, [sess[s] EXCEPT !.kind = "tls", !.buf = <<>>,
                    !.lost = IF sess[s].buf = <<>> THEN @ ELSE @ \cup {"upgrade"}])
        /\ UNCHANGED err
  /\ UNCHANGED <<proxy, call, web, end, cleared, route>>

(* sock_options and ws_options can set a timeout, not take it back.         *)
Options(s) ==
  /\ Usable(s) /\ sess[s].kind # "mqtt"
  /\ On(s, [sess[s] EXCEPT !.timeout = TRUE])
  /\ UNCHANGED <<err, proxy, call, web, end, cleared, route>>

(* A send can only fail; the peers are not modelled further.                *)
SendFails(s) ==
  /\ Usable(s)
  /\ SetError
  /\ UNCHANGED <<proxy, sess, call, web, end, cleared, route>>

-----------------------------------------------------------------------------
(* Peers *)

Types == {"publish", "suback"}
InPacket(r) == r.sent # <<>> /\ r.sent[Len(r.sent)] # "rest"
Items(r) == CASE r.kind = "ws" -> {"text", "binary", "ping"}
              [] r.kind = "mqtt" -> IF InPacket(r) THEN {"rest"} ELSE Types
              [] OTHER -> Bytes

PeerSends(s, x) ==
  /\ end = None /\ sess[s].open /\ ~sess[s].closed
  /\ Len(sess[s].sent) < IF sess[s].kind = "mqtt" THEN 2 * MaxItems ELSE MaxItems
  /\ On(s, [sess[s] EXCEPT !.wire = Append(@, x), !.sent = Append(@, x)])
  /\ UNCHANGED <<err, proxy, call, calls, web, end, cleared, route>>

PeerCloses(s) ==
  /\ end = None /\ sess[s].open /\ ~sess[s].closed
  /\ On(s, [sess[s] EXCEPT !.closed = TRUE])
  /\ UNCHANGED <<err, proxy, call, calls, web, end, cleared, route>>

-----------------------------------------------------------------------------
(* Reading from sockets *)

Begin(s, op, delim, n) ==
  /\ Usable(s) /\ Socket(sess[s].kind)
  /\ call' = [op |-> op, s |-> s, delim |-> delim, n |-> n, acc |-> <<>>, cuts |-> {}]
  /\ UNCHANGED <<err, proxy, sess, web, end, cleared, route>>

(* BufStream::fill_buf with an empty buffer: some of what has arrived.      *)
Fill ==
  /\ call # NoCall
  /\ LET r == sess[call.s] IN
     /\ r.buf = <<>> /\ r.wire # <<>>
     /\ \E n \in 1 .. Len(r.wire) :
          On(call.s, [r EXCEPT !.buf = SubSeq(r.wire, 1, n),
                               !.wire = SubSeq(r.wire, n + 1, Len(r.wire))])
  /\ UNCHANGED <<err, proxy, call, calls, web, end, cleared, route>>

Buffered == call # NoCall /\ sess[call.s].buf # <<>>
Eof == call # NoCall /\ sess[call.s].buf = <<>> /\ sess[call.s].wire = <<>> /\ sess[call.s].closed
WouldBlock == /\ call # NoCall /\ sess[call.s].buf = <<>> /\ sess[call.s].wire = <<>>
              /\ ~sess[call.s].closed /\ sess[call.s].timeout

At(seq, i, delim) == SubSeq(seq, i, i + Len(delim) - 1) = delim
Places(seq, delim) == {i \in 1 .. Len(seq) - Len(delim) + 1 : At(seq, i, delim)}

(* The bytes a read takes out of the buffer.                                *)
FirstPlace(P) == CHOOSE i \in P : \A j \in P : i <= j
(* recvuntil looks for the delimiter in the buffer of this one read.        *)
Used == LET P == Places(sess[call.s].buf, call.delim) IN
        IF P = {} THEN Len(sess[call.s].buf) ELSE FirstPlace(P) + Len(call.delim) - 1

MutConsume(n) == SubSeq(sess[call.s].buf, n + 2, Len(sess[call.s].buf))
(* stream.consume *)
Consume(n) == SubSeq(sess[call.s].buf, n + 1, Len(sess[call.s].buf))

Taken(n) == call.acc \o SubSeq(sess[call.s].buf, 1, n)

(* The call fails: what it had read so far is gone.                         *)
Fails(buf) ==
  /\ SetError
  /\ On(call.s, Told([sess[call.s] EXCEPT !.buf = buf]))
  /\ call' = NoCall

(* The call returns what it has read.  sock_recvline decodes it, which can  *)
(* fail; sock_recvline_contains and sock_recvline_regex throw a line away   *)
(* that does not match and read the next one.                               *)
Deliver(data, buf) ==
  \/ /\ On(call.s, [sess[call.s] EXCEPT !.buf = buf, !.got = @ \o data])
     /\ \/ call' = NoCall
        \/ call.op = "line" /\ call' = [call EXCEPT !.acc = <<>>, !.cuts = {}]
     /\ UNCHANGED err
  \/ call.op = "line" /\ data # <<>> /\ Fails(buf)

(* sock_recv, sock_recvuntil, sock_recvline, sock_recvline_contains, regex, *)
(* sock_sendafter, sock_recvn and sock_recvall, one buffer at a time.       *)
Read ==
  /\ Buffered
  /\ LET n == CASE call.op \in {"until", "line"} -> Used
                [] call.op = "n" /\ call.n < Len(sess[call.s].buf) + Len(call.acc) -> call.n - Len(call.acc)
                [] OTHER -> Len(sess[call.s].buf)
         done == CASE call.op \in {"until", "line"} -> Places(sess[call.s].buf, call.delim) # {}
                   [] call.op = "n" -> Len(call.acc) + n >= call.n
                   [] OTHER -> call.op = "recv"
     IN  IF done
         THEN Deliver(Taken(n), Consume(n))
         ELSE /\ On(call.s, [sess[call.s] EXCEPT !.buf = Consume(n)])
              /\ call' = [call EXCEPT !.acc = Taken(n), !.cuts = @ \cup {Len(Taken(n))}]
              /\ UNCHANGED err
  /\ UNCHANGED <<proxy, calls, web, end, cleared, route>>

MutAtEof == call.op \in {"until", "line"} /\ UNCHANGED <<err, sess, call>>
(* recv and recvn fail; recvuntil and recvall return what there is.         *)
AtEof ==
  \/ call.op \in {"recv", "n"} /\ Fails(<<>>)
  \/ /\ call.op \in {"until", "line", "all"}
     /\ Deliver(call.acc, <<>>)

ReadEof ==
  /\ Eof
  /\ AtEof
  /\ UNCHANGED <<proxy, calls, web, end, cleared, route>>

(* The read timeout: recv returns nothing, and so does recvuntil, which     *)
(* forgets what it has read.                                                *)
ReadTimeout ==
  /\ WouldBlock
  /\ \/ call.op \in {"n", "all"} /\ Fails(<<>>)
     \/ /\ call.op \in {"recv", "until", "line"}
        /\ On(call.s, [sess[call.s] EXCEPT
                          !.lost = IF call.acc = <<>> THEN @ ELSE @ \cup {"timeout"}])
        /\ call' = IF call.op = "line" THEN [call EXCEPT !.acc = <<>>, !.cuts = {}] ELSE NoCall
        /\ UNCHANGED err
  /\ UNCHANGED <<proxy, calls, web, end, cleared, route>>

-----------------------------------------------------------------------------
(* Messages: ws_recv_text and ws_recv_binary.                               *)

(* Pings are answered on the way; a message of another type is an error and *)
(* is dropped; one that has arrived in part is kept by the library.         *)
ReadMessage(s, op) ==
  /\ Usable(s) /\ sess[s].kind = "ws"
  /\ LET r == sess[s]
         pings == {i \in 1 .. Len(r.wire) : \A j \in 1 .. i : r.wire[j] = "ping"}
         rest == SubSeq(r.wire, Cardinality(pings) + 1, Len(r.wire))
         skipped == r.got \o SubSeq(r.wire, 1, Cardinality(pings))
     IN  \/ /\ rest # <<>> /\ Head(rest) = op
            /\ On(s, [r EXCEPT !.wire = Tail(rest), !.got = Append(skipped, Head(rest))])
            /\ UNCHANGED err
         \/ /\ rest # <<>> /\ Head(rest) # op
            /\ On(s, Told([r EXCEPT !.wire = Tail(rest), !.got = skipped]))
            /\ SetError
         \/ /\ rest = <<>> /\ (r.closed \/ r.timeout)
            /\ On(s, [r EXCEPT !.wire = <<>>, !.got = skipped])
            /\ IF r.closed THEN SetError ELSE UNCHANGED err
  /\ UNCHANGED <<proxy, call, web, end, cleared, route>>

(* Packets: mqtt_recv and mqtt_subscribe read them from the bare stream.    *)
Wants == [recv |-> "publish", subscribe |-> "suback"]

(* A packet that is there whole; one of another type is an error.           *)
WholePacket(s, op) ==
  LET r == sess[s]
      after == SubSeq(r.wire, 3, Len(r.wire))
  IN  /\ Len(r.wire) >= 2 /\ r.wire[1] # "rest" /\ r.wire[2] = "rest"
      /\ IF r.wire[1] = Wants[op]
         THEN /\ On(s, [r EXCEPT !.wire = after, !.got = @ \o SubSeq(r.wire, 1, 2)])
              /\ UNCHANGED err
         ELSE On(s, Told([r EXCEPT !.wire = after])) /\ SetError

(* Nothing more comes.  A timeout before a packet, or in its fixed header,  *)
(* is nil to mqtt_recv, and what was read of the header is gone; one in the *)
(* body, any to mqtt_subscribe, and the end of the stream are errors.       *)
NoPacket(s, op) ==
  LET r == sess[s]
      part == r.wire # <<>>
  IN  /\ Len(r.wire) < 2 /\ ~(part /\ r.wire[1] = "rest")
      /\ r.closed \/ r.timeout
      /\ \/ /\ r.closed \/ op = "subscribe" \/ part
            /\ On(s, [r EXCEPT !.wire = <<>>, !.told = @ \/ part])
            /\ SetError
         \/ /\ ~r.closed /\ op = "recv"
            /\ On(s, [r EXCEPT !.wire = <<>>, !.lost = IF part THEN @ \cup {"timeout"} ELSE @])
            /\ UNCHANGED err

(* The rest of a packet whose type is gone is taken for packets of its own. *)
OutOfStep(s) ==
  LET r == sess[s] IN
  /\ r.wire # <<>> /\ r.wire[1] = "rest"
  /\ \E n \in 1 .. Len(r.wire) : On(s, [r EXCEPT !.wire = SubSeq(r.wire, n + 1, Len(r.wire))])
  /\ SetError \/ UNCHANGED err

RecvPacket(s, op) ==
  /\ Usable(s) /\ sess[s].kind = "mqtt"
  /\ WholePacket(s, op) \/ NoPacket(s, op) \/ OutOfStep(s)
  /\ UNCHANGED <<proxy, call, web, end, cleared, route>>

-----------------------------------------------------------------------------
(* http: a cookie is stood for by the session whose answer it came with.    *)

MakeSession ==
  /\ Call /\ Len(jars) < MaxSessions
  /\ jars' = Append(jars, {})
  /\ UNCHANGED <<err, proxy, sess, call, reqs, clients, end, cleared, route>>

(* http_request copies the cookies of the session.                          *)
MakeRequest(j, option) ==
  /\ Call
  /\ reqs' = reqs \cup {[session |-> j, cookies |-> jars[j], option |-> option]}
  /\ UNCHANGED <<err, proxy, sess, call, jars, clients, end, cleared, route>>

RegisterInJar(j) == jars' = [jars EXCEPT ![j] = @ \cup {j}]

MutClientKey(via) == None
(* WebState::http keeps one client for each proxy.                          *)
ClientKey(via) == via

Via(k, via) == IF k \in DOMAIN clients THEN clients[k] ELSE via

(* http_fetch and http_fetch_json: an answer with another status, or one    *)
(* that does not parse, is an error.                                        *)
Fetched == SetError \/ UNCHANGED err

(* http_send and what is built on it: cookies are kept, also those of an    *)
(* answer that fetch reports as an error.                                   *)
SendRequest(r) ==
  /\ Call
  /\ reqs' = reqs \ {r}
  /\ LET via == ResolveProxy(r.option)
         k == ClientKey(via)
     IN  \/ SetError /\ UNCHANGED <<jars, clients, route>>
         \/ /\ via # Refused
            /\ clients' = [x \in DOMAIN clients \cup {k} |-> Via(x, via)]
            /\ route' = [kind |-> "http", wanted |-> r.option, used |-> Via(k, via)]
            /\ RegisterInJar(r.session) \/ UNCHANGED jars
            /\ Fetched
  /\ UNCHANGED <<proxy, sess, call, end, cleared>>

-----------------------------------------------------------------------------
Step == Fill \/ Read \/ ReadEof \/ ReadTimeout

Next ==
  \/ ClearErr \/ SetErr \/ Finish \/ Step \/ MakeSession
  \/ \E kind \in Kinds, o \in Proxies \cup {None} : Connect(kind, o)
  \/ \E s \in DOMAIN sess :
       \/ Panic(s) \/ Upgrade(s) \/ Options(s) \/ SendFails(s) \/ PeerCloses(s)
       \/ \E x \in Items(sess[s]) : PeerSends(s, x)
       \/ Begin(s, "recv", <<>>, 0) \/ Begin(s, "all", <<>>, 0)
       \/ \E d \in Delims : Begin(s, "until", d, 0) \/ Begin(s, "line", d, 0)
       \/ \E n \in Counts : Begin(s, "n", <<>>, n)
       \/ \E op \in {"text", "binary"} : ReadMessage(s, op)
       \/ \E op \in {"recv", "subscribe"} : RecvPacket(s, op)
  \/ \E j \in DOMAIN jars, o \in Proxies \cup {None} : MakeRequest(j, o)
  \/ \E r \in reqs : SendRequest(r)

Spec == Init /\ [][Next]_vars /\ WF_vars(Step)

-----------------------------------------------------------------------------
(* What a peer sends reaches the script complete and in order, whatever     *)
(* calls it mixes on a connection and however the network cuts the stream,  *)
(* unless a call has failed, and then the script cannot end well without    *)
(* having cleared the error, or in one of two ways the script is not told   *)
(* of: on a socket or mqtt connection with a read timeout, a read that      *)
(* timed out in the middle, and on a socket that was upgraded to tls, bytes *)
(* that were in the buffer then.  A websocket loses nothing unnoticed.      *)
LossesAreKnown ==
  /\ \A s \in DOMAIN sess : LET r == sess[s] IN
       /\ \/ r.got \o (IF call.s = s THEN call.acc ELSE <<>>) \o r.buf \o r.wire = r.sent
          \/ r.lost # {} \/ r.told
       /\ "timeout" \in r.lost => r.timeout /\ r.kind # "ws"
       /\ "upgrade" \in r.lost => r.kind = "tls"
  /\ end = "ok" /\ ~cleared => \A s \in DOMAIN sess : ~sess[s].told

(* recvuntil ends with the delimiter, and stops at the first one of the     *)
(* stream, except one that two reads of the stream have cut in two.         *)
StopsAtFirst ==
  [][Buffered /\ call.op \in {"until", "line"} /\ sess'[call.s].got # sess[call.s].got =>
       LET data == SubSeq(sess'[call.s].got, Len(sess[call.s].got) + 1, Len(sess'[call.s].got))
           last == Len(data) - Len(call.delim) + 1
       IN  /\ last \in Places(data, call.delim)
           /\ \A i \in Places(data, call.delim) \ {last} :
                \E c \in call.cuts : i <= c /\ c < i + Len(call.delim) - 1]_vars

(* A call on a socket whose peer has closed returns, except                 *)
(* recvline_contains and recvline_regex, which read their lines for ever.   *)
ClosedSocketsReturn ==
  (call # NoCall /\ call.op # "line" /\ sess[call.s].closed) ~> (call = NoCall)

(* Requests of one script do not get into each other's way.  A socket or    *)
(* http connection goes through the configured proxy, or else through the   *)
(* one this very call asked for, whatever other proxies earlier requests    *)
(* have used; a request only carries cookies its own session was sent.      *)
RequestsStayApart ==
  /\ route.kind \in {"tcp", "tls", "http"} =>
       route.used = IF proxy # None THEN proxy ELSE route.wanted
  /\ \A r \in reqs : r.cookies \subseteq {r.session}
=============================================================================
