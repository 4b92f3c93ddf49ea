---------------------------- MODULE ScriptProofs ----------------------------
(***************************************************************************)
(* Proofs about the connections and requests of a script (Script) for any  *)
(* bytes, delimiters, proxies and numbers of calls, items, connections and *)
(* sessions.                                                               *)
(***************************************************************************)
EXTENDS Script, SequenceTheorems, FiniteSetTheorems, TLAPS

-----------------------------------------------------------------------------
(* Sequences.                                                               *)

(* A sequence is what comes before a place and what comes after.            *)
LEMMA Split ==
  ASSUME NEW S, NEW c \in Seq(S), NEW n \in 0 .. Len(c)
  PROVE  /\ SubSeq(c, 1, n) \in Seq(S) /\ Len(SubSeq(c, 1, n)) = n
         /\ SubSeq(c, n + 1, Len(c)) \in Seq(S)
         /\ SubSeq(c, 1, n) \o SubSeq(c, n + 1, Len(c)) = c
<1>1. Len(c) \in Nat /\ \A i \in 1 .. Len(c) : c[i] \in S
  BY LenProperties
<1>2. SubSeq(c, 1, n) \in Seq(S) /\ Len(SubSeq(c, 1, n)) = n
  BY <1>1, SubSeqProperties
<1>3. SubSeq(c, n + 1, Len(c)) \in Seq(S)
  BY <1>1, SubSeqProperties
<1>4. SubSeq(c, 1, n) \o SubSeq(c, n + 1, Len(c)) = SubSeq(c, 1, Len(c))
  <2>1. 1 \in 1 .. Len(c) + 1 /\ n \in 1 - 1 .. Len(c) /\ Len(c) \in n .. Len(c)
    BY <1>1
  <2> QED
    BY <2>1, ConcatAdjacentSubSeq
<1> QED
  BY <1>2, <1>3, <1>4, SubSeqFull

(* What travels on a connection.                                            *)
Item == Bytes \cup {"text", "binary", "ping", "publish", "suback", "rest"}
Stream == Seq(Item)

(* Putting streams together.                                                *)
LEMMA Closed == \A a, b \in Stream : a \o b \in Stream
BY ConcatProperties DEF Stream

(* Nothing before or after a stream changes it.                             *)
LEMMA Unit == \A a \in Stream : a \o <<>> = a /\ <<>> \o a = a
BY ConcatEmptySeq DEF Stream

(* Streams can be joined in any order of the joins.                         *)
LEMMA Assoc == \A a, b, c \in Stream : (a \o b) \o c = a \o (b \o c)
<1> TAKE a \in Stream
<1> TAKE b \in Stream
<1> TAKE c \in Stream
<1> QED
  BY ConcatAssociative DEF Stream

(* A stream cut in two is the two parts, joined.                            *)
LEMMA Cut ==
  ASSUME NEW c \in Stream, NEW k \in 0 .. Len(c)
  PROVE  \E x, y \in Stream : /\ x = SubSeq(c, 1, k) /\ y = SubSeq(c, k + 1, Len(c))
                              /\ x \o y = c /\ Len(x) = k
<1>1. /\ SubSeq(c, 1, k) \in Stream /\ Len(SubSeq(c, 1, k)) = k
      /\ SubSeq(c, k + 1, Len(c)) \in Stream
      /\ SubSeq(c, 1, k) \o SubSeq(c, k + 1, Len(c)) = c
  BY Split DEF Stream
<1> QED
  BY <1>1, Zenon

(* What a peer sends goes to the end of the wire and of the stream.         *)
LEMMA BytesArrive ==
  ASSUME NEW g \in Stream, NEW w \in Stream, NEW e \in Item
  PROVE  g \o Append(w, e) = Append(g \o w, e)
<1>1. g \o w \in Stream /\ <<e>> \in Stream
  BY Closed DEF Stream
<1>2. Append(w, e) = w \o <<e>> /\ Append(g \o w, e) = (g \o w) \o <<e>>
  BY <1>1, AppendIsConcat DEF Stream
<1>3. (g \o w) \o <<e>> = g \o (w \o <<e>>)
  BY <1>1, Assoc, Zenon
<1> QED
  BY <1>2, <1>3, Zenon

(* A message is taken off the wire.                                         *)
LEMMA MessageMoves ==
  ASSUME NEW g \in Stream, NEW y \in Stream, y # <<>>
  PROVE  Append(g, Head(y)) \o Tail(y) = g \o y
<1>1. Head(y) \in Item /\ Tail(y) \in Stream /\ <<Head(y)>> \in Stream
  BY HeadTailProperties DEF Stream
<1>2. <<Head(y)>> \o Tail(y) = y
  BY SubSeqRecursiveFirst, SubSeqFull, TailIsSubSeq, LenProperties, EmptySeq DEF Stream
<1>3. Append(g, Head(y)) = g \o <<Head(y)>>
  BY <1>1, AppendIsConcat DEF Stream
<1>4. (g \o <<Head(y)>>) \o Tail(y) = g \o (<<Head(y)>> \o Tail(y))
  BY <1>1, Assoc, Zenon
<1> QED
  BY <1>2, <1>3, <1>4, Zenon

-----------------------------------------------------------------------------
(* Places of a delimiter.                                                   *)

(* A delimiter is at a place when its bytes are.                            *)
LEMMA AtIs ==
  ASSUME NEW c \in Stream, NEW d \in Seq(Bytes), NEW i \in 1 .. Len(c) - Len(d) + 1
  PROVE  At(c, i, d) <=> \A k \in 1 .. Len(d) : c[i + k - 1] = d[k]
<1> DEFINE t == SubSeq(c, i, i + Len(d) - 1)
<1>1. /\ Len(c) \in Nat /\ Len(d) \in Nat /\ i \in Int /\ i + Len(d) - 1 \in Int
      /\ \A k \in 1 .. Len(c) : c[k] \in Item
      /\ d \in Seq(Item)
  BY LenProperties DEF Stream, Item
<1>2. \A k \in i .. i + Len(d) - 1 : c[k] \in Item
  BY <1>1
<1>3. t \in Seq(Item) /\ Len(t) = IF i <= i + Len(d) - 1 THEN i + Len(d) - 1 - i + 1 ELSE 0
  BY <1>1, <1>2, SubSeqProperties
<1>4. \A k \in 1 .. i + Len(d) - 1 - i + 1 : t[k] = c[i + k - 1]
  BY <1>1, <1>2, SubSeqProperties
<1>5. Len(t) = Len(d) /\ \A k \in 1 .. Len(d) : t[k] = c[i + k - 1]
  BY <1>1, <1>3, <1>4
<1> HIDE DEF t
<1>6. t = d <=> \A k \in 1 .. Len(d) : t[k] = d[k]
  BY <1>1, <1>3, <1>5, SeqEqual
<1> QED
  BY <1>5, <1>6 DEF At, t

(* A delimiter in a stream of two parts is in one of them or is cut in two, *)
(* and one in a part is in the stream.                                      *)
LEMMA PlacesJoin ==
  ASSUME NEW a \in Stream, NEW x \in Stream, NEW d \in Seq(Bytes), d # <<>>
  PROVE  /\ \A i \in Places(a \o x, d) :
              /\ i + Len(d) - 1 <= Len(a) => i \in Places(a, d)
              /\ i > Len(a) => i - Len(a) \in Places(x, d)
         /\ \A i \in Places(a, d) : i \in Places(a \o x, d)
         /\ \A i \in Places(x, d) : Len(a) + i \in Places(a \o x, d)
<1>1. Len(a) \in Nat /\ Len(x) \in Nat /\ Len(d) \in Nat /\ Len(d) > 0
  BY LenProperties, EmptySeq DEF Stream
<1>2. PICK z \in Stream : /\ z = a \o x /\ Len(z) = Len(a) + Len(x)
                          /\ \A i \in 1 .. Len(a) + Len(x) :
                               z[i] = IF i <= Len(a) THEN a[i] ELSE x[i - Len(a)]
  <2>1. /\ a \o x \in Stream /\ Len(a \o x) = Len(a) + Len(x)
        /\ \A i \in 1 .. Len(a) + Len(x) :
             (a \o x)[i] = IF i <= Len(a) THEN a[i] ELSE x[i - Len(a)]
    BY ConcatProperties DEF Stream
  <2> QED
    BY <2>1, Zenon
<1>3. ASSUME NEW i \in Places(z, d)
      PROVE  /\ i + Len(d) - 1 <= Len(a) => i \in Places(a, d)
             /\ i > Len(a) => i - Len(a) \in Places(x, d)
  <2>1. i \in 1 .. Len(z) - Len(d) + 1 /\ \A k \in 1 .. Len(d) : z[i + k - 1] = d[k]
    BY AtIs DEF Places
  <2>2. ASSUME i + Len(d) - 1 <= Len(a) PROVE i \in Places(a, d)
    <3>1. i \in 1 .. Len(a) - Len(d) + 1
      BY <1>1, <2>1, <2>2
    <3>2. \A k \in 1 .. Len(d) : a[i + k - 1] = d[k]
      BY <1>1, <1>2, <2>1, <2>2
    <3> QED
      BY <3>1, <3>2, AtIs DEF Places
  <2>3. ASSUME i > Len(a) PROVE i - Len(a) \in Places(x, d)
    <3>1. i - Len(a) \in 1 .. Len(x) - Len(d) + 1
      BY <1>1, <1>2, <2>1, <2>3
    <3>2. \A k \in 1 .. Len(d) : x[i - Len(a) + k - 1] = d[k]
      <4> TAKE k \in 1 .. Len(d)
      <4>1. i + k - 1 \in 1 .. Len(a) + Len(x) /\ ~(i + k - 1 <= Len(a))
        BY <1>1, <1>2, <2>1, <2>3
      <4>2. z[i + k - 1] = x[i + k - 1 - Len(a)] /\ i + k - 1 - Len(a) = i - Len(a) + k - 1
        BY <1>1, <1>2, <2>1, <4>1
      <4> QED
        BY <2>1, <4>2
    <3> QED
      BY <3>1, <3>2, AtIs DEF Places
  <2> QED
    BY <2>2, <2>3
<1>4. ASSUME NEW i \in Places(a, d) PROVE i \in Places(z, d)
  <2>1. i \in 1 .. Len(a) - Len(d) + 1 /\ \A k \in 1 .. Len(d) : a[i + k - 1] = d[k]
    BY AtIs DEF Places
  <2>2. i \in 1 .. Len(z) - Len(d) + 1 /\ \A k \in 1 .. Len(d) : z[i + k - 1] = d[k]
    BY <1>1, <1>2, <2>1
  <2> QED
    BY <2>2, AtIs DEF Places
<1>5. ASSUME NEW i \in Places(x, d) PROVE Len(a) + i \in Places(z, d)
  <2>1. i \in 1 .. Len(x) - Len(d) + 1 /\ \A k \in 1 .. Len(d) : x[i + k - 1] = d[k]
    BY AtIs DEF Places
  <2>2. Len(a) + i \in 1 .. Len(z) - Len(d) + 1
    BY <1>1, <1>2, <2>1
  <2>3. \A k \in 1 .. Len(d) : z[Len(a) + i + k - 1] = d[k]
    <3> TAKE k \in 1 .. Len(d)
    <3> DEFINE m == Len(a) + i + k - 1
    <3>1. m \in 1 .. Len(a) + Len(x) /\ ~(m <= Len(a)) /\ m - Len(a) = i + k - 1
      BY <1>1, <2>1
    <3> HIDE DEF m
    <3>2. z[m] = x[m - Len(a)]
      BY <1>2, <3>1
    <3> QED
      BY <2>1, <3>1, <3>2 DEF m
  <2> QED
    BY <2>2, <2>3, AtIs DEF Places
<1> QED
  BY <1>2, <1>3, <1>4, <1>5

(* A delimiter that two reads have cut in two.                              *)
IsCut(i, d, cuts) == \E c \in cuts : i <= c /\ c < i + Len(d) - 1

(* Reading on where there is no delimiter leaves only those that are cut.   *)
LEMMA GoesOn ==
  ASSUME NEW a \in Stream, NEW x \in Stream, NEW d \in Seq(Bytes), d # <<>>, NEW cuts,
         a # <<>> => Len(a) \in cuts, \A i \in Places(a, d) : IsCut(i, d, cuts),
         NEW i \in Places(a \o x, d)
  PROVE  IsCut(i, d, cuts) \/ (i > Len(a) /\ i - Len(a) \in Places(x, d))
<1>1. Len(a) \in Nat /\ Len(d) \in Nat /\ Len(d) > 0 /\ i \in Nat /\ i >= 1
  <2>1. i \in 1 .. Len(a \o x) - Len(d) + 1
    BY DEF Places
  <2> QED
    BY <2>1, LenProperties, EmptySeq DEF Stream
<1>2. CASE i + Len(d) - 1 <= Len(a)
  BY <1>2, PlacesJoin
<1>3. CASE i > Len(a)
  BY <1>3, PlacesJoin
<1>4. CASE i <= Len(a) /\ Len(a) < i + Len(d) - 1
  <2>1. a # <<>>
    BY <1>1, <1>4
  <2> QED
    BY <1>4, <2>1 DEF IsCut
<1> QED
  BY <1>1, <1>2, <1>3, <1>4

(* Reading to the first delimiter of x.                                     *)
LEMMA StopsHere ==
  ASSUME NEW a \in Stream, NEW x \in Stream, NEW d \in Seq(Bytes), d # <<>>, NEW cuts,
         a # <<>> => Len(a) \in cuts, \A i \in Places(a, d) : IsCut(i, d, cuts),
         NEW f \in Places(x, d), Len(x) = f + Len(d) - 1, \A g \in Places(x, d) : f <= g
  PROVE  LET last == Len(a \o x) - Len(d) + 1
         IN  last \in Places(a \o x, d) /\ \A i \in Places(a \o x, d) \ {last} : IsCut(i, d, cuts)
<1>1. Len(a) \in Nat /\ Len(d) \in Nat /\ f \in Nat /\ Len(a \o x) = Len(a) + Len(x)
  <2>1. f \in 1 .. Len(x) - Len(d) + 1
    BY DEF Places
  <2>2. Len(a) \in Nat /\ Len(d) \in Nat /\ Len(x) \in Nat /\ Len(a \o x) = Len(a) + Len(x)
    BY LenProperties, ConcatProperties DEF Stream
  <2> QED
    BY <2>1, <2>2
<1>2. Len(a \o x) - Len(d) + 1 = Len(a) + f
  BY <1>1
<1>3. Len(a) + f \in Places(a \o x, d)
  BY PlacesJoin
<1>4. ASSUME NEW i \in Places(a \o x, d), i # Len(a) + f PROVE IsCut(i, d, cuts)
  <2>1. i \in Nat /\ i <= Len(a) + f
    <3>1. i \in 1 .. Len(a \o x) - Len(d) + 1
      BY DEF Places
    <3> QED
      BY <1>1, <1>2, <3>1
  <2>2. ~(i > Len(a) /\ i - Len(a) \in Places(x, d))
    BY <1>1, <1>4, <2>1
  <2> QED
    BY <2>2, GoesOn
<1> QED
  BY <1>2, <1>3, <1>4

(* The first of some places.                                                *)
LEMMA FirstIsLeast ==
  ASSUME NEW P \in SUBSET Nat, P # {}
  PROVE  FirstPlace(P) \in P /\ \A j \in P : FirstPlace(P) <= j
<1>1. PICK i \in P : \A j \in P : <<j, i>> \notin OpToRel(<, Nat)
  BY WFMin, NatLessThanWellFounded, Zenon
<1>2. \A j \in P : ~(j < i)
  BY <1>1, Zenon DEF OpToRel
<1>3. \A j \in P : i <= j
  BY <1>2
<1> QED
  BY <1>3 DEF FirstPlace

-----------------------------------------------------------------------------
(* The inductive invariant, in parts.                                       *)

Sessions ==
  [kind : {"tcp", "tls", "ws", "mqtt"}, wire : Stream, buf : Stream, closed : BOOLEAN,
   timeout : BOOLEAN, open : BOOLEAN, sent : Stream, got : Stream,
   lost : SUBSET {"timeout", "upgrade"}, told : BOOLEAN]

ReadCalls ==
  [op : {"recv", "all", "until", "line", "n"}, s : Nat, delim : Seq(Bytes), n : Nat,
   acc : Stream, cuts : SUBSET Nat]

TypeInv ==
  /\ err \in BOOLEAN /\ cleared \in BOOLEAN
  /\ sess \in Seq(Sessions)
  /\ call \in ReadCalls \cup {NoCall}
  /\ call # NoCall => call.s \in DOMAIN sess

(* What the call under way has read from a connection.                      *)
Acc(s) == IF call.s = s THEN call.acc ELSE <<>>

(* Nothing of a stream is lost, except where the script can know.           *)
Whole(r, acc) == r.got \o acc \o r.buf \o r.wire = r.sent \/ r.lost # {} \/ r.told
(* Messages are read from the wire; only sockets have a buffer.             *)
Unbuffered(r) == Socket(r.kind) \/ r.buf = <<>>

(* On an mqtt connection every other item is the rest of a packet, and the  *)
(* script has got whole packets.                                            *)
Framed(r) ==
  r.kind = "mqtt" =>
    /\ \A i \in 1 .. Len(r.sent) : r.sent[i] = "rest" <=> i % 2 = 0
    /\ r.lost = {} /\ ~r.told => Len(r.got) % 2 = 0

(* Why something can be missing that the script was not told of.            *)
Causes(r) ==
  /\ "timeout" \in r.lost => r.timeout /\ r.kind # "ws"
  /\ "upgrade" \in r.lost => r.kind = "tls"

Known(r) == Causes(r) /\ Framed(r)

StreamInv ==
  \A s \in DOMAIN sess :
    /\ Whole(sess[s], Acc(s)) /\ Unbuffered(sess[s]) /\ Known(sess[s])
    /\ call.s = s => Socket(sess[s].kind)

(* A connection that failed has left an error, unless it was cleared, and a *)
(* script that ends well has none.                                          *)
EndInv ==
  /\ end # None => call = NoCall
  /\ end = "ok" => ~err
  /\ (\E s \in DOMAIN sess : sess[s].told) => err \/ cleared

(* What a read has put together: not more than recvn was asked for; for     *)
(* recvuntil, a delimiter only where two reads have cut it in two.          *)
AccInv ==
  call # NoCall =>
    /\ call.op = "n" => Len(call.acc) <= call.n
    /\ call.op \in {"until", "line"} =>
         /\ call.delim # <<>>
         /\ call.acc # <<>> => Len(call.acc) \in call.cuts
         /\ \A i \in Places(call.acc, call.delim) : IsCut(i, call.delim, call.cuts)

(* A client goes through the proxy it is kept for, and a session has only   *)
(* its own cookies.                                                         *)
WebInv ==
  /\ RequestsStayApart
  /\ \A k \in DOMAIN clients : clients[k] = k
  /\ jars \in Seq(SUBSET Nat)
  /\ \A j \in DOMAIN jars : jars[j] \subseteq {j}
  /\ \A r \in reqs : r.session \in DOMAIN jars

ScriptInv == TypeInv /\ StreamInv /\ EndInv /\ AccInv /\ WebInv

(* Before the first call of the script.                                     *)
LEMMA ScriptInit == Init => ScriptInv
<1> SUFFICES ASSUME Init PROVE ScriptInv
  OBVIOUS
<1>1. DOMAIN sess = {} /\ sess \in Seq(Sessions) /\ jars \in Seq(SUBSET Nat) /\ DOMAIN jars = {}
  BY DEF Init
<1>2. TypeInv /\ StreamInv /\ EndInv /\ AccInv
  BY <1>1, ScriptAssumption DEF Init, TypeInv, StreamInv, EndInv, AccInv
<1>3. WebInv
  BY <1>1, ScriptAssumption DEF Init, WebInv, RequestsStayApart, NoRoute
<1> QED
  BY <1>2, <1>3 DEF ScriptInv

-----------------------------------------------------------------------------
(* Requests.                                                                *)

(* resolve_proxy_options: the configured proxy wins, or else the one asked  *)
(* for.                                                                     *)
LEMMA ProxyResolved ==
  ASSUME NEW o, ResolveProxy(o) # Refused
  PROVE  ResolveProxy(o) = IF proxy # None THEN proxy ELSE o
BY DEF ResolveProxy

(* Steps that are not about requests.                                       *)
LEMMA WebStays ==
  ASSUME WebInv, UNCHANGED <<proxy, web, route>>
  PROVE  WebInv'
BY DEF WebInv, RequestsStayApart, web

(* A connection takes the route its option and kind ask for, and leaves the *)
(* cookies alone.                                                           *)
LEMMA ConnectWeb ==
  ASSUME WebInv, NEW kind \in Kinds, NEW o, Connect(kind, o)
  PROVE  WebInv'
<1>1. CASE UNCHANGED route
  BY <1>1, WebStays DEF Connect
<1>2. CASE route' = [kind |-> kind, wanted |-> o, used |-> Route(kind, o)]
           /\ Route(kind, o) # Refused
  <2>1. route'.kind = kind /\ route'.wanted = o /\ route'.used = Route(kind, o)
    BY <1>2
  <2>2. kind \in {"tcp", "tls", "http"} => Route(kind, o) = IF proxy # None THEN proxy ELSE o
    BY <1>2, ProxyResolved, ScriptAssumption DEF Route, Socket
  <2>3. UNCHANGED <<proxy, jars, reqs, clients>>
    BY DEF Connect, web
  <2> QED
    BY <2>1, <2>2, <2>3 DEF WebInv, RequestsStayApart
<1> QED
  BY <1>1, <1>2 DEF Connect

(* http_mksession: a session with no cookies.                               *)
LEMMA MakeSessionWeb ==
  ASSUME WebInv, MakeSession
  PROVE  WebInv'
<1>1. jars' = Append(jars, {}) /\ UNCHANGED <<proxy, reqs, clients, route>>
  BY DEF MakeSession
<1>2. /\ jars' \in Seq(SUBSET Nat) /\ DOMAIN jars \subseteq DOMAIN jars'
      /\ \A j \in DOMAIN jars' : jars'[j] = {} \/ (j \in DOMAIN jars /\ jars'[j] = jars[j])
  BY <1>1 DEF WebInv
<1> QED
  BY <1>1, <1>2 DEF WebInv, RequestsStayApart

(* http_request: the cookies are those of the session it names.             *)
LEMMA MakeRequestWeb ==
  ASSUME WebInv, NEW j \in DOMAIN jars, NEW o, MakeRequest(j, o)
  PROVE  WebInv'
<1>1. /\ reqs' = reqs \cup {[session |-> j, cookies |-> jars[j], option |-> o]}
      /\ UNCHANGED <<proxy, jars, clients, route>>
  BY DEF MakeRequest
<1>2. jars[j] \subseteq {j}
  BY DEF WebInv
<1>3. \A r \in reqs' : r \in reqs \/ (r.session = j /\ r.cookies = jars[j])
  BY <1>1
<1> QED
  BY <1>1, <1>2, <1>3 DEF WebInv, RequestsStayApart

(* http_send: the answer's cookies go to the session the request was made   *)
(* in.                                                                      *)
LEMMA SendRequestWeb ==
  ASSUME WebInv, NEW r \in reqs, SendRequest(r)
  PROVE  WebInv'
<1>1. reqs' = reqs \ {r} /\ UNCHANGED proxy
  BY DEF SendRequest
<1>2. CASE UNCHANGED <<jars, clients, route>>
  BY <1>1, <1>2 DEF WebInv, RequestsStayApart
<1> DEFINE via == ResolveProxy(r.option)
<1>3. CASE /\ via # Refused
           /\ clients' = [x \in DOMAIN clients \cup {via} |-> Via(x, via)]
           /\ route' = [kind |-> "http", wanted |-> r.option, used |-> Via(via, via)]
           /\ RegisterInJar(r.session) \/ UNCHANGED jars
  <2>1. Via(via, via) = via /\ \A x \in DOMAIN clients \cup {via} : Via(x, via) = x
    BY DEF Via, WebInv
  <2>2. \A k \in DOMAIN clients' : clients'[k] = k
    BY <1>3, <2>1
  <2>3. route'.wanted = r.option /\ route'.used = via
    BY <1>3, <2>1
  <2>4. via = IF proxy # None THEN proxy ELSE r.option
    BY <1>3, ProxyResolved
  <2>5. /\ jars' \in Seq(SUBSET Nat) /\ DOMAIN jars' = DOMAIN jars
        /\ \A j \in DOMAIN jars : jars'[j] \subseteq {j}
    <3>1. r.session \in DOMAIN jars /\ r.session \in Nat
      BY DEF WebInv
    <3>2. CASE RegisterInJar(r.session)
      BY <3>1, <3>2 DEF RegisterInJar, WebInv
    <3>3. CASE UNCHANGED jars
      BY <3>3 DEF WebInv
    <3> QED
      BY <1>3, <3>2, <3>3
  <2> QED
    BY <1>1, <2>2, <2>3, <2>4, <2>5 DEF WebInv, RequestsStayApart
<1> QED
  BY <1>2, <1>3 DEF SendRequest, ClientKey

-----------------------------------------------------------------------------
(* Connections.                                                             *)

(* While the script is between two calls no connection is being read.       *)
LEMMA NothingRead ==
  ASSUME TypeInv, call = NoCall
  PROVE  \A s \in DOMAIN sess : Acc(s) = <<>> /\ call.s # s
<1>1. \A s \in DOMAIN sess : s # 0
  BY DEF TypeInv
<1> QED
  BY <1>1 DEF Acc, NoCall

(* A step on one connection does not read from another.                     *)
Elsewhere(s) == \A t \in DOMAIN sess \ {s} : Acc(t)' = Acc(t) /\ (call'.s = t => call.s = t)

(* A call reads from one session: the others have nothing half read.        *)
LEMMA ReadsOne ==
  ASSUME TypeInv, NEW s \in DOMAIN sess, UNCHANGED call \/ (call.s = s /\ call'.s \in {s, 0})
  PROVE  Elsewhere(s)
<1>1. \A t \in DOMAIN sess : t # 0
  BY DEF TypeInv
<1> QED
  BY <1>1 DEF Elsewhere, Acc

(* A step on one connection keeps the invariant when it does so for that    *)
(* connection, and when what it reports is in LuaState.error.               *)
LEMMA SessionStep ==
  ASSUME ScriptInv, end = None, UNCHANGED <<end, cleared>>,
         err' \in BOOLEAN, err => err',
         NEW s \in DOMAIN sess, NEW n \in Sessions, On(s, n),
         n.told => sess[s].told \/ err',
         call' \in ReadCalls \cup {NoCall}, call' # NoCall => call'.s \in DOMAIN sess,
         Elsewhere(s), Whole(n, Acc(s)'), Unbuffered(n), Known(n), call'.s = s => Socket(n.kind)
  PROVE  TypeInv' /\ StreamInv' /\ EndInv'
<1>0. TypeInv /\ StreamInv /\ EndInv
  BY DEF ScriptInv
<1>1. /\ sess' \in Seq(Sessions) /\ DOMAIN sess' = DOMAIN sess
      /\ sess'[s] = n /\ \A t \in DOMAIN sess \ {s} : sess'[t] = sess[t]
  BY <1>0 DEF TypeInv, On
<1>2. TypeInv'
  BY <1>0, <1>1 DEF TypeInv
<1>3. StreamInv'
  <2>1. ASSUME NEW t \in DOMAIN sess', t # s
        PROVE  Whole(sess'[t], Acc(t)') /\ Unbuffered(sess'[t]) /\ Known(sess'[t])
               /\ (call'.s = t => Socket(sess'[t].kind))
    BY <1>0, <1>1, <2>1 DEF StreamInv, Elsewhere
  <2> QED
    BY <1>1, <2>1 DEF StreamInv
<1>4. EndInv'
  BY <1>0, <1>1, ScriptAssumption DEF EndInv
<1> QED
  BY <1>2, <1>3, <1>4

(* A call that leaves the connections alone.                                *)
LEMMA QuietCalls ==
  ASSUME ScriptInv, end = None, call = NoCall, UNCHANGED <<sess, call>>,
         err' \in BOOLEAN, cleared' \in BOOLEAN, err \/ cleared => err' \/ cleared',
         end' = "ok" => ~err'
  PROVE  TypeInv' /\ StreamInv' /\ EndInv' /\ AccInv'
<1>1. \A t : Acc(t)' = Acc(t)
  BY DEF Acc
<1> QED
  BY <1>1 DEF ScriptInv, TypeInv, StreamInv, EndInv, AccInv

(* A connection that was just made.                                         *)
LEMMA NewSessions ==
  ASSUME NEW kind \in {"tcp", "tls", "ws", "mqtt"}, NEW timeout \in BOOLEAN
  PROVE  LET n == NewSession(kind, timeout) IN
         /\ n \in Sessions /\ n.kind = kind /\ ~n.told /\ n.lost = {}
         /\ n.got = <<>> /\ n.buf = <<>> /\ n.wire = <<>> /\ n.sent = <<>>
BY DEF NewSession, Sessions, Stream

(* A connection on which nothing was sent yet.                              *)
LEMMA NothingSent ==
  ASSUME NEW n, n.got = <<>>, n.buf = <<>>, n.wire = <<>>, n.sent = <<>>, n.lost = {}
  PROVE  Whole(n, <<>>) /\ Unbuffered(n) /\ Known(n)
<1>1. <<>> \in Stream
  BY DEF Stream
<1>2. <<>> \o <<>> = <<>>
  BY <1>1, Unit, Zenon
<1>3. Len(<<>>) = 0 /\ 0 % 2 = 0
  OBVIOUS
<1> QED
  BY <1>2, <1>3 DEF Whole, Unbuffered, Known, Causes, Framed

(* A new connection has lost nothing, and the others stay as they are.      *)
LEMMA ConnectKeeps ==
  ASSUME ScriptInv, NEW kind \in Kinds, NEW o, Connect(kind, o)
  PROVE  ScriptInv'
<1>0. /\ TypeInv /\ StreamInv /\ EndInv /\ AccInv /\ end = None /\ call = NoCall
      /\ UNCHANGED <<call, end, cleared>>
  BY DEF ScriptInv, Connect, Call
<1>1. WebInv'
  BY ConnectWeb DEF ScriptInv
<1>2. CASE SetError /\ UNCHANGED sess
  BY <1>0, <1>1, <1>2, QuietCalls, ScriptAssumption DEF ScriptInv, SetError, TypeInv
<1>3. ASSUME NEW timeout \in BOOLEAN, sess' = Append(sess, NewSession(kind, timeout)), UNCHANGED err
      PROVE  ScriptInv'
  <2>1. PICK n \in Sessions : /\ n = NewSession(kind, timeout) /\ ~n.told
                              /\ Whole(n, <<>>) /\ Unbuffered(n) /\ Known(n)
    BY NewSessions, NothingSent, ScriptAssumption
  <2>2. /\ sess' \in Seq(Sessions) /\ Len(sess) \in Nat
        /\ DOMAIN sess = 1 .. Len(sess) /\ DOMAIN sess' = 1 .. Len(sess) + 1
        /\ sess'[Len(sess) + 1] = n /\ \A t \in DOMAIN sess : sess'[t] = sess[t]
    BY <1>0, <1>3, <2>1 DEF TypeInv
  <2>3. TypeInv' /\ EndInv' /\ AccInv'
    BY <1>0, <1>3, <2>1, <2>2, ScriptAssumption DEF TypeInv, EndInv, AccInv
  <2>4. \A t \in DOMAIN sess' : Acc(t)' = <<>> /\ call'.s # t
    BY <1>0, <2>2 DEF Acc, NoCall
  <2>5. \A t \in DOMAIN sess : Acc(t) = <<>>
    BY <1>0, NothingRead
  <2>6. StreamInv'
    <3>1. ASSUME NEW t \in DOMAIN sess'
          PROVE  Whole(sess'[t], <<>>) /\ Unbuffered(sess'[t]) /\ Known(sess'[t])
      BY <1>0, <2>1, <2>2, <2>5 DEF StreamInv
    <3> QED
      BY <2>4, <3>1 DEF StreamInv
  <2> QED
    BY <1>1, <2>3, <2>6 DEF ScriptInv
<1> QED
  BY <1>2, <1>3 DEF Connect

(* What is known of a socket stays known while its losses stay the same.    *)
LEMMA SocketKnown ==
  ASSUME NEW r, NEW n, Known(r), Socket(n.kind), r.kind \in {"tcp", n.kind},
         r.timeout => n.timeout, n.lost \ r.lost \subseteq {x \in {"timeout"} : n.timeout}
  PROVE  Known(n)
<1>1. n.kind # "mqtt" /\ n.kind # "ws"
  BY DEF Socket
<1>2. "timeout" \in n.lost => n.timeout
  BY DEF Known, Causes
<1>3. "upgrade" \in n.lost => n.kind = "tls"
  BY DEF Known, Causes
<1> QED
  BY <1>1, <1>2, <1>3 DEF Known, Causes, Framed

(* sock_upgrade_tls: the socket is gone, or what was buffered is lost.      *)
LEMMA UpgradeKeeps ==
  ASSUME ScriptInv, NEW s \in DOMAIN sess, Upgrade(s)
  PROVE  ScriptInv'
<1>0. /\ TypeInv /\ StreamInv /\ AccInv /\ end = None /\ call = NoCall
      /\ UNCHANGED <<call, end, cleared>>
  BY DEF ScriptInv, Upgrade, Usable, Call
<1>1. WebInv'
  BY WebStays DEF ScriptInv, Upgrade
<1>2. AccInv'
  BY <1>0 DEF AccInv
<1>3. Elsewhere(s) /\ Acc(s) = <<>> /\ Acc(s)' = <<>> /\ call'.s # s
  BY <1>0, NothingRead, ReadsOne DEF Acc
<1>4. PICK r \in Sessions : /\ sess[s] = r /\ Whole(r, <<>>) /\ Unbuffered(r) /\ Known(r)
                            /\ Socket(r.kind)
  BY <1>0, <1>3 DEF TypeInv, StreamInv, Upgrade
<1>5. CASE SetError /\ On(s, Told([sess[s] EXCEPT !.open = FALSE]))
  <2> DEFINE n == Told([r EXCEPT !.open = FALSE])
  <2>1. n \in Sessions /\ n.told /\ n.kind = r.kind /\ n.timeout = r.timeout /\ n.lost = r.lost
    BY DEF Sessions, Told
  <2>a. On(s, n)
    BY <1>4, <1>5
  <2> HIDE DEF n
  <2>2. Whole(n, <<>>) /\ Unbuffered(n) /\ Known(n)
    BY <1>4, <2>1, SocketKnown DEF Whole, Unbuffered
  <2> QED
    BY <1>0, <1>1, <1>2, <1>3, <1>5, <2>1, <2>a, <2>2, SessionStep DEF SetError, ScriptInv, TypeInv
<1>6. CASE /\ r.kind = "tcp" /\ r.wire = <<>>
           /\ On(s, [r EXCEPT !.kind = "tls", !.buf = <<>>,
                       !.lost = IF r.buf = <<>> THEN @ ELSE @ \cup {"upgrade"}])
           /\ UNCHANGED err
  <2>0. PICK l \in SUBSET {"timeout", "upgrade"} :
          l = IF r.buf = <<>> THEN r.lost ELSE r.lost \cup {"upgrade"}
    BY DEF Sessions
  <2> DEFINE n == [r EXCEPT !.kind = "tls", !.buf = <<>>, !.lost = l]
  <2>1. /\ n \in Sessions /\ n.told = r.told /\ n.lost = l /\ n.kind = "tls" /\ n.timeout = r.timeout
        /\ n.got = r.got /\ n.buf = <<>> /\ n.wire = r.wire /\ n.sent = r.sent
    <3>1. <<>> \in Stream
      BY DEF Stream
    <3> QED
      BY <3>1 DEF Sessions
  <2>a. On(s, n)
    BY <1>6, <2>0
  <2> HIDE DEF n
  <2>2. Whole(n, <<>>)
    BY <1>4, <2>0, <2>1 DEF Whole
  <2>3. Unbuffered(n) /\ Known(n)
    BY <1>4, <2>0, <2>1 DEF Unbuffered, Known, Causes, Framed
  <2> QED
    BY <1>0, <1>1, <1>2, <1>3, <1>4, <1>6, <2>1, <2>a, <2>2, <2>3, SessionStep DEF ScriptInv, TypeInv
<1> QED
  BY <1>4, <1>5, <1>6 DEF Upgrade

(* A connection whose stream and reports are as before.                     *)
LEMMA SameStream ==
  ASSUME NEW r, NEW n, NEW a, n.kind = r.kind, n.got = r.got, n.buf = r.buf, n.wire = r.wire,
         n.sent = r.sent, n.lost = r.lost, n.told = r.told, r.timeout => n.timeout,
         Whole(r, a), Unbuffered(r), Known(r)
  PROVE  Whole(n, a) /\ Unbuffered(n) /\ Known(n)
BY DEF Whole, Unbuffered, Known, Causes, Framed

(* A step that leaves the call under way alone.                             *)
LEMMA CallStays ==
  ASSUME ScriptInv, NEW s \in DOMAIN sess, UNCHANGED call
  PROVE  /\ AccInv' /\ Elsewhere(s) /\ Acc(s)' = Acc(s)
         /\ call' \in ReadCalls \cup {NoCall} /\ (call' # NoCall => call'.s \in DOMAIN sess)
         /\ (call'.s = s => Socket(sess[s].kind))
BY ReadsOne DEF ScriptInv, TypeInv, AccInv, Acc, StreamInv

(* sock_options, ws_options, and a peer that closes, touch no data.         *)
LEMMA OptionsKeep ==
  ASSUME ScriptInv, NEW s \in DOMAIN sess, Options(s) \/ PeerCloses(s)
  PROVE  ScriptInv'
<1>0. /\ TypeInv /\ StreamInv /\ end = None /\ UNCHANGED <<err, call, end, cleared>>
      /\ UNCHANGED <<proxy, web, route>>
  BY DEF ScriptInv, Options, Usable, Call, PeerCloses
<1>1. PICK r \in Sessions : sess[s] = r
  BY <1>0 DEF TypeInv
<1>2. \A n \in Sessions : 
        /\ n.kind = r.kind /\ n.got = r.got /\ n.buf = r.buf /\ n.wire = r.wire
        /\ n.sent = r.sent /\ n.lost = r.lost /\ n.told = r.told /\ (r.timeout => n.timeout) /\ On(s, n)
        => ScriptInv'
  <2> SUFFICES ASSUME NEW n \in Sessions, 
                      n.kind = r.kind, n.got = r.got, n.buf = r.buf, n.wire = r.wire,
                      n.sent = r.sent, n.lost = r.lost, n.told = r.told, r.timeout => n.timeout, On(s, n)
               PROVE  ScriptInv'
    OBVIOUS
  <2>1. Whole(n, Acc(s)) /\ Unbuffered(n) /\ Known(n)
    BY <1>0, <1>1, SameStream DEF StreamInv
  <2>2. TypeInv' /\ StreamInv' /\ EndInv'
    BY <1>0, <1>1, <2>1, CallStays, SessionStep DEF TypeInv
  <2> QED
    BY <1>0, <2>2, CallStays, WebStays DEF ScriptInv
<1>3. CASE On(s, [r EXCEPT !.timeout = TRUE])
  <2> DEFINE n == [r EXCEPT !.timeout = TRUE]
  <2>1. /\ n \in Sessions /\ n.kind = r.kind /\ n.got = r.got /\ n.buf = r.buf /\ n.wire = r.wire
        /\ n.sent = r.sent /\ n.lost = r.lost /\ n.told = r.told /\ (r.timeout => n.timeout)
    BY DEF Sessions
  <2> HIDE DEF n
  <2> QED
    BY <1>2, <1>3, <2>1 DEF n
<1>4. CASE On(s, [r EXCEPT !.closed = TRUE])
  <2> DEFINE n == [r EXCEPT !.closed = TRUE]
  <2>1. /\ n \in Sessions /\ n.kind = r.kind /\ n.got = r.got /\ n.buf = r.buf /\ n.wire = r.wire
        /\ n.sent = r.sent /\ n.lost = r.lost /\ n.told = r.told /\ (r.timeout => n.timeout)
    BY DEF Sessions
  <2> HIDE DEF n
  <2> QED
    BY <1>2, <1>4, <2>1 DEF n
<1> QED
  BY <1>1, <1>3, <1>4 DEF Options, PeerCloses

(* What the peer sends is on the wire.                                      *)
LEMMA PeerSendsKeeps ==
  ASSUME ScriptInv, NEW s \in DOMAIN sess, NEW e \in Items(sess[s]), PeerSends(s, e)
  PROVE  ScriptInv'
<1>0. /\ TypeInv /\ StreamInv /\ end = None /\ UNCHANGED <<err, call, end, cleared>>
      /\ UNCHANGED <<proxy, web, route>>
  BY DEF ScriptInv, PeerSends
<1>1. PICK r \in Sessions : sess[s] = r
  BY <1>0 DEF TypeInv
<1>2. e \in Item
  BY <1>1 DEF Items, Types, Item, Sessions
<1> DEFINE n == [r EXCEPT !.wire = Append(r.wire, e), !.sent = Append(r.sent, e)]
<1>3. Append(r.wire, e) \in Stream /\ Append(r.sent, e) \in Stream
  BY <1>2 DEF Sessions, Stream
<1>4. /\ n \in Sessions /\ n.kind = r.kind /\ n.got = r.got /\ n.buf = r.buf
      /\ n.wire = Append(r.wire, e) /\ n.sent = Append(r.sent, e)
      /\ n.lost = r.lost /\ n.told = r.told /\ n.timeout = r.timeout
  BY <1>3 DEF Sessions
<1>5. On(s, n)
  BY <1>1 DEF PeerSends
<1> HIDE DEF n
<1>6. Acc(s) \in Stream
  BY <1>0 DEF TypeInv, Acc, ReadCalls, NoCall, Stream
<1>7. Whole(n, Acc(s)) /\ Unbuffered(n)
  <2>1. Whole(r, Acc(s)) /\ Unbuffered(r)
    BY <1>0, <1>1 DEF StreamInv
  <2>2. r.got \in Stream /\ r.buf \in Stream /\ r.wire \in Stream
    BY DEF Sessions
  <2>3. r.got \o Acc(s) \in Stream
    BY <1>6, <2>2, Closed, Zenon
  <2>4. r.got \o Acc(s) \o r.buf \in Stream
    BY <2>2, <2>3, Closed, Zenon
  <2>5. r.got \o Acc(s) \o r.buf \o Append(r.wire, e) = Append(r.got \o Acc(s) \o r.buf \o r.wire, e)
    BY <1>2, <2>2, <2>4, BytesArrive
  <2> QED
    BY <1>4, <2>1, <2>5 DEF Whole, Unbuffered
<1>a. Known(n)
  <2>1. Known(r)
    BY <1>0, <1>1 DEF StreamInv
  <2>2. CASE r.kind # "mqtt"
    BY <1>4, <2>1, <2>2 DEF Known, Causes, Framed
  <2>3. CASE r.kind = "mqtt"
    <3>1. PICK q \in Stream : q = r.sent
      BY DEF Sessions
    <3>2. Len(q) \in Nat /\ (q = <<>> <=> Len(q) = 0)
      BY LenProperties, EmptySeq DEF Stream
    <3>3. \A i \in 1 .. Len(q) : q[i] = "rest" <=> i % 2 = 0
      BY <2>1, <2>3, <3>1 DEF Known, Framed
    <3>4. e = "rest" <=> (Len(q) + 1) % 2 = 0
      <4>1. InPacket(r) <=> Len(q) % 2 # 0
        <5>1. CASE Len(q) = 0
          BY <3>1, <3>2, <5>1 DEF InPacket
        <5>2. CASE Len(q) # 0
          <6>1. Len(q) \in 1 .. Len(q)
            BY <3>2, <5>2
          <6>2. q[Len(q)] = "rest" <=> Len(q) % 2 = 0
            BY <3>3, <6>1
          <6> QED
            BY <3>1, <3>2, <5>2, <6>2 DEF InPacket
        <5> QED
          BY <5>1, <5>2
      <4>2. e = "rest" <=> InPacket(r)
        BY <1>1, <2>3 DEF Items, Types
      <4>3. \A l \in Nat : l % 2 # 0 <=> (l + 1) % 2 = 0
        OBVIOUS
      <4> QED
        BY <3>2, <4>1, <4>2, <4>3
    <3>5. /\ Len(Append(q, e)) = Len(q) + 1 /\ Append(q, e)[Len(q) + 1] = e
          /\ \A i \in 1 .. Len(q) : Append(q, e)[i] = q[i]
      BY <1>2, AppendProperties DEF Stream
    <3>6. \A i \in 1 .. Len(n.sent) : n.sent[i] = "rest" <=> i % 2 = 0
      <4> PICK l \in Nat : l = Len(q)
        BY <3>2
      <4>1. PICK z : z = n.sent /\ z = Append(q, e)
        BY <1>4, <3>1
      <4>2. ASSUME NEW i \in 1 .. l + 1 PROVE z[i] = "rest" <=> i % 2 = 0
        <5>1. CASE i = l + 1
          BY <3>4, <3>5, <4>1, <5>1
        <5>2. CASE i \in 1 .. l
          BY <3>3, <3>5, <4>1, <5>2
        <5> QED
          BY <5>1, <5>2
      <4> QED
        BY <3>5, <4>1, <4>2
    <3> QED
      BY <1>4, <2>1, <3>6 DEF Known, Causes, Framed
  <2> QED
    BY <2>2, <2>3
<1>8. TypeInv' /\ StreamInv' /\ EndInv'
  BY <1>0, <1>1, <1>4, <1>5, <1>7, <1>a, CallStays, SessionStep DEF TypeInv
<1> QED
  BY <1>0, <1>8, CallStays, WebStays DEF ScriptInv

-----------------------------------------------------------------------------
(* Reading from sockets.                                                    *)

(* A read begins with nothing taken from the stream.                        *)
LEMMA BeginKeeps ==
  ASSUME ScriptInv, NEW s \in DOMAIN sess,
         NEW op \in {"recv", "all", "until", "line", "n"}, NEW delim \in Seq(Bytes), NEW n \in Nat,
         op \in {"until", "line"} => delim # <<>>, Begin(s, op, delim, n)
  PROVE  ScriptInv'
<1>0. /\ TypeInv /\ StreamInv /\ EndInv /\ end = None /\ call = NoCall
      /\ UNCHANGED <<err, sess, end, cleared>>
      /\ Socket(sess[s].kind)
  BY DEF ScriptInv, Begin, Usable, Call
<1>1. WebInv'
  BY WebStays DEF ScriptInv, Begin
<1>2. PICK c \in ReadCalls : /\ call' = c /\ c.op = op /\ c.s = s /\ c.delim = delim /\ c.n = n
                             /\ c.acc = <<>> /\ c.cuts = {}
  <2> DEFINE c == [op |-> op, s |-> s, delim |-> delim, n |-> n, acc |-> <<>>, cuts |-> {}]
  <2>1. s \in Nat /\ <<>> \in Stream
    BY <1>0 DEF TypeInv, Stream
  <2>2. c \in ReadCalls /\ call' = c
    BY <2>1 DEF ReadCalls, Begin
  <2> QED
    BY <2>2
<1>3. TypeInv'
  BY <1>0, <1>2 DEF TypeInv
<1>4. StreamInv'
  <2>1. \A t \in DOMAIN sess : Acc(t)' = Acc(t) /\ (call'.s = t => t = s)
    BY <1>0, <1>2, NothingRead DEF Acc
  <2> QED
    BY <1>0, <2>1 DEF StreamInv
<1>5. EndInv'
  BY <1>0, ScriptAssumption DEF EndInv
<1>6. AccInv'
  <2>1. delim # <<>> => Places(<<>>, delim) = {}
    <3>1. Len(delim) \in Nat /\ (delim # <<>> => Len(delim) > 0)
      BY EmptySeq, LenProperties
    <3> QED
      BY <3>1 DEF Places
  <2>2. Len(<<>>) = 0
    OBVIOUS
  <2> QED
    BY <1>2, <2>1, <2>2 DEF AccInv
<1> QED
  BY <1>1, <1>3, <1>4, <1>5, <1>6 DEF ScriptInv

(* A call under way is on a socket that is there.                           *)
LEMMA Reading ==
  ASSUME ScriptInv, call # NoCall
  PROVE  /\ end = None /\ call \in ReadCalls /\ call.s \in DOMAIN sess
         /\ sess[call.s] \in Sessions /\ Socket(sess[call.s].kind)
         /\ Acc(call.s) = call.acc /\ call.acc \in Stream
         /\ Whole(sess[call.s], call.acc) /\ Known(sess[call.s])
<1>1. /\ end = None /\ call \in ReadCalls /\ call.s \in DOMAIN sess
      /\ sess[call.s] \in Sessions /\ Acc(call.s) = call.acc
  BY DEF ScriptInv, TypeInv, EndInv, Acc
<1>2. Whole(sess[call.s], Acc(call.s)) /\ Known(sess[call.s]) /\ Socket(sess[call.s].kind)
  BY <1>1 DEF ScriptInv, StreamInv
<1> QED
  BY <1>1, <1>2 DEF ReadCalls

(* fill_buf: what leaves the wire is in the buffer.                         *)
LEMMA FillKeeps ==
  ASSUME ScriptInv, Fill
  PROVE  ScriptInv'
<1>0. /\ call # NoCall /\ UNCHANGED <<err, call, end, cleared>> /\ UNCHANGED <<proxy, web, route>>
      /\ err \in BOOLEAN
  BY DEF Fill, ScriptInv, TypeInv
<1>1. PICK r \in Sessions, s \in DOMAIN sess : sess[s] = r /\ call.s = s
  BY <1>0, Reading
<1>2. PICK k \in 1 .. Len(r.wire) :
        /\ On(s, [r EXCEPT !.buf = SubSeq(r.wire, 1, k),
                           !.wire = SubSeq(r.wire, k + 1, Len(r.wire))])
        /\ r.buf = <<>>
  BY <1>1 DEF Fill
<1>3. r.got \in Stream /\ r.buf \in Stream /\ r.wire \in Stream
  BY DEF Sessions
<1>4. PICK x \in Stream, y \in Stream : /\ x = SubSeq(r.wire, 1, k) /\ y = SubSeq(r.wire, k + 1, Len(r.wire))
                                        /\ x \o y = r.wire
  <2>1. k \in 0 .. Len(r.wire)
    BY <1>3, LenProperties DEF Stream
  <2> QED
    BY <1>3, <2>1, Cut
<1> DEFINE n == [r EXCEPT !.buf = x, !.wire = y]
<1>5. /\ n \in Sessions /\ n.kind = r.kind /\ n.got = r.got /\ n.buf = x /\ n.wire = y
      /\ n.sent = r.sent /\ n.lost = r.lost /\ n.timeout = r.timeout /\ n.told = r.told
  BY DEF Sessions
<1>6. On(s, n)
  BY <1>2, <1>4
<1> HIDE DEF n
<1>7. PICK a \in Stream : a = call.acc /\ Acc(s) = a /\ Whole(r, a) /\ Known(r) /\ Socket(r.kind)
  BY <1>0, <1>1, Reading
<1>8. Whole(n, a) /\ Unbuffered(n) /\ Known(n)
  <2>1. r.got \o a \in Stream
    BY <1>3, Closed, Zenon
  <2>2. (r.got \o a) \o <<>> = r.got \o a
    BY <2>1, Unit, Zenon
  <2>3. ((r.got \o a) \o x) \o y = (r.got \o a) \o (x \o y)
    BY <2>1, Assoc, Zenon
  <2> QED
    BY <1>2, <1>4, <1>5, <1>7, <2>2, <2>3, SocketKnown DEF Whole, Unbuffered
<1>9. TypeInv' /\ StreamInv' /\ EndInv'
  BY <1>0, <1>1, <1>5, <1>6, <1>7, <1>8, Reading, CallStays, SessionStep
<1> QED
  BY <1>0, <1>9, CallStays, WebStays, <1>1 DEF ScriptInv

(* A read takes part of the buffer, and it takes it up to the end of the    *)
(* first delimiter when there is one.                                       *)
LEMMA UsedIs ==
  ASSUME NEW b \in Stream, NEW d \in Seq(Bytes), d # <<>>, sess[call.s].buf = b, call.delim = d
  PROVE  /\ Used \in 0 .. Len(b)
         /\ Places(b, d) # {} =>
              /\ FirstPlace(Places(b, d)) \in Places(b, d)
              /\ \A g \in Places(b, d) : FirstPlace(Places(b, d)) <= g
              /\ Used = FirstPlace(Places(b, d)) + Len(d) - 1
<1>1. Len(b) \in Nat /\ Len(d) \in Nat /\ Len(d) > 0
  BY LenProperties, EmptySeq DEF Stream
<1>2. Places(b, d) \subseteq 1 .. Len(b) - Len(d) + 1
  BY DEF Places
<1>3. CASE Places(b, d) = {}
  BY <1>1, <1>3 DEF Used
<1>4. CASE Places(b, d) # {}
  <2>1. Places(b, d) \in SUBSET Nat
    BY <1>1, <1>2
  <2>2. PICK f \in Places(b, d) : f = FirstPlace(Places(b, d)) /\ \A g \in Places(b, d) : f <= g
    BY <1>4, <2>1, FirstIsLeast
  <2>3. f \in 1 .. Len(b) - Len(d) + 1
    BY <1>2
  <2>4. Used = f + Len(d) - 1
    BY <1>4, <2>2 DEF Used
  <2> QED
    BY <1>1, <2>2, <2>3, <2>4
<1> QED
  BY <1>3, <1>4

(* Bytes move from the buffer to what the call has read, and from there to  *)
(* what the script has got; the stream stays the same.                      *)
LEMMA StreamMoves ==
  ASSUME NEW r \in Sessions, NEW a \in Stream, NEW x \in Stream, NEW y \in Stream
  PROVE  /\ r.got \o (a \o x) \o y \o r.wire = r.got \o a \o (x \o y) \o r.wire
         /\ r.got \o (a \o x) \o <<>> \o y \o r.wire = r.got \o a \o (x \o y) \o r.wire
<1>1. r.got \in Stream
  BY DEF Sessions
<1>2. r.got \o a \in Stream
  BY <1>1, Closed, Zenon
<1>3. (r.got \o a) \o x \in Stream
  BY <1>2, Closed, Zenon
<1>4. (r.got \o a) \o x = r.got \o (a \o x)
  BY <1>1, Assoc, Zenon
<1>5. ((r.got \o a) \o x) \o y = (r.got \o a) \o (x \o y)
  BY <1>2, Assoc, Zenon
<1>6. ((r.got \o a) \o x) \o <<>> = (r.got \o a) \o x
  BY <1>3, Unit, Zenon
<1> QED
  BY <1>4, <1>5, <1>6, Zenon

(* A call that has returned, or that has thrown a line away and reads the   *)
(* next one.                                                                *)
LEMMA CallEmptied ==
  ASSUME ScriptInv, call # NoCall, NEW s \in DOMAIN sess, call.s = s,
         \/ call' = NoCall
         \/ call.op = "line" /\ call' = [call EXCEPT !.acc = <<>>, !.cuts = {}]
  PROVE  /\ call' \in ReadCalls \cup {NoCall} /\ call'.s \in {s, 0} /\ (call' # NoCall => call'.s = s)
         /\ Acc(s)' = <<>> /\ AccInv'
<1>0. s # 0
  BY DEF ScriptInv, TypeInv
<1>1. CASE call' = NoCall
  BY <1>0, <1>1 DEF NoCall, Acc, AccInv
<1>2. CASE call.op = "line" /\ call' = [call EXCEPT !.acc = <<>>, !.cuts = {}]
  <2>1. PICK c \in ReadCalls : call = c /\ c.op = "line" /\ c.s = s
    BY <1>2, Reading
  <2> DEFINE k == [c EXCEPT !.acc = <<>>, !.cuts = {}]
  <2>2. <<>> \in Stream
    BY DEF Stream
  <2>3. k \in ReadCalls /\ k.s = s /\ k.acc = <<>> /\ k.op = "line" /\ k.delim = c.delim
    BY <2>1, <2>2 DEF ReadCalls
  <2>4. call' = k
    BY <1>2, <2>1
  <2> HIDE DEF k
  <2>5. c.delim # <<>> /\ c.delim \in Seq(Bytes)
    BY <2>1 DEF ScriptInv, AccInv, ReadCalls
  <2>6. Places(<<>>, c.delim) = {}
    <3>1. Len(c.delim) \in Nat /\ Len(c.delim) > 0
      BY <2>5, EmptySeq, LenProperties
    <3> QED
      BY <3>1 DEF Places
  <2> QED
    BY <2>3, <2>4, <2>5, <2>6 DEF Acc, AccInv
<1> QED
  BY <1>1, <1>2

(* The three things a read does with the stream: it goes on, it returns, it *)
(* fails.  x is what it takes of the buffer, y what it leaves.              *)
LEMMA ReadOn ==
  ASSUME ScriptInv, call # NoCall, UNCHANGED <<end, cleared, err>>, UNCHANGED <<proxy, web, route>>,
         NEW x \in Stream, NEW y \in Stream, x \o y = sess[call.s].buf,
         On(call.s, [sess[call.s] EXCEPT !.buf = y]),
         call' \in ReadCalls, call'.s = call.s, call'.acc = call.acc \o x, AccInv'
  PROVE  ScriptInv'
<1>1. PICK r \in Sessions, s \in DOMAIN sess, a \in Stream :
        sess[s] = r /\ call.s = s /\ call.acc = a /\ Whole(r, a) /\ Known(r) /\ Socket(r.kind)
  BY Reading
<1> DEFINE n == [r EXCEPT !.buf = y]
<1>2. /\ n \in Sessions /\ n.kind = r.kind /\ n.got = r.got /\ n.buf = y /\ n.wire = r.wire
      /\ n.sent = r.sent /\ n.lost = r.lost /\ n.timeout = r.timeout /\ n.told = r.told
  BY DEF Sessions
<1>3. On(s, n)
  BY <1>1
<1> HIDE DEF n
<1>4. Acc(s)' = a \o x
  BY <1>1 DEF Acc
<1>5. r.got \in Stream /\ r.wire \in Stream
  BY DEF Sessions
<1>6. r.got \o (a \o x) \o y \o r.wire = r.got \o a \o (x \o y) \o r.wire
  BY StreamMoves
<1>7. Whole(n, Acc(s)') /\ Unbuffered(n) /\ Known(n)
  BY <1>1, <1>2, <1>4, <1>6, SocketKnown DEF Whole, Unbuffered
<1>8. Elsewhere(s) /\ end = None /\ err \in BOOLEAN
  BY <1>1, Reading, ReadsOne DEF ScriptInv, TypeInv
<1>9. TypeInv' /\ StreamInv' /\ EndInv'
  BY <1>1, <1>2, <1>3, <1>7, <1>8, SessionStep
<1> QED
  BY <1>9, WebStays DEF ScriptInv

(* A read returns what it has taken, and the rest stays in the buffer.      *)
LEMMA ReadReturns ==
  ASSUME ScriptInv, call # NoCall, UNCHANGED <<end, cleared, err>>, UNCHANGED <<proxy, web, route>>,
         NEW x \in Stream, NEW y \in Stream, x \o y = sess[call.s].buf, NEW data,
         data = call.acc \o x,
         On(call.s, [sess[call.s] EXCEPT !.buf = y, !.got = @ \o data]),
         \/ call' = NoCall
         \/ call.op = "line" /\ call' = [call EXCEPT !.acc = <<>>, !.cuts = {}]
  PROVE  ScriptInv'
<1>1. PICK r \in Sessions, s \in DOMAIN sess, a \in Stream :
        sess[s] = r /\ call.s = s /\ call.acc = a /\ Whole(r, a) /\ Known(r) /\ Socket(r.kind)
  BY Reading
<1>5. r.got \in Stream /\ r.wire \in Stream /\ a \o x \in Stream
  BY Closed DEF Sessions
<1>a. PICK g \in Stream : g = r.got \o (a \o x)
  BY <1>5, Closed
<1> DEFINE n == [r EXCEPT !.buf = y, !.got = g]
<1>2. /\ n \in Sessions /\ n.kind = r.kind /\ n.got = g /\ n.buf = y
      /\ n.wire = r.wire /\ n.sent = r.sent /\ n.lost = r.lost /\ n.timeout = r.timeout /\ n.told = r.told
  BY DEF Sessions
<1>3. On(s, n)
  BY <1>1, <1>a
<1> HIDE DEF n
<1>4. /\ call' \in ReadCalls \cup {NoCall} /\ call'.s \in {s, 0} /\ (call' # NoCall => call'.s = s)
      /\ Acc(s)' = <<>> /\ AccInv'
  BY <1>1, CallEmptied
<1>6. r.got \o (a \o x) \o <<>> \o y \o r.wire = r.got \o a \o (x \o y) \o r.wire
  BY StreamMoves
<1>7. Whole(n, Acc(s)') /\ Unbuffered(n) /\ Known(n)
  BY <1>1, <1>2, <1>a, <1>4, <1>6, SocketKnown DEF Whole, Unbuffered
<1>8. Elsewhere(s) /\ end = None /\ err \in BOOLEAN
  BY <1>1, <1>4, Reading, ReadsOne DEF ScriptInv, TypeInv
<1>9. TypeInv' /\ StreamInv' /\ EndInv'
  BY <1>1, <1>2, <1>3, <1>4, <1>7, <1>8, SessionStep
<1> QED
  BY <1>4, <1>9, WebStays DEF ScriptInv

(* A read that fails tells the script: what it had taken is lost, and the   *)
(* session says so.                                                         *)
LEMMA ReadFails ==
  ASSUME ScriptInv, call # NoCall, UNCHANGED <<end, cleared>>, UNCHANGED <<proxy, web, route>>,
         NEW y \in Stream, Fails(y)
  PROVE  ScriptInv'
<1>1. PICK r \in Sessions, s \in DOMAIN sess :
        sess[s] = r /\ call.s = s /\ Known(r) /\ Socket(r.kind)
  BY Reading
<1> DEFINE m == [r EXCEPT !.buf = y]
           n == Told(m)
<1>2. m \in Sessions /\ m.kind = r.kind /\ m.lost = r.lost /\ m.timeout = r.timeout
  BY DEF Sessions
<1>3. n \in Sessions /\ n.kind = r.kind /\ n.told /\ n.lost = r.lost /\ n.timeout = r.timeout
  <2> HIDE DEF m
  <2> QED
    BY <1>2 DEF Sessions, Told
<1>4. On(s, n) /\ err' = TRUE /\ call' = NoCall
  BY <1>1 DEF Fails, SetError
<1> HIDE DEF m, n
<1>5. Whole(n, Acc(s)') /\ Unbuffered(n) /\ Known(n)
  BY <1>1, <1>3, SocketKnown DEF Whole, Unbuffered
<1>6. Elsewhere(s) /\ end = None /\ err \in BOOLEAN
  BY <1>1, <1>4, Reading, ReadsOne DEF ScriptInv, TypeInv, NoCall
<1>7. s # 0
  BY DEF ScriptInv, TypeInv
<1>8. TypeInv' /\ StreamInv' /\ EndInv'
  BY <1>1, <1>3, <1>4, <1>5, <1>6, <1>7, SessionStep DEF NoCall
<1>9. AccInv'
  BY <1>4 DEF AccInv
<1> QED
  BY <1>8, <1>9, WebStays DEF ScriptInv

(* One buffer of sock_recv, sock_recvuntil, sock_recvline, sock_recvn and   *)
(* sock_recvall.                                                            *)
LEMMA ReadKeeps ==
  ASSUME ScriptInv, Read
  PROVE  ScriptInv'
<1>0. call # NoCall /\ UNCHANGED <<end, cleared>> /\ UNCHANGED <<proxy, web, route>> /\ AccInv
  BY DEF Read, Buffered, ScriptInv
<1>1. PICK c \in ReadCalls, b \in Stream : call = c /\ sess[c.s].buf = b
  BY <1>0, Reading DEF Sessions
<1>2. PICK a \in Stream : c.acc = a
  BY DEF ReadCalls
<1>3. c.delim \in Seq(Bytes) /\ c.n \in Nat /\ Len(a) \in Nat /\ Len(b) \in Nat
  BY LenProperties DEF ReadCalls, Stream
<1> DEFINE n == CASE call.op \in {"until", "line"} -> Used
                  [] call.op = "n" /\ call.n < Len(sess[call.s].buf) + Len(call.acc)
                       -> call.n - Len(call.acc)
                  [] OTHER -> Len(sess[call.s].buf)
           done == CASE call.op \in {"until", "line"} -> Places(sess[call.s].buf, call.delim) # {}
                     [] call.op = "n" -> Len(call.acc) + n >= call.n
                     [] OTHER -> call.op = "recv"
<1>4. /\ c.op \in {"until", "line"} => n = Used /\ (done <=> Places(b, c.delim) # {})
      /\ c.op = "n" => n = IF c.n < Len(b) + Len(a) THEN c.n - Len(a) ELSE Len(b)
      /\ c.op \notin {"until", "line", "n"} => n = Len(b)
  BY <1>1, <1>2
<1>5. c.op = "n" => (done <=> Len(a) + n >= c.n)
  BY <1>1, <1>2
<1>6. IF done THEN Deliver(Taken(n), Consume(n))
      ELSE /\ On(call.s, [sess[call.s] EXCEPT !.buf = Consume(n)])
           /\ call' = [call EXCEPT !.acc = Taken(n), !.cuts = @ \cup {Len(Taken(n))}]
           /\ UNCHANGED err
  BY DEF Read
<1> HIDE DEF n, done
<1>7. n \in 0 .. Len(b)
  <2>1. CASE c.op \in {"until", "line"}
    <3>1. c.delim # <<>>
      BY <1>0, <1>1, <2>1 DEF AccInv
    <3> QED
      BY <1>1, <1>3, <1>4, <2>1, <3>1, UsedIs
  <2>2. CASE c.op = "n"
    <3>1. Len(a) <= c.n
      BY <1>0, <1>1, <1>2, <2>2 DEF AccInv
    <3> QED
      BY <1>3, <1>4, <2>2, <3>1
  <2>3. CASE c.op \notin {"until", "line", "n"}
    BY <1>3, <1>4, <2>3
  <2> QED
    BY <2>1, <2>2, <2>3
<1>8. PICK x \in Stream, y \in Stream : /\ x = SubSeq(b, 1, n) /\ y = SubSeq(b, n + 1, Len(b))
                                        /\ x \o y = b /\ Len(x) = n
  BY <1>7, Cut
<1>9. Taken(n) = a \o x /\ Consume(n) = y
  BY <1>1, <1>2, <1>8 DEF Taken, Consume
<1>10. CASE done
  <2>1. Deliver(a \o x, y)
    BY <1>6, <1>9, <1>10
  <2>2. CASE Fails(y)
    BY <1>0, <2>2, ReadFails
  <2>3. CASE /\ On(call.s, [sess[call.s] EXCEPT !.buf = y, !.got = @ \o (a \o x)])
             /\ \/ call' = NoCall
                \/ call.op = "line" /\ call' = [call EXCEPT !.acc = <<>>, !.cuts = {}]
             /\ UNCHANGED err
    <3>1. PICK data : data = a \o x
      OBVIOUS
    <3> QED
      BY <1>0, <1>1, <1>2, <1>8, <2>3, <3>1, ReadReturns
  <2> QED
    BY <2>1, <2>2, <2>3 DEF Deliver
<1>11. CASE ~done
  <2>1. PICK z \in Stream : z = a \o x /\ Len(z) = Len(a) + n
    <3>1. a \o x \in Stream /\ Len(a \o x) = Len(a) + Len(x)
      BY ConcatProperties DEF Stream
    <3> QED
      BY <1>8, <3>1
  <2> DEFINE k == [c EXCEPT !.acc = z, !.cuts = c.cuts \cup {Len(z)}]
  <2>2. Len(z) \in Nat
    BY LenProperties DEF Stream
  <2>3. /\ k \in ReadCalls /\ k.s = c.s /\ k.acc = z /\ k.op = c.op /\ k.delim = c.delim
        /\ k.n = c.n /\ k.cuts = c.cuts \cup {Len(z)}
    BY <2>2 DEF ReadCalls
  <2>4. call' = k /\ On(c.s, [sess[c.s] EXCEPT !.buf = y]) /\ UNCHANGED err
    BY <1>1, <1>6, <1>9, <1>11, <2>1
  <2> HIDE DEF k
  <2>5. ASSUME c.op = "n" PROVE Len(z) <= c.n
    BY <1>3, <1>5, <1>7, <1>11, <2>1, <2>5
  <2>6. ASSUME c.op \in {"until", "line"}, NEW i \in Places(z, c.delim)
        PROVE  IsCut(i, c.delim, k.cuts)
    <3>1. /\ c.delim # <<>> /\ (a # <<>> => Len(a) \in c.cuts)
          /\ \A m \in Places(a, c.delim) : IsCut(m, c.delim, c.cuts)
      BY <1>0, <1>1, <1>2, <2>6 DEF AccInv
    <3>2. Places(b, c.delim) = {}
      BY <1>4, <1>11, <2>6
    <3>3. n = Len(b)
      BY <1>1, <1>4, <2>6, <3>2 DEF Used
    <3>4. x = b
      BY <1>8, <3>3, SubSeqFull DEF Stream
    <3>5. IsCut(i, c.delim, c.cuts)
      BY <1>3, <2>1, <2>6, <3>1, <3>2, <3>4, GoesOn
    <3> QED
      BY <2>3, <3>5 DEF IsCut
  <2>7. AccInv'
    <3>1. c.op \in {"until", "line"} => c.delim # <<>>
      BY <1>0, <1>1 DEF AccInv
    <3> QED
      BY <2>3, <2>4, <2>5, <2>6, <3>1 DEF AccInv
  <2> QED
    BY <1>0, <1>1, <1>2, <1>8, <2>1, <2>3, <2>4, <2>7, ReadOn
<1> QED
  BY <1>10, <1>11

(* The end of the stream, and the read timeout.                             *)
LEMMA ReadEofKeeps ==
  ASSUME ScriptInv, ReadEof
  PROVE  ScriptInv'
<1>0. /\ call # NoCall /\ UNCHANGED <<end, cleared>> /\ UNCHANGED <<proxy, web, route>>
      /\ sess[call.s].buf = <<>>
  BY DEF ReadEof, Eof
<1>1. PICK e \in Stream : e = <<>>
  <2>1. <<>> \in Stream
    BY DEF Stream
  <2> QED
    BY <2>1
<1>2. CASE Fails(e)
  BY <1>0, <1>2, ReadFails
<1>3. CASE /\ On(call.s, [sess[call.s] EXCEPT !.buf = e, !.got = @ \o call.acc])
           /\ \/ call' = NoCall
              \/ call.op = "line" /\ call' = [call EXCEPT !.acc = <<>>, !.cuts = {}]
           /\ UNCHANGED err
  <2>1. call.acc \o e = call.acc /\ e \o e = sess[call.s].buf
    BY <1>0, <1>1, Reading, Unit
  <2>2. PICK data : data = call.acc
    OBVIOUS
  <2> QED
    BY <1>0, <1>3, <2>1, <2>2, ReadReturns
<1> QED
  BY <1>1, <1>2, <1>3 DEF ReadEof, AtEof, Deliver

(* What a read that times out has read is gone.                             *)
LEMMA ReadTimeoutKeeps ==
  ASSUME ScriptInv, ReadTimeout
  PROVE  ScriptInv'
<1>0. call # NoCall /\ UNCHANGED <<end, cleared>> /\ UNCHANGED <<proxy, web, route>>
  BY DEF ReadTimeout, WouldBlock
<1>1. PICK e \in Stream : e = <<>>
  <2>1. <<>> \in Stream
    BY DEF Stream
  <2> QED
    BY <2>1
<1>2. CASE Fails(e)
  BY <1>0, <1>2, ReadFails
<1>3. CASE /\ call.op \in {"recv", "until", "line"}
           /\ On(call.s, [sess[call.s] EXCEPT
                            !.lost = IF call.acc = <<>> THEN @ ELSE @ \cup {"timeout"}])
           /\ call' = IF call.op = "line" THEN [call EXCEPT !.acc = <<>>, !.cuts = {}] ELSE NoCall
           /\ UNCHANGED err
  <2>1. PICK r \in Sessions, s \in DOMAIN sess, a \in Stream :
          sess[s] = r /\ call.s = s /\ call.acc = a /\ Whole(r, a) /\ Known(r) /\ Socket(r.kind)
    BY <1>0, Reading
  <2>a. PICK l \in SUBSET {"timeout", "upgrade"} :
          l = IF a = <<>> THEN r.lost ELSE r.lost \cup {"timeout"}
    BY DEF Sessions
  <2>b. r.timeout
    BY <2>1 DEF ReadTimeout, WouldBlock
  <2> DEFINE n == [r EXCEPT !.lost = l]
  <2>2. /\ n \in Sessions /\ n.kind = r.kind /\ n.got = r.got /\ n.buf = r.buf
        /\ n.wire = r.wire /\ n.sent = r.sent /\ n.lost = l /\ n.timeout = r.timeout /\ n.told = r.told
    BY DEF Sessions
  <2>3. On(s, n)
    BY <1>3, <2>1, <2>a
  <2> HIDE DEF n
  <2>4. call' = NoCall \/ (call.op = "line" /\ call' = [call EXCEPT !.acc = <<>>, !.cuts = {}])
    BY <1>3
  <2>5. /\ call' \in ReadCalls \cup {NoCall} /\ call'.s \in {s, 0} /\ (call' # NoCall => call'.s = s)
        /\ Acc(s)' = <<>> /\ AccInv'
    BY <1>0, <2>1, <2>4, CallEmptied
  <2>6. Whole(n, <<>>) /\ Unbuffered(n) /\ Known(n)
    BY <2>1, <2>2, <2>a, <2>b, SocketKnown DEF Whole, Unbuffered
  <2>7. Elsewhere(s) /\ end = None /\ err \in BOOLEAN
    BY <1>0, <2>1, <2>5, Reading, ReadsOne DEF ScriptInv, TypeInv
  <2>8. TypeInv' /\ StreamInv' /\ EndInv'
    BY <1>0, <1>3, <2>1, <2>2, <2>3, <2>5, <2>6, <2>7, SessionStep
  <2> QED
    BY <1>0, <2>5, <2>8, WebStays DEF ScriptInv
<1> QED
  BY <1>1, <1>2, <1>3 DEF ReadTimeout

-----------------------------------------------------------------------------
(* Messages.                                                                *)

(* ws_recv_text and ws_recv_binary take messages off the wire, whatever     *)
(* pings come before them.                                                  *)
LEMMA ReadMessageKeeps ==
  ASSUME ScriptInv, NEW s \in DOMAIN sess, NEW op, ReadMessage(s, op)
  PROVE  ScriptInv'
<1>0. /\ TypeInv /\ StreamInv /\ end = None /\ call = NoCall /\ UNCHANGED <<call, end, cleared>>
      /\ UNCHANGED <<proxy, web, route>> /\ sess[s].kind = "ws" /\ err \in BOOLEAN
  BY DEF ScriptInv, TypeInv, ReadMessage, Usable, Call
<1>1. PICK r \in Sessions : sess[s] = r
  BY <1>0 DEF TypeInv
<1>2. ~Socket(r.kind) /\ r.kind = "ws" /\ Known(r)
  BY <1>0, <1>1 DEF Socket, StreamInv
<1>3. Acc(s) = <<>> /\ Whole(r, <<>>) /\ r.buf = <<>> /\ r.got \in Stream /\ r.wire \in Stream
  <2>1. Acc(s) = <<>>
    BY <1>0, NothingRead
  <2>2. Whole(r, Acc(s)) /\ Unbuffered(r)
    BY <1>0, <1>1 DEF StreamInv
  <2> QED
    BY <1>2, <2>1, <2>2 DEF Unbuffered, Sessions
<1> DEFINE pings == {i \in 1 .. Len(r.wire) : \A j \in 1 .. i : r.wire[j] = "ping"}
           k == Cardinality(pings)
<1>4. k \in 0 .. Len(r.wire)
  <2>1. Len(r.wire) \in Nat
    BY <1>3, LenProperties DEF Stream
  <2>2. IsFiniteSet(1 .. Len(r.wire)) /\ Cardinality(1 .. Len(r.wire)) = Len(r.wire)
    BY <2>1, FS_Interval
  <2>3. IsFiniteSet(pings) /\ Cardinality(pings) <= Len(r.wire)
    BY <2>2, FS_Subset
  <2>4. Cardinality(pings) \in Nat
    BY <2>3, FS_CardinalityType
  <2>5. \A c, n \in Nat : c <= n => c \in 0 .. n
    OBVIOUS
  <2> HIDE DEF pings
  <2> QED
    BY <2>1, <2>3, <2>4, <2>5
<1>5. PICK x \in Stream, y \in Stream : /\ x = SubSeq(r.wire, 1, k)
                                        /\ y = SubSeq(r.wire, k + 1, Len(r.wire))
                                        /\ x \o y = r.wire
  BY <1>3, <1>4, Cut
<1>6. PICK g \in Stream : g = r.got \o x
  BY <1>3, Closed
<1>7. \/ /\ y # <<>>
         /\ On(s, [r EXCEPT !.wire = Tail(y), !.got = Append(g, Head(y))])
         /\ UNCHANGED err
      \/ /\ y # <<>>
         /\ On(s, Told([r EXCEPT !.wire = Tail(y), !.got = g]))
         /\ SetError
      \/ /\ y = <<>>
         /\ On(s, [r EXCEPT !.wire = <<>>, !.got = g])
         /\ SetError \/ UNCHANGED err
  BY <1>1, <1>5, <1>6 DEF ReadMessage
<1> HIDE DEF k
<1>8. \A n \in Sessions :
        /\ n.kind = r.kind /\ n.lost = r.lost /\ n.buf = r.buf /\ On(s, n) /\ (SetError \/ UNCHANGED err)
        /\ n.told => r.told \/ SetError
        /\ Whole(n, <<>>)
        => ScriptInv'
  <2> SUFFICES ASSUME NEW n \in Sessions, n.kind = r.kind, n.lost = r.lost, n.buf = r.buf, On(s, n),
                      SetError \/ UNCHANGED err, n.told => r.told \/ SetError, Whole(n, <<>>)
               PROVE  ScriptInv'
    OBVIOUS
  <2>1. Unbuffered(n) /\ Known(n)
    BY <1>2, <1>3 DEF Unbuffered, Known, Causes, Framed
  <2>2. call' # NoCall => call'.s \in DOMAIN sess
    BY <1>0
  <2>3. TypeInv' /\ StreamInv' /\ EndInv'
    BY <1>0, <1>1, <1>3, <2>1, <2>2, CallStays, SessionStep DEF SetError
  <2> QED
    BY <1>0, <2>3, CallStays, WebStays DEF ScriptInv
<1>9. \A a, w \in Stream :
        LET n == [r EXCEPT !.wire = w, !.got = a] IN
        /\ n \in Sessions /\ n.kind = r.kind /\ n.buf = r.buf /\ n.got = a /\ n.wire = w
        /\ n.sent = r.sent /\ n.lost = r.lost /\ n.told = r.told
  BY DEF Sessions
<1>10. r.got \o <<>> \o r.buf = r.got /\ g \o y = r.got \o r.wire
  <2>1. r.got \o <<>> = r.got
    BY <1>3, Unit
  <2>2. (r.got \o x) \o y = r.got \o (x \o y)
    BY <1>3, Assoc, Zenon
  <2> QED
    BY <1>3, <1>5, <1>6, <2>1, <2>2
<1>11. ASSUME NEW a \in Stream, NEW w \in Stream, NEW n \in Sessions, a \o w = g \o y,
              n.buf = r.buf, n.got = a, n.wire = w, n.sent = r.sent, n.lost = r.lost, n.told = r.told
       PROVE  Whole(n, <<>>)
  <2>1. a \o <<>> = a
    BY Unit
  <2> QED
    BY <1>3, <1>10, <1>11, <2>1 DEF Whole
<1>12. CASE y # <<>> /\ On(s, [r EXCEPT !.wire = Tail(y), !.got = Append(g, Head(y))]) /\ UNCHANGED err
  <2>1. PICK a \in Stream, w \in Stream : a = Append(g, Head(y)) /\ w = Tail(y) /\ a \o w = g \o y
    <3>1. Append(g, Head(y)) \in Stream /\ Tail(y) \in Stream
      BY <1>12, HeadTailProperties DEF Stream
    <3> QED
      BY <1>12, <3>1, MessageMoves
  <2> DEFINE n == [r EXCEPT !.wire = w, !.got = a]
  <2>2. /\ n \in Sessions /\ n.kind = r.kind /\ n.buf = r.buf /\ n.got = a /\ n.wire = w
        /\ n.sent = r.sent /\ n.lost = r.lost /\ n.told = r.told
    BY <1>9
  <2>3. On(s, n)
    BY <1>12, <2>1
  <2> HIDE DEF n
  <2>4. Whole(n, <<>>)
    BY <1>11, <2>1, <2>2
  <2> QED
    BY <1>8, <1>12, <2>2, <2>3, <2>4
<1>13. CASE y # <<>> /\ On(s, Told([r EXCEPT !.wire = Tail(y), !.got = g])) /\ SetError
  <2>1. PICK w \in Stream : w = Tail(y)
    BY <1>13, HeadTailProperties DEF Stream
  <2> DEFINE m == [r EXCEPT !.wire = w, !.got = g]
             n == Told(m)
  <2>2. m \in Sessions /\ m.kind = r.kind /\ m.buf = r.buf /\ m.lost = r.lost
    BY <1>9
  <2>3. n \in Sessions /\ n.kind = r.kind /\ n.buf = r.buf /\ n.told /\ n.lost = r.lost
    <3> HIDE DEF m
    <3> QED
      BY <2>2 DEF Sessions, Told
  <2>4. On(s, n)
    BY <1>13, <2>1
  <2> HIDE DEF m, n
  <2> QED
    BY <1>8, <1>13, <2>3, <2>4 DEF Whole
<1>14. CASE y = <<>> /\ On(s, [r EXCEPT !.wire = <<>>, !.got = g]) /\ (SetError \/ UNCHANGED err)
  <2> DEFINE n == [r EXCEPT !.wire = y, !.got = g]
  <2>1. /\ n \in Sessions /\ n.kind = r.kind /\ n.buf = r.buf /\ n.got = g /\ n.wire = y
        /\ n.sent = r.sent /\ n.lost = r.lost /\ n.told = r.told
    BY <1>9
  <2>2. On(s, n)
    BY <1>14
  <2> HIDE DEF n
  <2>3. Whole(n, <<>>)
    BY <1>11, <2>1
  <2> QED
    BY <1>8, <1>14, <2>1, <2>2, <2>3
<1> QED
  BY <1>7, <1>12, <1>13, <1>14

(* The items that mqtt_recv and mqtt_subscribe take off the wire are given  *)
(* to the script, are gone with an error, or are gone because of a timeout; *)
(* and the rest of a packet comes first only when something was lost.       *)
LEMMA RecvPacketKeeps ==
  ASSUME ScriptInv, NEW s \in DOMAIN sess, NEW op \in {"recv", "subscribe"}, RecvPacket(s, op)
  PROVE  ScriptInv'
<1>0. /\ TypeInv /\ StreamInv /\ end = None /\ call = NoCall /\ UNCHANGED <<call, end, cleared>>
      /\ UNCHANGED <<proxy, web, route>> /\ sess[s].kind = "mqtt" /\ err \in BOOLEAN
  BY DEF ScriptInv, TypeInv, RecvPacket, Usable, Call
<1>1. PICK r \in Sessions : sess[s] = r /\ r.kind = "mqtt" /\ Known(r)
  BY <1>0 DEF TypeInv, StreamInv
<1>2. PICK g \in Stream, w \in Stream, q \in Stream : r.got = g /\ r.wire = w /\ r.sent = q
  BY DEF Sessions
<1>3. r.buf = <<>> /\ (g \o w = q \/ r.lost # {} \/ r.told)
  <2>1. Acc(s) = <<>>
    BY <1>0, NothingRead
  <2>2. Whole(r, <<>>) /\ Unbuffered(r)
    BY <1>0, <1>1, <2>1 DEF StreamInv
  <2>3. r.buf = <<>>
    BY <1>1, <2>2 DEF Unbuffered, Socket
  <2>4. g \o <<>> = g
    BY Unit
  <2> QED
    BY <1>2, <2>2, <2>3, <2>4 DEF Whole
<1>4. /\ \A i \in 1 .. Len(q) : q[i] = "rest" <=> i % 2 = 0
      /\ r.lost = {} /\ ~r.told => Len(g) % 2 = 0
      /\ "timeout" \in r.lost => r.timeout
      /\ "upgrade" \notin r.lost
  BY <1>1, <1>2 DEF Known, Causes, Framed
<1>5. ASSUME NEW n \in Sessions, On(s, n), SetError \/ UNCHANGED err, n.told => r.told \/ SetError,
             n.kind = "mqtt", n.buf = <<>>, n.timeout = r.timeout, n.sent = q,
             "timeout" \in n.lost => r.timeout, "upgrade" \notin n.lost,
             \/ n.lost # {} \/ n.told
             \/ n.got \in Stream /\ n.got \o n.wire = q /\ Len(n.got) % 2 = 0
      PROVE  ScriptInv'
  <2>1. Acc(s) = <<>> /\ Unbuffered(n)
    BY <1>0, <1>5, NothingRead DEF Unbuffered
  <2>2. Whole(n, <<>>)
    <3>1. CASE n.lost # {} \/ n.told
      BY <3>1 DEF Whole
    <3>2. CASE n.got \in Stream /\ n.got \o n.wire = q
      <4>1. n.got \o <<>> = n.got
        BY <3>2, Unit
      <4> QED
        BY <1>5, <3>2, <4>1 DEF Whole
    <3> QED
      BY <1>5, <3>1, <3>2
  <2>3. Known(n)
    BY <1>4, <1>5 DEF Known, Causes, Framed
  <2>4. call' # NoCall => call'.s \in DOMAIN sess
    BY <1>0
  <2>5. call'.s # s
    BY <1>0, NothingRead
  <2>6. TypeInv' /\ StreamInv' /\ EndInv'
    <3>1. Elsewhere(s) /\ call' \in ReadCalls \cup {NoCall} /\ Acc(s)' = <<>>
      BY <1>0, <2>1, CallStays
    <3>2. err' \in BOOLEAN /\ (err => err') /\ (n.told => sess[s].told \/ err')
      <4>1. CASE SetError
        BY <4>1 DEF SetError
      <4>2. CASE ~SetError /\ UNCHANGED err
        BY <1>0, <1>1, <1>5, <4>2, Zenon
      <4> QED
        BY <1>5, <4>1, <4>2
    <3> QED
      BY <1>0, <1>5, <2>1, <2>2, <2>3, <2>4, <2>5, <3>1, <3>2, SessionStep
  <2> QED
    BY <1>0, <2>6, CallStays, WebStays DEF ScriptInv
<1>6. /\ Len(w) \in Nat /\ Len(g) \in Nat /\ (w = <<>> <=> Len(w) = 0)
      /\ Len(g \o w) = Len(g) + Len(w)
      /\ \A i \in 1 .. Len(g) + Len(w) : (g \o w)[i] = IF i <= Len(g) THEN g[i] ELSE w[i - Len(g)]
  BY LenProperties, EmptySeq, ConcatProperties DEF Stream
<1>7. CASE WholePacket(s, op)
  <2>1. Len(w) >= 2
    BY <1>1, <1>2, <1>7 DEF WholePacket
  <2>2. PICK x \in Stream, y \in Stream :
          x = SubSeq(w, 1, 2) /\ y = SubSeq(w, 3, Len(w)) /\ x \o y = w /\ Len(x) = 2
    <3>1. PICK k \in 0 .. Len(w) : k = 2
      BY <1>6, <2>1
    <3>2. PICK x \in Stream, y \in Stream :
            x = SubSeq(w, 1, k) /\ y = SubSeq(w, k + 1, Len(w)) /\ x \o y = w /\ Len(x) = k
      BY Cut
    <3>3. x = SubSeq(w, 1, 2) /\ y = SubSeq(w, 3, Len(w)) /\ x \o y = w /\ Len(x) = 2
      BY <3>1, <3>2
    <3> QED
      BY <3>3, Zenon
  <2>3. PICK h \in Stream : h = g \o x /\ Len(h) = Len(g) + 2 /\ h \o y = g \o w
    <3>1. g \o x \in Stream /\ Len(g \o x) = Len(g) + Len(x)
      BY ConcatProperties DEF Stream
    <3>2. (g \o x) \o y = g \o (x \o y)
      BY Assoc, Zenon
    <3> QED
      BY <2>2, <3>1, <3>2
  <2>4. CASE On(s, [r EXCEPT !.wire = y, !.got = h]) /\ UNCHANGED err
    <3> DEFINE n == [r EXCEPT !.wire = y, !.got = h]
    <3>1. /\ n \in Sessions /\ n.kind = r.kind /\ n.buf = r.buf /\ n.timeout = r.timeout
          /\ n.sent = r.sent /\ n.lost = r.lost /\ n.told = r.told /\ n.got = h /\ n.wire = y
      BY DEF Sessions
    <3>2. On(s, n)
      BY <2>4
    <3> HIDE DEF n
    <3>3. Len(g) % 2 = 0 => Len(h) % 2 = 0
      BY <1>6, <2>3
    <3> QED
      BY <1>1, <1>2, <1>3, <1>4, <1>5, <2>3, <2>4, <3>1, <3>2, <3>3
  <2>5. CASE On(s, Told([r EXCEPT !.wire = y])) /\ SetError
    <3> DEFINE n == Told([r EXCEPT !.wire = y])
    <3>1. /\ n \in Sessions /\ n.kind = r.kind /\ n.buf = r.buf /\ n.timeout = r.timeout
          /\ n.sent = r.sent /\ n.lost = r.lost /\ n.told
      BY DEF Sessions, Told
    <3>2. On(s, n)
      BY <2>5
    <3> HIDE DEF n
    <3> QED
      BY <1>1, <1>2, <1>3, <1>4, <1>5, <2>5, <3>1, <3>2
  <2> QED
    BY <1>1, <1>2, <1>7, <2>2, <2>3, <2>4, <2>5 DEF WholePacket
<1>8. CASE NoPacket(s, op)
  <2>0. <<>> \in Stream
    BY DEF Stream
  <2>1. ASSUME NEW told \in BOOLEAN, told = (r.told \/ w # <<>>), SetError,
               On(s, [r EXCEPT !.wire = <<>>, !.told = told])
        PROVE  ScriptInv'
    <3> DEFINE n == [r EXCEPT !.wire = <<>>, !.told = told]
    <3>1. /\ n \in Sessions /\ n.kind = r.kind /\ n.buf = r.buf /\ n.timeout = r.timeout
          /\ n.sent = r.sent /\ n.lost = r.lost /\ n.told = told /\ n.got = g /\ n.wire = <<>>
      BY <1>2, <2>0 DEF Sessions
    <3>2. On(s, n)
      BY <2>1
    <3> HIDE DEF n
    <3>3. \/ n.lost # {} \/ n.told
          \/ n.got \in Stream /\ n.got \o n.wire = q /\ Len(n.got) % 2 = 0
      BY <1>3, <1>4, <2>1, <3>1
    <3>4. n.told => r.told \/ SetError
      BY <2>1
    <3> QED
      BY <1>1, <1>2, <1>3, <1>4, <1>5, <2>1, <3>1, <3>2, <3>3, <3>4
  <2>2. ASSUME NEW l \in SUBSET {"timeout", "upgrade"}, UNCHANGED err,
               l = IF w # <<>> THEN r.lost \cup {"timeout"} ELSE r.lost, r.timeout,
               On(s, [r EXCEPT !.wire = <<>>, !.lost = l])
        PROVE  ScriptInv'
    <3> DEFINE n == [r EXCEPT !.wire = <<>>, !.lost = l]
    <3>1. /\ n \in Sessions /\ n.kind = r.kind /\ n.buf = r.buf /\ n.timeout = r.timeout
          /\ n.sent = r.sent /\ n.lost = l /\ n.told = r.told /\ n.got = g /\ n.wire = <<>>
      BY <1>2, <2>0 DEF Sessions
    <3>2. On(s, n)
      BY <2>2
    <3> HIDE DEF n
    <3>3. \/ n.lost # {} \/ n.told
          \/ n.got \in Stream /\ n.got \o n.wire = q /\ Len(n.got) % 2 = 0
      BY <1>3, <1>4, <2>2, <3>1
    <3>4. ("timeout" \in n.lost => r.timeout) /\ "upgrade" \notin n.lost
      BY <1>4, <2>2, <3>1
    <3> QED
      BY <1>1, <1>2, <1>3, <1>5, <2>2, <3>1, <3>2, <3>3, <3>4
  <2>3. (r.told \/ w # <<>>) \in BOOLEAN
    OBVIOUS
  <2>4. (IF w # <<>> THEN r.lost \cup {"timeout"} ELSE r.lost) \in SUBSET {"timeout", "upgrade"}
    BY DEF Sessions
  <2> QED
    BY <1>1, <1>2, <1>8, <2>1, <2>2, <2>3, <2>4 DEF NoPacket
<1>9. CASE OutOfStep(s)
  <2>1. w # <<>> /\ w[1] = "rest" /\ (SetError \/ UNCHANGED err)
    BY <1>1, <1>2, <1>9 DEF OutOfStep
  <2>2. r.lost # {} \/ r.told
    <3> SUFFICES ASSUME r.lost = {}, ~r.told PROVE FALSE
      OBVIOUS
    <3>1. g \o w = q /\ Len(g) % 2 = 0
      BY <1>3, <1>4
    <3>2. Len(g) + 1 \in 1 .. Len(q) /\ q[Len(g) + 1] = w[1]
      BY <1>6, <2>1, <3>1
    <3>3. (Len(g) + 1) % 2 = 0
      BY <1>4, <2>1, <3>2
    <3>4. \A l \in Nat : ~(l % 2 = 0 /\ (l + 1) % 2 = 0)
      OBVIOUS
    <3> QED
      BY <1>6, <3>1, <3>3, <3>4
  <2>3. PICK k \in 1 .. Len(w) : On(s, [r EXCEPT !.wire = SubSeq(w, k + 1, Len(w))])
    BY <1>1, <1>2, <1>9 DEF OutOfStep
  <2>4. PICK y \in Stream : y = SubSeq(w, k + 1, Len(w))
    <3>1. k \in 0 .. Len(w)
      BY <1>6
    <3> QED
      BY <3>1, Cut
  <2> DEFINE n == [r EXCEPT !.wire = y]
  <2>5. /\ n \in Sessions /\ n.kind = r.kind /\ n.buf = r.buf /\ n.timeout = r.timeout
        /\ n.sent = r.sent /\ n.lost = r.lost /\ n.told = r.told
    BY DEF Sessions
  <2>6. On(s, n)
    BY <2>3, <2>4
  <2> HIDE DEF n
  <2> QED
    BY <1>1, <1>2, <1>3, <1>4, <1>5, <2>1, <2>2, <2>5, <2>6
<1> QED
  BY <1>7, <1>8, <1>9 DEF RecvPacket

-----------------------------------------------------------------------------
(* The other calls, and all of them.                                        *)

(* The calls that read and write no stream.                                 *)
LEMMA OtherCalls ==
  ASSUME ScriptInv,
         \/ ClearErr \/ SetErr \/ Finish \/ MakeSession
         \/ \E s \in DOMAIN sess : Panic(s) \/ SendFails(s)
         \/ \E k \in DOMAIN jars, o \in Proxies \cup {None} : MakeRequest(k, o)
         \/ \E r \in reqs : SendRequest(r)
  PROVE  ScriptInv'
<1>0. TypeInv /\ EndInv /\ WebInv /\ err \in BOOLEAN /\ cleared \in BOOLEAN
  BY DEF ScriptInv, TypeInv
<1>1. end = None /\ call = NoCall /\ UNCHANGED <<sess, call>>
  BY DEF ClearErr, SetErr, Finish, MakeSession, Panic, Usable, SendFails, MakeRequest, SendRequest,
         Call
<1>2. CASE ClearErr
  BY <1>0, <1>1, <1>2, QuietCalls, WebStays, ScriptAssumption DEF ClearErr, ScriptInv
<1>3. CASE SetErr \/ \E s \in DOMAIN sess : SendFails(s)
  BY <1>0, <1>1, <1>3, QuietCalls, WebStays, ScriptAssumption DEF SetErr, SendFails, SetError, ScriptInv
<1>4. CASE Finish
  <2>1. UNCHANGED <<err, cleared>> /\ (end' = "ok" => ~err) /\ UNCHANGED <<proxy, web, route>>
    BY <1>4 DEF Finish, Return
  <2> QED
    BY <1>0, <1>1, <2>1, QuietCalls, WebStays DEF ScriptInv
<1>5. CASE \E s \in DOMAIN sess : Panic(s)
  BY <1>0, <1>1, <1>5, QuietCalls, WebStays DEF Panic, ScriptInv
<1>6. CASE MakeSession
  BY <1>0, <1>1, <1>6, QuietCalls, MakeSessionWeb, ScriptAssumption DEF MakeSession, ScriptInv
<1>7. ASSUME NEW k \in DOMAIN jars, NEW o \in Proxies \cup {None}, MakeRequest(k, o)
      PROVE  ScriptInv'
  BY <1>0, <1>1, <1>7, QuietCalls, MakeRequestWeb, ScriptAssumption DEF MakeRequest, ScriptInv
<1>8. ASSUME NEW r \in reqs, SendRequest(r)
      PROVE  ScriptInv'
  <2>1. UNCHANGED <<end, cleared>> /\ (err' = TRUE \/ UNCHANGED err)
    BY <1>8 DEF SendRequest, SetError, Fetched
  <2> QED
    BY <1>0, <1>1, <1>8, <2>1, QuietCalls, SendRequestWeb, ScriptAssumption DEF ScriptInv
<1> QED
  BY <1>2, <1>3, <1>4, <1>5, <1>6, <1>7, <1>8

(* The reads a script can begin.                                            *)
LEMMA BeginCalls ==
  ASSUME ScriptInv, NEW s \in DOMAIN sess,
         \/ Begin(s, "recv", <<>>, 0) \/ Begin(s, "all", <<>>, 0)
         \/ \E d \in Delims : Begin(s, "until", d, 0) \/ Begin(s, "line", d, 0)
         \/ \E n \in Counts : Begin(s, "n", <<>>, n)
  PROVE  ScriptInv'
<1>1. <<>> \in Seq(Bytes) /\ 0 \in Nat
  OBVIOUS
<1>2. \A d \in Delims : d \in Seq(Bytes) /\ d # <<>>
  BY ScriptAssumption
<1>3. \A n \in Counts : n \in Nat
  BY ScriptAssumption
<1>4. CASE Begin(s, "recv", <<>>, 0)
  BY <1>1, <1>4, BeginKeeps
<1>5. CASE Begin(s, "all", <<>>, 0)
  BY <1>1, <1>5, BeginKeeps
<1>6. ASSUME NEW d \in Delims, Begin(s, "until", d, 0) PROVE ScriptInv'
  BY <1>1, <1>2, <1>6, BeginKeeps
<1>7. ASSUME NEW d \in Delims, Begin(s, "line", d, 0) PROVE ScriptInv'
  BY <1>1, <1>2, <1>7, BeginKeeps
<1>8. ASSUME NEW n \in Counts, Begin(s, "n", <<>>, n) PROVE ScriptInv'
  BY <1>1, <1>3, <1>8, BeginKeeps
<1> QED
  BY <1>4, <1>5, <1>6, <1>7, <1>8

(* Every step keeps the invariant.                                          *)
LEMMA ScriptNext ==
  ASSUME ScriptInv, [Next]_vars
  PROVE  ScriptInv'
<1>1. CASE UNCHANGED vars
  <2>1. UNCHANGED <<err, sess, call, end, cleared>> /\ UNCHANGED <<proxy, web, route>>
    BY <1>1 DEF vars
  <2>2. TypeInv' /\ EndInv' /\ AccInv' /\ StreamInv'
    BY <2>1 DEF ScriptInv, TypeInv, EndInv, AccInv, StreamInv, Acc
  <2> QED
    BY <2>1, <2>2, WebStays DEF ScriptInv
<1>2. CASE Step
  BY <1>2, FillKeeps, ReadKeeps, ReadEofKeeps, ReadTimeoutKeeps DEF Step
<1>3. ASSUME NEW kind \in Kinds, NEW o \in Proxies \cup {None}, Connect(kind, o)
      PROVE  ScriptInv'
  BY <1>3, ConnectKeeps
<1>4. ASSUME NEW s \in DOMAIN sess,
             \/ Panic(s) \/ Upgrade(s) \/ Options(s) \/ SendFails(s) \/ PeerCloses(s)
             \/ \E x \in Items(sess[s]) : PeerSends(s, x)
             \/ Begin(s, "recv", <<>>, 0) \/ Begin(s, "all", <<>>, 0)
             \/ \E d \in Delims : Begin(s, "until", d, 0) \/ Begin(s, "line", d, 0)
             \/ \E n \in Counts : Begin(s, "n", <<>>, n)
             \/ \E op \in {"text", "binary"} : ReadMessage(s, op)
             \/ \E op \in {"recv", "subscribe"} : RecvPacket(s, op)
      PROVE  ScriptInv'
  <2>1. CASE Panic(s) \/ SendFails(s)
    BY <2>1, OtherCalls
  <2>2. CASE Upgrade(s)
    BY <2>2, UpgradeKeeps
  <2>3. CASE Options(s) \/ PeerCloses(s)
    BY <2>3, OptionsKeep
  <2>4. CASE \E x \in Items(sess[s]) : PeerSends(s, x)
    BY <2>4, PeerSendsKeeps
  <2>5. CASE \/ Begin(s, "recv", <<>>, 0) \/ Begin(s, "all", <<>>, 0)
             \/ \E d \in Delims : Begin(s, "until", d, 0) \/ Begin(s, "line", d, 0)
             \/ \E n \in Counts : Begin(s, "n", <<>>, n)
    BY <2>5, BeginCalls
  <2>6. CASE \E op \in {"text", "binary"} : ReadMessage(s, op)
    BY <2>6, ReadMessageKeeps
  <2>7. CASE \E op \in {"recv", "subscribe"} : RecvPacket(s, op)
    BY <2>7, RecvPacketKeeps
  <2> QED
    BY <1>4, <2>1, <2>2, <2>3, <2>4, <2>5, <2>6, <2>7
<1>5. CASE \/ ClearErr \/ SetErr \/ Finish \/ MakeSession
           \/ \E k \in DOMAIN jars, o \in Proxies \cup {None} : MakeRequest(k, o)
           \/ \E r \in reqs : SendRequest(r)
  BY <1>5, OtherCalls
<1> QED
  BY <1>1, <1>2, <1>3, <1>4, <1>5 DEF Next

(* The invariant holds in every state.                                      *)
LEMMA ScriptHolds == Spec => []ScriptInv
BY ScriptInit, ScriptNext, PTL DEF Spec

-----------------------------------------------------------------------------
(* Whatever calls a script mixes and however the network cuts the stream,   *)
(* what the peer sent is what the script has got and what is still to come, *)
(* unless a call has failed, and then the script ends well only if it has   *)
(* called clear_err; the losses it is not told of are those of a read       *)
(* timeout on a socket or mqtt connection, and of sock_upgrade_tls.         *)
THEOREM OnlyKnownLosses == Spec => []LossesAreKnown
<1>1. ASSUME ScriptInv PROVE LossesAreKnown
  <2>1. StreamInv /\ EndInv
    BY <1>1 DEF ScriptInv
  <2>2. ASSUME NEW s \in DOMAIN sess
        PROVE  LET r == sess[s] IN
               /\ \/ r.got \o (IF call.s = s THEN call.acc ELSE <<>>) \o r.buf \o r.wire = r.sent
                  \/ r.lost # {} \/ r.told
               /\ "timeout" \in r.lost => r.timeout /\ r.kind # "ws"
               /\ "upgrade" \in r.lost => r.kind = "tls"
    BY <2>1 DEF StreamInv, Whole, Acc, Known, Causes
  <2>3. end = "ok" /\ ~cleared => \A s \in DOMAIN sess : ~sess[s].told
    BY <2>1 DEF EndInv
  <2> QED
    BY <2>2, <2>3 DEF LossesAreKnown
<1> QED
  BY <1>1, ScriptHolds, PTL

(* The configured proxy, or the one the call asks for, is the one that is   *)
(* used, although WebState keeps clients from earlier requests; and the     *)
(* cookies a request carries are those of its own session.                  *)
THEOREM RequestsHold == Spec => []RequestsStayApart
BY ScriptHolds, PTL DEF ScriptInv, WebInv

(* While a call has bytes in the buffer, only reading them gives the script *)
(* something.                                                               *)
LEMMA OnlyReading ==
  ASSUME ScriptInv, Next, Buffered, sess'[call.s].got # sess[call.s].got
  PROVE  Read
<1>0. call # NoCall /\ sess[call.s].buf # <<>>
  BY DEF Buffered
<1>1. /\ ~Call /\ ~Finish
      /\ ~Fill /\ ~ReadEof /\ ~ReadTimeout
  BY <1>0 DEF Call, Finish, Fill, ReadEof, Eof, ReadTimeout, WouldBlock
<1>2. ~ClearErr /\ ~SetErr /\ ~MakeSession /\ ~\E kind \in Kinds, o \in Proxies \cup {None} : Connect(kind, o)
  BY <1>1 DEF ClearErr, SetErr, MakeSession, Connect
<1>3. /\ ~\E k \in DOMAIN jars, o \in Proxies \cup {None} : MakeRequest(k, o)
      /\ ~\E r \in reqs : SendRequest(r)
  BY <1>1 DEF MakeRequest, SendRequest
<1>4. ASSUME NEW s \in DOMAIN sess
      PROVE  /\ ~Panic(s) /\ ~Upgrade(s) /\ ~Options(s) /\ ~SendFails(s)
             /\ \A op, d, n : ~Begin(s, op, d, n) /\ ~ReadMessage(s, op) /\ ~RecvPacket(s, op)
  BY <1>1 DEF Panic, Upgrade, Options, SendFails, Begin, ReadMessage, RecvPacket, Usable
<1>5. ASSUME NEW t \in DOMAIN sess, NEW n \in Sessions, n.got = sess[t].got, On(t, n)
      PROVE  FALSE
  BY <1>0, <1>5, Reading DEF On, ScriptInv, TypeInv
<1>6. ASSUME NEW t \in DOMAIN sess PROVE ~PeerCloses(t) /\ \A x \in Items(sess[t]) : ~PeerSends(t, x)
  <2>1. PICK r \in Sessions : sess[t] = r
    BY DEF ScriptInv, TypeInv
  <2>2. ~PeerCloses(t)
    <3> DEFINE n == [r EXCEPT !.closed = TRUE]
    <3>1. n \in Sessions /\ n.got = r.got
      BY DEF Sessions
    <3>2. PeerCloses(t) => On(t, n)
      BY <2>1 DEF PeerCloses
    <3> HIDE DEF n
    <3> QED
      BY <1>5, <2>1, <3>1, <3>2
  <2>3. ASSUME NEW x \in Items(r), PeerSends(t, x) PROVE FALSE
    <3>1. x \in Item
      BY DEF Items, Types, Item, Sessions
    <3>2. Append(r.wire, x) \in Stream /\ Append(r.sent, x) \in Stream
      BY <3>1 DEF Sessions, Stream
    <3> DEFINE n == [r EXCEPT !.wire = Append(r.wire, x), !.sent = Append(r.sent, x)]
    <3>3. n \in Sessions /\ n.got = r.got
      BY <3>2 DEF Sessions
    <3>4. On(t, n)
      BY <2>1, <2>3 DEF PeerSends
    <3> HIDE DEF n
    <3> QED
      BY <1>5, <2>1, <3>3, <3>4
  <2> QED
    BY <2>1, <2>2, <2>3
<1> QED
  BY <1>1, <1>2, <1>3, <1>4, <1>6 DEF Next, Step

(* sock_recvuntil gives the script bytes that end with the delimiter and    *)
(* that hold no other one, except where two reads of the stream have cut it *)
(* in two: find looks at one buffer at a time.                              *)
THEOREM StopsHold == Spec => StopsAtFirst
<1> DEFINE stops ==
      Buffered /\ call.op \in {"until", "line"} /\ sess'[call.s].got # sess[call.s].got =>
        LET data == SubSeq(sess'[call.s].got, Len(sess[call.s].got) + 1, Len(sess'[call.s].got))
            last == Len(data) - Len(call.delim) + 1
        IN  /\ last \in Places(data, call.delim)
            /\ \A i \in Places(data, call.delim) \ {last} :
                 \E c \in call.cuts : i <= c /\ c < i + Len(call.delim) - 1
<1>1. ASSUME ScriptInv, Next PROVE stops
  <2> SUFFICES ASSUME Buffered, call.op \in {"until", "line"}, sess'[call.s].got # sess[call.s].got
               PROVE  LET data == SubSeq(sess'[call.s].got, Len(sess[call.s].got) + 1,
                                         Len(sess'[call.s].got))
                          last == Len(data) - Len(call.delim) + 1
                      IN  /\ last \in Places(data, call.delim)
                          /\ \A i \in Places(data, call.delim) \ {last} :
                               IsCut(i, call.delim, call.cuts)
    BY DEF IsCut
  <2>0. Read /\ call # NoCall /\ AccInv
    BY <1>1, OnlyReading DEF Buffered, ScriptInv
  <2>1. PICK c \in ReadCalls, r \in Sessions :
          call = c /\ sess[c.s] = r /\ c.op \in {"until", "line"} /\ c.s \in DOMAIN sess
    BY <1>1, <2>0, Reading
  <2>2. PICK a \in Stream, b \in Stream, d \in Seq(Bytes), g \in Stream :
          c.acc = a /\ r.buf = b /\ c.delim = d /\ r.got = g
    BY DEF ReadCalls, Sessions
  <2>3. /\ d # <<>> /\ (a # <<>> => Len(a) \in c.cuts)
        /\ \A m \in Places(a, d) : IsCut(m, d, c.cuts)
    BY <2>0, <2>1, <2>2 DEF AccInv
  <2>4. Used \in 0 .. Len(b)
    BY <2>1, <2>2, <2>3, UsedIs
  <2>5. PICK x \in Stream, y \in Stream : /\ x = SubSeq(b, 1, Used) /\ y = SubSeq(b, Used + 1, Len(b))
                                          /\ x \o y = b /\ Len(x) = Used
    BY <2>4, Cut
  <2>6. Taken(Used) = a \o x
    BY <2>1, <2>2, <2>5 DEF Taken
  <2>7. /\ Places(b, d) # {}
        /\ sess'[c.s].got = g \o (a \o x)
    <3>1. IF Places(b, d) # {} THEN Deliver(Taken(Used), Consume(Used))
          ELSE On(c.s, [r EXCEPT !.buf = Consume(Used)])
      BY <2>0, <2>1, <2>2 DEF Read
    <3>2. ASSUME NEW n, On(c.s, n) PROVE sess'[c.s] = n
      BY <1>1, <2>1, <3>2 DEF On, ScriptInv, TypeInv
    <3>3. ASSUME NEW z, On(c.s, [r EXCEPT !.buf = z]) PROVE FALSE
      <4>1. [r EXCEPT !.buf = z].got = r.got
        BY DEF Sessions
      <4> QED
        BY <2>1, <3>2, <3>3, <4>1
    <3>4. ASSUME NEW z, On(c.s, Told([r EXCEPT !.buf = z])) PROVE FALSE
      <4>1. Told([r EXCEPT !.buf = z]).got = r.got
        BY DEF Sessions, Told
      <4> QED
        BY <2>1, <3>2, <3>4, <4>1
    <3>5. On(c.s, [r EXCEPT !.buf = Consume(Used), !.got = r.got \o (a \o x)]) /\ Places(b, d) # {}
      BY <2>1, <2>6, <3>1, <3>3, <3>4 DEF Deliver, Fails
    <3> DEFINE n == [r EXCEPT !.buf = Consume(Used), !.got = r.got \o (a \o x)]
    <3>6. n.got = r.got \o (a \o x)
      BY DEF Sessions
    <3> HIDE DEF n
    <3>7. sess'[c.s] = n
      BY <3>2, <3>5 DEF n
    <3> QED
      BY <2>2, <3>5, <3>6, <3>7
  <2>8. PICK f \in Places(b, d) : Used = f + Len(d) - 1 /\ \A m \in Places(b, d) : f <= m
    BY <2>1, <2>2, <2>3, <2>7, UsedIs
  <2>9. Len(d) \in Nat /\ Len(d) > 0 /\ Len(b) \in Nat /\ f \in 1 .. Len(b) - Len(d) + 1
    BY <2>3, LenProperties, EmptySeq DEF Stream, Places
  <2>10. f \in Places(x, d) /\ \A m \in Places(x, d) : f <= m
    <3>1. f + Len(d) - 1 <= Len(x)
      BY <2>5, <2>8, <2>9
    <3>2. \A m \in Places(b, d) : m + Len(d) - 1 <= Len(x) => m \in Places(x, d)
      BY <2>3, <2>5, PlacesJoin
    <3>3. \A m \in Places(x, d) : m \in Places(b, d)
      BY <2>3, <2>5, PlacesJoin
    <3> QED
      BY <2>8, <3>1, <3>2, <3>3
  <2>11. PICK z \in Stream : z = a \o x /\ Len(z) \in Nat /\ Len(z) > 0
    <3>1. a \o x \in Stream /\ Len(a \o x) = Len(a) + Len(x) /\ Len(a) \in Nat
      BY ConcatProperties, LenProperties DEF Stream
    <3>2. Len(a \o x) \in Nat /\ Len(a \o x) > 0
      BY <2>5, <2>8, <2>9, <3>1
    <3> QED
      BY <3>1, <3>2, Zenon
  <2>12. SubSeq(g \o z, Len(g) + 1, Len(g \o z)) = z
    <3>1. Len(g) \in Nat /\ Len(g \o z) = Len(g) + Len(z)
      BY ConcatProperties, LenProperties DEF Stream
    <3>2. Len(g) + 1 \in Len(g) + 1 .. Len(g) + Len(z) /\ Len(g) + Len(z) \in Len(g) + 1 .. Len(g) + Len(z)
      BY <2>11, <3>1
    <3>3. SubSeq(g \o z, Len(g) + 1, Len(g) + Len(z))
            = SubSeq(z, Len(g) + 1 - Len(g), Len(g) + Len(z) - Len(g))
      BY <3>2, SubSeqOfConcat2 DEF Stream
    <3>4. Len(g) + 1 - Len(g) = 1 /\ Len(g) + Len(z) - Len(g) = Len(z)
      BY <2>11, <3>1
    <3> QED
      BY <3>1, <3>3, <3>4, SubSeqFull DEF Stream
  <2>13. LET last == Len(z) - Len(d) + 1
         IN  last \in Places(z, d) /\ \A i \in Places(z, d) \ {last} : IsCut(i, d, c.cuts)
    BY <2>3, <2>5, <2>8, <2>10, <2>11, StopsHere
  <2> QED
    BY <2>1, <2>2, <2>7, <2>11, <2>12, <2>13
<1>2. ScriptInv /\ [Next]_vars => [stops]_vars
  BY <1>1
<1> QED
  BY <1>2, ScriptHolds, PTL DEF Spec, StopsAtFirst
=============================================================================
