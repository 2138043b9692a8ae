---------------------------- MODULE HttpdProofs ----------------------------
(***************************************************************************)
(* The HTTP server for any number of clients, limits, routes, requests and *)
(* failures.  First, the connections are counted and watched exactly       *)
(* (HttpdInv).  Then, what has arrived, what waits and what is sent of the *)
(* last request add up to it (ExchangeInv): the server knows at each event *)
(* which request it is at, so that every answer is the one that request    *)
(* gets.  Last, path_clean and match_route compute what their definitions  *)
(* by survivors and by fit say.                                            *)
(***************************************************************************)
EXTENDS Httpd, FiniteSetTheorems, TLAPS

Fields ==
    {"st", "watch", "timer", "rlen", "done", "v10", "answer", "empty", "wsent", "closing"}

\* A record with the fields of a connection.
IsConn(cn) == cn = [x \in Fields |-> cn[x]]

\* The write callback is bound exactly while there is an answer.
Watched(cn) == cn.watch = "write" <=> cn.answer # NoAnswer

\* What a handler may leave behind.
Good(cn) ==
    /\ IsConn(cn)
    /\ cn.st \in {"open", "closed"}
    /\ Watched(cn)

\* A connection between two requests, or within one.
Reading(cn) ==
    IsConn(cn) /\ cn.st = "open" /\ cn.watch = "read" /\ cn.answer = NoAnswer

\* What conn_close leaves is a connection record without an answer.
LEMMA ClosedGood == Good(Closed) /\ Closed.st = "closed"
<1>1. IsConn(NoConn) /\ NoConn.answer = NoAnswer /\ NoConn.watch = "read"
  BY DEF IsConn, Fields, NoConn
<1>2. /\ IsConn(Closed) /\ Closed.st = "closed"
      /\ Closed.answer = NoAnswer /\ Closed.watch = "read"
  BY <1>1 DEF IsConn, Fields, Closed
<1> QED
  BY <1>2 DEF Good, Watched

\* conn_close as an outcome.
LEMMA CloseGood ==
    ASSUME NEW nt, NEW f, NEW out \in ConnClose(nt, f)
    PROVE  Good(out.cn)
BY ClosedGood DEF ConnClose, Out

\* A failure handled by conn_close.
LEMMA FailCloseGood ==
    ASSUME NEW nt, NEW f, NEW out \in FailClose(nt, f)
    PROVE  Good(out.cn)
BY ClosedGood DEF FailClose, Out

\* reset_idle_timer touches only the timer.
LEMMA ResetTimerKeeps ==
    ASSUME NEW cn, IsConn(cn), NEW f, NEW t \in ResetIdleTimer(cn, f)
    PROVE  /\ IsConn(t[1]) /\ t[1].st = cn.st
           /\ t[1].watch = cn.watch /\ t[1].answer = cn.answer
<1>1. \E x : t[1] = [cn EXCEPT !.timer = x]
  <2>1. \E x, g : t = <<[cn EXCEPT !.timer = x], g>>
    BY Zenon DEF ResetIdleTimer
  <2> QED
    BY <2>1
<1>2. PICK x : t[1] = [cn EXCEPT !.timer = x]
  BY <1>1, Zenon
<1> QED
  BY <1>2 DEF IsConn, Fields

\* After the last byte start_write closes the connection or binds the read callback
\* and forgets the answer.
LEMMA FullyWrittenGood ==
    ASSUME NEW cn, IsConn(cn), cn.st = "open", NEW nt, NEW f,
           NEW out \in FullyWritten(cn, nt, f)
    PROVE  Good(out.cn)
<1> DEFINE next == [ConnResetForNextRequest(cn) EXCEPT !.watch = "read"]
<1>1. IsConn(next) /\ next.st = "open" /\ next.watch = "read" /\ next.answer = NoAnswer
  <2>1. /\ IsConn(ConnResetForNextRequest(cn))
        /\ ConnResetForNextRequest(cn).st = "open"
        /\ ConnResetForNextRequest(cn).answer = NoAnswer
    BY Zenon DEF IsConn, Fields, ConnResetForNextRequest
  <2> QED
    BY <2>1 DEF IsConn, Fields
<1>2. ASSUME NEW t \in ResetIdleTimer(next, f), out = Out(t[1], nt, t[2])
      PROVE  Good(out.cn)
  <2> HIDE DEF next
  <2>1. out.cn = t[1]
    BY <1>2 DEF Out
  <2> QED
    BY <1>1, <1>2, <2>1, ResetTimerKeeps DEF Good, Watched
<1>3. \/ out \in ConnClose(nt, f)
      \/ \E t \in ResetIdleTimer(next, f) : out = Out(t[1], nt, t[2])
      \/ out \in FailClose(nt, f)
  BY Zenon DEF FullyWritten
<1> QED
  BY <1>2, <1>3, CloseGood, FailCloseGood

\* start_write leaves the write callback bound exactly if something is unsent.
LEMMA StartWriteGood ==
    ASSUME NEW cn, IsConn(cn), cn.st = "open", cn.empty \/ cn.answer # NoAnswer,
           NEW nt, NEW f, NEW out \in StartWrite(cn, nt, f)
    PROVE  Good(out.cn)
<1> DEFINE after(k) ==
        IF k = Parts
        THEN FullyWritten(cn, [nt EXCEPT !.got = Append(@, cn.answer)], f)
        ELSE {Out([cn EXCEPT !.wsent = k, !.watch = "write"], [nt EXCEPT !.room = FALSE], f)}
             \cup FailClose(nt, f)
<1>1. CASE cn.empty
  BY <1>1, FullyWrittenGood DEF StartWrite
<1>2. CASE ~cn.empty /\ \E k : out \in after(k)
  <2>1. PICK k : out \in after(k)
    BY <1>2, Zenon
  <2>2. \/ \E n : out \in FullyWritten(cn, n, f)
        \/ \E n : out = Out([cn EXCEPT !.wsent = k, !.watch = "write"], n, f)
        \/ out \in FailClose(nt, f)
    BY <2>1, Zenon
  <2>3. ASSUME NEW n, out = Out([cn EXCEPT !.wsent = k, !.watch = "write"], n, f)
        PROVE  Good(out.cn)
    <3>1. out.cn = [cn EXCEPT !.wsent = k, !.watch = "write"]
      BY <2>3 DEF Out
    <3>2. IsConn(out.cn) /\ out.cn.st = "open" /\ out.cn.watch = "write"
          /\ out.cn.answer = cn.answer
      BY <3>1, Zenon DEF IsConn, Fields
    <3> QED
      BY <1>2, <3>2 DEF Good, Watched
  <2> QED
    BY <2>2, <2>3, FullyWrittenGood, FailCloseGood
<1>3. CASE ~cn.empty /\ out \in ConnClose(nt, f)
  BY <1>3, CloseGood
<1> QED
  <2>1. ASSUME ~cn.empty
        PROVE  (\E k : out \in after(k)) \/ out \in ConnClose(nt, f)
    <3> DEFINE sent == IF nt.room THEN cn.wsent + 1 .. Parts ELSE {cn.wsent}
    <3>1. out \in UNION {after(k) : k \in sent}
          \/ out \in (IF nt.peer = "gone" THEN ConnClose(nt, f) ELSE {})
      BY <2>1, Zenon DEF StartWrite
    <3> HIDE DEF after, sent
    <3> QED
      BY <3>1, Zenon
  <2> QED
    BY <1>1, <1>2, <1>3, <2>1, Zenon

\* Every answer is told from no answer.
LEMMA AnswerGiven ==
    ASSUME NEW req
    PROVE  Answer(req) # NoAnswer
BY DEF Answer, NoAnswer

\* handle_complete_request always sets an answer before start_write.
LEMMA HandleGood ==
    ASSUME NEW cn, IsConn(cn), cn.st = "open", NEW nt, NEW f, NEW req,
           NEW out \in HandleCompleteRequest(cn, nt, f, req)
    PROVE  Good(out.cn)
<1> DEFINE ready == [cn EXCEPT !.answer = Answer(req), !.closing = WantClose(cn, req)]
           bare == [ready EXCEPT !.empty = TRUE]
<1>1. IsConn(ready) /\ ready.st = "open" /\ ready.answer = Answer(req)
  BY Zenon DEF IsConn, Fields
<1>2. IsConn(bare) /\ bare.st = "open" /\ bare.answer = Answer(req)
  <2> HIDE DEF ready
  <2> QED
    BY <1>1, Zenon DEF IsConn, Fields
<1>3. out \in StartWrite(ready, nt, f) \/ \E g : out \in StartWrite(bare, nt, g)
  BY Zenon DEF HandleCompleteRequest
<1> HIDE DEF ready, bare
<1> QED
  BY <1>1, <1>2, <1>3, StartWriteGood, AnswerGiven

\* A refusal ends the connection.
LEMMA RefuseGood ==
    ASSUME NEW status, NEW nt, NEW f, NEW out \in Refuse(status, nt, f)
    PROVE  Good(out.cn)
BY CloseGood DEF Refuse

\* Waiting for more bytes keeps the connection reading.
LEMMA SocketEmptyGood ==
    ASSUME NEW cn, Reading(cn), NEW nt, NEW f, NEW out \in SocketEmpty(cn, nt, f)
    PROVE  Good(out.cn)
<1>1. out.cn = cn \/ out \in ConnClose(nt, f)
  BY DEF SocketEmpty, Out
<1> QED
  BY <1>1, CloseGood DEF Good, Reading, Watched

\* Reading more keeps a connection reading.
LEMMA ReadMore ==
    ASSUME NEW cn, Reading(cn), NEW n
    PROVE  Reading([cn EXCEPT !.rlen = n])
BY DEF Reading, IsConn, Fields

\* parse_headers touches neither the watch nor the answer.
LEMMA ParsedReading ==
    ASSUME NEW cn, Reading(cn), NEW req
    PROVE  Reading(Parsed(cn, req))
<1>1. ASSUME NEW a, NEW b
      PROVE  Reading([cn EXCEPT !.done = a, !.v10 = b])
  BY Zenon DEF Reading, IsConn, Fields
<1> QED
  BY <1>1, Zenon DEF Parsed

\* on_conn_readable, past the headers.
LEMMA ReadBodyGood ==
    ASSUME NEW cn, Reading(cn), NEW nt, NEW f, NEW req, NEW out \in ReadBody(cn, nt, f, req)
    PROVE  Good(out.cn)
<1>1. PICK n, m : \/ out \in HandleCompleteRequest([cn EXCEPT !.rlen = n], m, f, req)
                  \/ out \in SocketEmpty([cn EXCEPT !.rlen = n], m, f)
  BY Zenon DEF ReadBody
<1>2. Reading([cn EXCEPT !.rlen = n])
  BY ReadMore
<1> QED
  BY <1>1, <1>2, HandleGood, SocketEmptyGood, Zenon DEF Reading

\* on_conn_readable, within the headers.
LEMMA ReadHeadersGood ==
    ASSUME NEW cn, Reading(cn), NEW nt, NEW f, NEW req, NEW out \in ReadHeaders(cn, nt, f, req)
    PROVE  Good(out.cn)
<1> DEFINE n == Min({nt.inbox, MaxHeader - cn.rlen})
           read == [cn EXCEPT !.rlen = @ + n]
           rest == Take(nt, n)
<1>1. Reading(read)
  BY ReadMore
<1>2. Reading(Parsed(read, req))
  BY <1>1, ParsedReading
<1>3. out \in (IF n = 0 THEN SocketEmpty(cn, nt, f)
              ELSE IF req.head <= read.rlen
              THEN IF ~req.ok THEN Refuse(400, rest, f)
                   ELSE IF req.body > MaxBody THEN Refuse(413, rest, f)
                   ELSE ReadBody(Parsed(read, req), rest, f, req)
              ELSE IF read.rlen >= MaxHeader THEN Refuse(431, rest, f)
              ELSE SocketEmpty(read, rest, f))
  BY DEF ReadHeaders
<1> HIDE DEF n, read, rest
<1>4. \/ out \in SocketEmpty(cn, nt, f) \/ out \in SocketEmpty(read, rest, f)
      \/ out \in Refuse(400, rest, f) \/ out \in Refuse(413, rest, f)
      \/ out \in Refuse(431, rest, f)
      \/ out \in ReadBody(Parsed(read, req), rest, f, req)
  BY <1>3, SMT
<1> QED
  BY <1>1, <1>2, <1>4, SocketEmptyGood, RefuseGood, ReadBodyGood

\* on_conn_readable as a whole.
LEMMA ReadableGood ==
    ASSUME NEW cn, Reading(cn), NEW nt, NEW f, NEW req, NEW out \in Readable(cn, nt, f, req)
    PROVE  Good(out.cn)
<1>1. \/ out \in ConnClose(nt, f)
      \/ \E t \in ResetIdleTimer(cn, f) : \/ out \in ReadBody(t[1], nt, t[2], req)
                                          \/ out \in ReadHeaders(t[1], nt, t[2], req)
      \/ out \in FailClose(nt, f)
  BY Zenon DEF Readable
<1>2. ASSUME NEW t \in ResetIdleTimer(cn, f)
      PROVE  Reading(t[1])
  BY ResetTimerKeeps DEF Reading
<1> QED
  BY <1>1, <1>2, CloseGood, FailCloseGood, ReadBodyGood, ReadHeadersGood, SMTT(20)

\* on_conn_writable as a whole.
LEMMA WritableGood ==
    ASSUME NEW cn, Good(cn), cn.st = "open", cn.watch = "write", NEW nt, NEW f,
           NEW out \in Writable(cn, nt, f)
    PROVE  Good(out.cn)
<1>1. out \in ConnClose(nt, f) \/ out \in StartWrite(cn, nt, f)
  BY Zenon DEF Writable
<1> QED
  BY <1>1, CloseGood, StartWriteGood DEF Good, Watched

-----------------------------------------------------------------------------
Events == [c : Clients \cup {"listener"}, kind : {"fd", "timer"}, stale : BOOLEAN]

\* The events that wait belong to open connections unless they are stale.
BatchLive ==
    \A i \in 1 .. Len(batch) :
       batch[i].c \in Clients /\ ~batch[i].stale => conn[batch[i].c].st = "open"

HttpdInv ==
    /\ conn = [c \in Clients |-> conn[c]]
    /\ \A c \in Clients :
          /\ IsConn(conn[c]) /\ Watched(conn[c])
          /\ conn[c].st \in {"none", "queued", "open", "closed"}
    /\ n_conns = Cardinality(Open) /\ n_conns <= MaxConns
    /\ batch \in Seq(Events) /\ BatchLive
    /\ down => Open \cup Queued = {} /\ batch = <<>>

\* The open connections can be counted.
LEMMA OpenFinite == IsFiniteSet(Open) /\ Cardinality(Open) \in Nat
BY HttpdAssumption, FS_Subset, FS_CardinalityType DEF Open

\* A new server has no connections.
LEMMA InitInv == Init => HttpdInv
<1> SUFFICES ASSUME Init PROVE HttpdInv
  OBVIOUS
<1>1. \A c \in Clients : conn[c] = NoConn
  BY DEF Init
<1>2. /\ IsConn(NoConn) /\ NoConn.st = "none"
      /\ NoConn.watch = "read" /\ NoConn.answer = NoAnswer
  BY DEF IsConn, Fields, NoConn
<1>3. Open = {}
  BY <1>1, <1>2 DEF Open
<1>4. n_conns = Cardinality(Open) /\ n_conns <= MaxConns
  BY <1>3, FS_EmptySet, HttpdAssumption DEF Init
<1>5. batch \in Seq(Events) /\ BatchLive
  BY DEF Init, BatchLive
<1>6. conn = [c \in Clients |-> conn[c]]
  BY DEF Init
<1>7. ~down
  BY DEF Init
<1> QED
  BY <1>1, <1>2, <1>4, <1>5, <1>6, <1>7, SMTT(20) DEF HttpdInv, Watched

\* The handler of connection c ends.
LEMMA SettleInv ==
    ASSUME HttpdInv, NEW c \in Clients, conn[c].st = "open", batch # <<>>,
           NEW out, Good(out.cn), Settle(c, out)
    PROVE  HttpdInv'
<1> DEFINE closed == out.cn.st = "closed"
<1>1. conn' = [conn EXCEPT ![c] = out.cn] /\ down' = down /\ ~down
  BY DEF Settle, HttpdInv
<1>2. /\ conn'[c] = out.cn
      /\ \A d \in Clients \ {c} : conn'[d] = conn[d]
      /\ conn' = [d \in Clients |-> conn'[d]]
  BY <1>1 DEF HttpdInv
<1>3. \A d \in Clients : /\ IsConn(conn'[d]) /\ Watched(conn'[d])
                         /\ conn'[d].st \in {"none", "queued", "open", "closed"}
  BY <1>2 DEF HttpdInv, Good
<1>4. n_conns' = Cardinality(Open') /\ n_conns' <= MaxConns
  <2>1. CASE closed
    <3>1. Open' = Open \ {c} /\ c \in Open
      BY <1>2, <2>1 DEF Open
    <3>2. n_conns' = n_conns - 1
      BY <2>1 DEF Settle
    <3>3. Cardinality(Open \ {c}) = Cardinality(Open) - 1
      BY <3>1, OpenFinite, FS_RemoveElement, Zenon
    <3> QED
      BY <3>1, <3>2, <3>3, OpenFinite, HttpdAssumption, SMTT(20) DEF HttpdInv
  <2>2. CASE ~closed
    <3>1. Open' = Open
      BY <1>2, <2>2 DEF Open, Good
    <3>2. n_conns' = n_conns
      BY <2>2 DEF Settle
    <3> QED
      BY <3>1, <3>2 DEF HttpdInv
  <2> QED
    BY <2>1, <2>2
<1> DEFINE kinds == IF out.cn.st = "closed" THEN {"fd", "timer"}
                    ELSE IF out.cn.timer # conn[c].timer THEN {"timer"} ELSE {}
<1>5. batch' = Freed(c, kinds) /\ (closed => kinds = {"fd", "timer"})
  <2>1. batch' = Freed(c, kinds)
    BY Zenon DEF Settle
  <2>2. closed => kinds = {"fd", "timer"}
    OBVIOUS
  <2> QED
    BY <2>1, <2>2
<1> HIDE DEF kinds
<1>6. Len(batch) \in Nat \ {0} /\ \A i \in 1 .. Len(batch) : batch[i] \in Events
  BY DEF HttpdInv
<1>7. batch' \in Seq(Events) /\ Len(batch') = Len(batch) - 1
  <2>1. \A i \in 1 .. Len(batch) - 1 : batch[i + 1] \in Events
    BY <1>6
  <2>2. ASSUME NEW e \in Events, NEW v
        PROVE  [e EXCEPT !.stale = e.stale \/ v] \in Events
    BY Zenon DEF Events
  <2>3. batch' = [i \in 1 .. Len(batch) - 1 |-> batch'[i]]
        /\ \A i \in 1 .. Len(batch) - 1 : batch'[i] \in Events
    BY <1>5, <2>1, <2>2 DEF Freed
  <2> QED
    BY <1>6, <2>3
<1>8. BatchLive'
  <2> SUFFICES ASSUME NEW i \in 1 .. Len(batch) - 1,
                      batch'[i].c \in Clients, ~batch'[i].stale
               PROVE  conn'[batch'[i].c].st = "open"
    BY <1>7 DEF BatchLive
  <2> DEFINE e == batch[i + 1]
  <2>1. e \in Events /\ i + 1 \in 1 .. Len(batch)
    BY <1>6
  <2>2. batch'[i] = [e EXCEPT !.stale = e.stale \/ (e.c = c /\ e.kind \in kinds)]
    BY <1>5 DEF Freed
  <2>3. batch'[i].c = e.c /\ ~e.stale /\ ~(e.c = c /\ e.kind \in kinds)
    <3> HIDE DEF e
    <3> QED
      BY <2>1, <2>2, Zenon DEF Events
  <2>4. conn[e.c].st = "open"
    BY <2>1, <2>3 DEF HttpdInv, BatchLive
  <2>5. e.c = c => ~closed
    BY <1>5, <2>1, <2>3 DEF Events
  <2> QED
    BY <1>2, <2>3, <2>4, <2>5 DEF Good
<1> QED
  BY <1>1, <1>2, <1>3, <1>4, <1>7, <1>8, SMTT(20) DEF HttpdInv

\* The batch of one epoll_wait.
LEMMA EpollWaitInv ==
    ASSUME HttpdInv, EpollWait
    PROVE  HttpdInv'
<1> DEFINE Of(kind) == {Event(c, kind) : c \in Clients}
           Listens == {Event("listener", "fd")}
<1>1. ASSUME NEW kind
      PROVE  IsFiniteSet(Of(kind))
  <2> DEFINE f == [c \in Clients |-> Event(c, kind)]
  <2>1. f \in Surjection(Clients, Of(kind))
    BY DEF Surjection
  <2> HIDE DEF f
  <2> QED
    BY <2>1, HttpdAssumption, FS_Surjection
<1>2. IsFiniteSet((Of("fd") \cup Of("timer")) \cup Listens)
  <2>1. IsFiniteSet(Of("fd")) /\ IsFiniteSet(Of("timer")) /\ IsFiniteSet(Listens)
    BY <1>1, FS_Singleton
  <2> HIDE DEF Of, Listens
  <2>2. IsFiniteSet(Of("fd") \cup Of("timer"))
    BY <2>1, FS_Union, Zenon
  <2> QED
    BY <2>1, <2>2, FS_Union, Zenon
<1>3. Ready \subseteq (Of("fd") \cup Of("timer")) \cup Listens
  BY DEF Ready, Open
<1>4. Cardinality(Ready) \in Nat
  BY <1>2, <1>3, FS_Subset, FS_CardinalityType
<1>5. batch' \in [1 .. Cardinality(Ready) -> Ready]
  BY DEF EpollWait, Bijection, Injection
<1>6. \A e \in Ready : /\ e \in Events
                       /\ e.c \in Clients => conn[e.c].st = "open"
  <2>1. \A c \in Clients \cup {"listener"}, kind \in {"fd", "timer"} :
           Event(c, kind) \in Events /\ Event(c, kind).c = c
    BY DEF Events, Event
  <2>2. ASSUME NEW e \in Ready
        PROVE  \E c \in Open \cup {"listener"}, kind \in {"fd", "timer"} : e = Event(c, kind)
    BY DEF Ready
  <2>3. Open \subseteq Clients /\ \A c \in Open : conn[c].st = "open"
    BY DEF Open
  <2> QED
    BY <2>1, <2>2, <2>3, HttpdAssumption
<1>7. batch' \in Seq(Events) /\ Len(batch') = Cardinality(Ready)
  <2>1. batch' \in [1 .. Cardinality(Ready) -> Events]
    BY <1>5, <1>6
  <2> QED
    BY <1>4, <2>1
<1>8. conn' = conn /\ n_conns' = n_conns /\ down' = down /\ ~down
  BY DEF EpollWait
<1>9. BatchLive'
  BY <1>5, <1>6, <1>7, <1>8 DEF BatchLive
<1> QED
  BY <1>7, <1>8, <1>9 DEF HttpdInv, Open, Queued

\* What Min and Max give for two numbers.
LEMMA MinMaxOfTwo ==
    ASSUME NEW a \in Int, NEW b \in Int, a <= b
    PROVE  Min({a, b}) = a /\ Min({b, a}) = a /\ Max({a, b}) = b /\ Max({b, a}) = b
BY DEF Min, Max

\* What Min gives for two numbers is one of them.
LEMMA MinOfEither ==
    ASSUME NEW a \in Int, NEW b \in Int
    PROVE  /\ Min({a, b}) \in {a, b} /\ Min({a, b}) \in Int
           /\ Min({a, b}) <= a /\ Min({a, b}) <= b
<1>1. Min({a, b}) = IF a <= b THEN a ELSE b
  BY MinMaxOfTwo
<1> HIDE DEF Min
<1> QED
  BY <1>1

\* on_accept adds as many to the count as it opens.
LEMMA AcceptInv ==
    ASSUME HttpdInv, OnAccept
    PROVE  HttpdInv'
<1>1. PICK failed \in SUBSET Queued, untimed \in SUBSET Queued,
           taken \in SUBSET Queued :
         /\ Cardinality(taken) = Min({Cardinality(Queued \ failed), MaxConns - n_conns})
         /\ conn' = [c \in Clients |->
               IF c \in taken
               THEN [conn[c] EXCEPT !.st = "open",
                                    !.timer = IF c \in untimed THEN "failed" ELSE "armed"]
               ELSE IF c \in Queued THEN Closed ELSE conn[c]]
         /\ n_conns' = n_conns + Cardinality(taken)
  BY Zenon DEF OnAccept
<1>2. /\ batch # <<>> /\ ~down /\ down' = down /\ batch' = Tail(batch)
  BY Zenon DEF OnAccept, Dispatches, HttpdInv
<1>3. \A c \in taken : /\ IsConn(conn'[c]) /\ Watched(conn'[c])
                       /\ conn'[c].st = "open"
  <2> SUFFICES ASSUME NEW c \in taken
               PROVE  IsConn(conn'[c]) /\ Watched(conn'[c]) /\ conn'[c].st = "open"
    OBVIOUS
  <2>1. IsConn(conn[c]) /\ Watched(conn[c]) /\ c \in Clients
    BY Zenon DEF HttpdInv, Queued
  <2>2. PICK t : conn'[c] = [conn[c] EXCEPT !.st = "open", !.timer = t]
    BY <1>1, <2>1, Zenon
  <2> QED
    BY <2>1, <2>2, Zenon DEF IsConn, Fields, Watched
<1>4. \A c \in Clients \ taken :
         conn'[c] = IF c \in Queued THEN Closed ELSE conn[c]
  BY <1>1, Zenon
<1>5. \A c \in Clients : /\ IsConn(conn'[c]) /\ Watched(conn'[c])
                         /\ conn'[c].st \in {"none", "queued", "open", "closed"}
  BY <1>3, <1>4, ClosedGood DEF HttpdInv, Good
<1>6. conn' = [c \in Clients |-> conn'[c]]
  BY <1>1, Zenon
<1>7. taken \subseteq Clients /\ Open \cap taken = {}
  BY DEF Queued, Open
<1>8. Open' = Open \cup taken
  BY <1>3, <1>4, <1>7, ClosedGood DEF Open, Queued
<1>9. n_conns' = Cardinality(Open') /\ n_conns' <= MaxConns
  <2>1. IsFiniteSet(taken) /\ IsFiniteSet(Queued \ failed)
    BY HttpdAssumption, FS_Subset DEF Queued
  <2>2. /\ Cardinality(taken) \in Nat /\ Cardinality(Queued \ failed) \in Nat
        /\ Cardinality({}) = 0
    BY <2>1, FS_CardinalityType, FS_EmptySet
  <2>3. Cardinality(Open \cup taken) = Cardinality(Open) + Cardinality(taken)
    <3>1. Cardinality(Open \cup taken)
             = Cardinality(Open) + Cardinality(taken) - Cardinality(Open \cap taken)
      BY <2>1, OpenFinite, FS_Union
    <3>2. Cardinality(Open \cap taken) = 0
      BY <1>7, <2>2
    <3> QED
      BY <2>2, <3>1, <3>2, OpenFinite
  <2>4. n_conns \in Nat /\ MaxConns - n_conns \in Int
    BY OpenFinite, HttpdAssumption DEF HttpdInv
  <2>5. Cardinality(taken) <= MaxConns - n_conns
    <3>1. Min({Cardinality(Queued \ failed), MaxConns - n_conns}) <= MaxConns - n_conns
      <4> DEFINE a == Cardinality(Queued \ failed)
                 b == MaxConns - n_conns
      <4>1. a \in Int /\ b \in Int
        BY <2>2, <2>4
      <4> HIDE DEF a, b
      <4>2. Min({a, b}) <= b
        BY <4>1, MinOfEither, Zenon
      <4> QED
        BY <4>2 DEF a, b
    <3> QED
      BY <1>1, <3>1, Zenon
  <2>6. n_conns = Cardinality(Open) /\ n_conns' = n_conns + Cardinality(taken)
    BY <1>1, Zenon DEF HttpdInv
  <2> QED
    BY <1>8, <2>2, <2>3, <2>4, <2>5, <2>6, HttpdAssumption, SMTT(20)
<1>10. batch' \in Seq(Events) /\ BatchLive'
  <2>1. batch' \in Seq(Events) /\ Len(batch') = Len(batch) - 1
    BY <1>2 DEF HttpdInv
  <2>2. \A i \in 1 .. Len(batch) - 1 : batch'[i] = batch[i + 1] /\ i + 1 \in 1 .. Len(batch)
    BY <1>2 DEF HttpdInv
  <2>3. \A c \in Clients : conn[c].st = "open" => conn'[c].st = "open"
    BY <1>3, <1>4 DEF Queued
  <2> QED
    BY <2>1, <2>2, <2>3 DEF HttpdInv, BatchLive
<1> QED
  BY <1>2, <1>5, <1>6, <1>9, <1>10 DEF HttpdInv

\* The server is taken down.
LEMMA DestroyInv ==
    ASSUME HttpdInv, Destroy
    PROVE  HttpdInv'
<1>1. /\ conn' = [c \in Clients |-> IF c \in Open \cup Queued THEN Closed ELSE conn[c]]
      /\ n_conns' = n_conns - Cardinality(Open) /\ batch' = <<>>
  BY DEF Destroy
<1>2. conn' = [c \in Clients |-> conn'[c]]
  BY <1>1
<1>3. \A c \in Clients : conn'[c] = IF c \in Open \cup Queued THEN Closed ELSE conn[c]
  BY <1>1
<1>4. \A c \in Clients : /\ IsConn(conn'[c]) /\ Watched(conn'[c])
                         /\ conn'[c].st \in {"none", "closed"}
  BY <1>3, ClosedGood DEF HttpdInv, Good, Open, Queued
<1>5. Open' = {} /\ Queued' = {}
  BY <1>4 DEF Open, Queued
<1>6. n_conns' = 0
  BY <1>1, OpenFinite DEF HttpdInv
<1>7. n_conns' = Cardinality(Open') /\ n_conns' <= MaxConns
  BY <1>5, <1>6, FS_EmptySet, HttpdAssumption
<1>8. batch' \in Seq(Events) /\ BatchLive'
  BY <1>1 DEF BatchLive
<1> QED
  BY <1>1, <1>2, <1>4, <1>5, <1>7, <1>8 DEF HttpdInv

\* Connecting and the passing of time change one field of a connection that the
\* count does not depend on.
LEMMA ClientInv ==
    ASSUME HttpdInv, NEW c \in Clients, Connect(c) \/ Expire(c)
    PROVE  HttpdInv'
<1>1. /\ n_conns' = n_conns /\ batch' = batch /\ down' = down
  BY DEF Connect, Expire
<1>2. /\ conn' = [d \in Clients |-> conn'[d]]
      /\ \A d \in Clients \ {c} : conn'[d] = conn[d]
  BY DEF Connect, Expire, HttpdInv
<1>3. \/ ~down /\ conn[c].st = "none" /\ conn'[c] = [conn[c] EXCEPT !.st = "queued"]
      \/ conn'[c] = [conn[c] EXCEPT !.timer = "expired"]
  BY DEF Connect, Expire, HttpdInv
<1>4. IsConn(conn[c]) /\ Watched(conn[c])
  BY DEF HttpdInv
<1>5. /\ IsConn(conn'[c]) /\ Watched(conn'[c])
      /\ \/ ~down /\ conn[c].st = "none" /\ conn'[c].st = "queued"
         \/ conn'[c].st = conn[c].st
  BY <1>3, <1>4 DEF IsConn, Fields, Watched
<1>6. \A d \in Clients : /\ IsConn(conn'[d]) /\ Watched(conn'[d])
                         /\ conn'[d].st \in {"none", "queued", "open", "closed"}
  BY <1>2, <1>5 DEF HttpdInv
<1>7. Open' = Open /\ (down => Queued' = Queued)
  BY <1>2, <1>5 DEF Open, Queued
<1>8. BatchLive'
  BY <1>1, <1>2, <1>5 DEF HttpdInv, BatchLive
<1> QED
  BY <1>1, <1>2, <1>6, <1>7, <1>8 DEF HttpdInv

\* Every step keeps the invariant.
LEMMA NextInv == HttpdInv /\ [Next]_vars => HttpdInv'
<1> SUFFICES ASSUME HttpdInv, [Next]_vars PROVE HttpdInv'
  OBVIOUS
<1>1. ASSUME UNCHANGED <<conn, n_conns, batch, down>> PROVE HttpdInv'
  BY <1>1 DEF HttpdInv, BatchLive, Open, Queued
<1>2. ASSUME NEW c \in Clients, NEW kind, Dispatches(c, kind)
      PROVE  conn[c].st = "open" /\ batch # <<>>
  <2>1. batch # <<>> /\ Head(batch) = Event(c, kind)
    BY <1>2 DEF Dispatches
  <2>2. 1 \in 1 .. Len(batch) /\ batch[1] = Event(c, kind)
    BY <2>1 DEF HttpdInv
  <2>3. batch[1].c = c /\ ~batch[1].stale
    BY <2>2 DEF Event
  <2> QED
    BY <2>1, <2>2, <2>3 DEF HttpdInv, BatchLive
<1>3. ASSUME NEW c \in Clients, OnConnReadable(c) PROVE HttpdInv'
  <2>1. PICK out, req : out \in Readable(conn[c], net[c], faults, req) /\ Settle(c, out)
    BY <1>3 DEF OnConnReadable
  <2>2. conn[c].st = "open" /\ batch # <<>> /\ conn[c].watch = "read"
    BY <1>2, <1>3 DEF OnConnReadable
  <2>3. Reading(conn[c])
    BY <2>2 DEF HttpdInv, Reading, Watched
  <2>4. Good(out.cn)
    BY <2>1, <2>3, ReadableGood
  <2> QED
    BY <2>1, <2>2, <2>4, SettleInv
<1>4. ASSUME NEW c \in Clients, OnConnWritable(c) PROVE HttpdInv'
  <2>1. PICK out : out \in Writable(conn[c], net[c], faults) /\ Settle(c, out)
    BY <1>4 DEF OnConnWritable
  <2>2. conn[c].st = "open" /\ batch # <<>> /\ conn[c].watch = "write"
    BY <1>2, <1>4 DEF OnConnWritable
  <2>3. Good(conn[c])
    BY <2>2 DEF HttpdInv, Good
  <2>4. Good(out.cn)
    BY <2>1, <2>2, <2>3, WritableGood
  <2> QED
    BY <2>1, <2>2, <2>4, SettleInv
<1>5. ASSUME NEW c \in Clients, OnIdleTimeout(c) PROVE HttpdInv'
  <2>1. PICK out : out \in ConnClose(net[c], faults) /\ Settle(c, out)
    BY <1>5 DEF OnIdleTimeout
  <2>2. conn[c].st = "open" /\ batch # <<>>
    BY <1>2, <1>5 DEF OnIdleTimeout
  <2> QED
    BY <2>1, <2>2, CloseGood, SettleInv
<1>6. CASE DispatchFreed
  BY <1>1, <1>6 DEF DispatchFreed
<1>7. ASSUME NEW c \in Clients, SendMore(c) \/ Drain(c) \/ HangUp(c) PROVE HttpdInv'
  BY <1>1, <1>7 DEF SendMore, Drain, HangUp
<1>8. ASSUME NEW c \in Clients, NEW req, Ask(c, req) PROVE HttpdInv'
  BY <1>1, <1>8 DEF Ask
<1>9. CASE UNCHANGED vars
  BY <1>1, <1>9 DEF vars
<1> QED
  BY SMTT(20), <1>3, <1>4, <1>5, <1>6, <1>7, <1>8, <1>9, EpollWaitInv, AcceptInv, DestroyInv,
     ClientInv DEF Next, Loop

\* The number of connections that gates on_accept is the number of open ones and
\* within MT_HTTPD_MAX_CONNS, each open connection is watched for what it waits
\* for, and mt_httpd_destroy leaves none: for any number of clients, any
\* requests split in any way, and any number of failures.
THEOREM ConnectionsExact == Spec => []ConnsExact
<1>1. HttpdInv => ConnsExact
  BY DEF HttpdInv, ConnsExact, Watched, Open
<1> QED
  BY <1>1, InitInv, NextInv, PTL DEF Spec

-----------------------------------------------------------------------------
\* What a connection has received, and what it has answered.

Last(s) == s[Len(s)]

NetFields == {"inbox", "left", "peer", "room", "got"}

\* A record with the fields of a socket.
IsNet(nt) == nt = [x \in NetFields |-> nt[x]] /\ nt.inbox \in Nat /\ nt.left \in Nat

Timers == {"none", "armed", "expired", "failed"}

Total(req) == req.head + req.body

Accepted(req) == req.head <= MaxHeader /\ req.ok /\ req.body <= MaxBody

\* The answer to a request, as a function of the request alone.
Given(req) ==
    IF req.head > MaxHeader THEN <<"status", 431>>
    ELSE IF ~req.ok THEN <<"status", 400>>
    ELSE IF req.body > MaxBody THEN <<"status", 413>> ELSE Answer(req)

Givens(reqs) == {Given(r) : r \in reqs}

\* One of the first n requests was of HTTP/1.0.
Old(asks, n) == \E i \in 1 .. n : asks[i].v10

\* The connection is to end with the answer to the last request.
Leaves(asks) ==
    \/ Last(asks).connection = "close"
    \/ Last(asks).connection # "keep-alive" /\ Old(asks, Len(asks))

\* Nothing of a request has arrived or is on its way.
Idle(cn, nt, asks, f) ==
    /\ cn.watch = "read" /\ ~cn.done /\ ~cn.empty /\ cn.wsent = 0 /\ cn.rlen = 0
    /\ nt.inbox = 0 /\ nt.left = 0
    /\ cn.v10 <=> Old(asks, Len(asks))
    /\ f = 0 => Len(nt.got) = Len(asks)

\* The last request is being read: each piece of it is in rbuf, in the socket or
\* with the client.
Receiving(cn, nt, asks) ==
    /\ asks # <<>> /\ Len(nt.got) = Len(asks) - 1
    /\ cn.watch = "read" /\ ~cn.empty /\ cn.wsent = 0
    /\ cn.rlen \in Nat /\ cn.rlen < Total(Last(asks))
    /\ cn.rlen + nt.inbox + nt.left = Total(Last(asks))
    /\ cn.done => Accepted(Last(asks)) /\ (cn.v10 <=> Old(asks, Len(asks)))
    /\ ~cn.done => /\ cn.rlen < Last(asks).head /\ cn.rlen < MaxHeader
                   /\ cn.v10 <=> Old(asks, Len(asks) - 1)

\* The last request has been read and is to be answered.
Pending(cn, nt, asks, f) ==
    /\ asks # <<>> /\ Len(nt.got) = Len(asks) - 1
    /\ nt.inbox = 0 /\ nt.left = 0
    /\ cn.rlen \in Nat
    /\ Accepted(Last(asks)) /\ (cn.v10 <=> Old(asks, Len(asks)))
    /\ cn.answer = Answer(Last(asks)) /\ (cn.closing <=> Leaves(asks))
    /\ cn.wsent \in 0 .. Parts - 1
    /\ cn.empty => f # 0

Answering(cn, nt, asks, f) == cn.watch = "write" /\ ~cn.empty /\ Pending(cn, nt, asks, f)

Framed(cn, nt, asks, f) ==
    Idle(cn, nt, asks, f) \/ Receiving(cn, nt, asks) \/ Answering(cn, nt, asks, f)

\* The requests and the answers of one client.
Exchange(cn, nt, asks, f, reqs) ==
    /\ asks \in Seq(reqs) /\ IsNet(nt) /\ cn.timer \in Timers
    /\ nt.got \in Seq(Givens(reqs)) /\ Len(nt.got) <= Len(asks)
    /\ \A i \in 1 .. Len(nt.got) : nt.got[i] = Given(asks[i])
    /\ \/ cn = Closed
       \/ cn.st \in {"none", "queued", "open"} /\ Framed(cn, nt, asks, f)

ExchangeInv ==
    /\ net = [c \in Clients |-> net[c]] /\ asked = [c \in Clients |-> asked[c]]
    /\ faults \in 0 .. MaxFaults
    /\ \A c \in Clients : Exchange(conn[c], net[c], asked[c], faults, Requests[c])

\* The client got the answer to its last request after the answers got.
Answered(nt, got, asks) ==
    /\ nt.got = Append(got, Given(Last(asks)))
    /\ asks # <<>> /\ Len(got) = Len(asks) - 1

\* What a handler of a connection with the answers got may leave behind.
Lawful(out, got, asks, f) ==
    /\ IsNet(out.nt) /\ out.cn.timer \in Timers /\ out.f \in f .. MaxFaults
    /\ \/ out.cn = Closed
       \/ out.cn.st = "open" /\ Framed(out.cn, out.nt, asks, out.f)
    /\ out.cn.st = "open" /\ out.cn.watch = "read" => out.nt.inbox = 0
    /\ \/ out.nt.got = got
       \/ /\ Answered(out.nt, got, asks)
          /\ Given(Last(asks))[1] # "status" /\ out.f = f
                => (out.cn.st = "closed" <=> Leaves(asks))

\* The fields that say where in a request a connection is.
Alike(cn, d) ==
    /\ cn.watch = d.watch /\ cn.done = d.done /\ cn.empty = d.empty /\ cn.wsent = d.wsent
    /\ cn.rlen = d.rlen /\ cn.v10 = d.v10 /\ cn.answer = d.answer /\ cn.closing = d.closing

\* Neither opening the connection nor the timer nor a failure elsewhere matters to
\* where in a request it is.
LEMMA FramedAlike ==
    ASSUME NEW cn, NEW d, NEW nt, NEW asks, NEW f \in Nat, NEW g \in Nat, f <= g,
           Alike(cn, d), Framed(cn, nt, asks, f)
    PROVE  Framed(d, nt, asks, g)
<1>1. f # 0 => g # 0
  OBVIOUS
<1>2. Idle(cn, nt, asks, f) => Idle(d, nt, asks, g)
  BY <1>1, Zenon DEF Alike, Idle
<1>3. Receiving(cn, nt, asks) => Receiving(d, nt, asks)
  BY Zenon DEF Alike, Receiving
<1>4. Answering(cn, nt, asks, f) => Answering(d, nt, asks, g)
  BY Zenon DEF Alike, Answering, Pending
<1> QED
  BY <1>2, <1>3, <1>4 DEF Framed

\* A closed connection is lawful if it had nothing to answer, or was to be closed.
LEMMA LawfulClosed ==
    ASSUME NEW nt, IsNet(nt), NEW got, NEW asks, NEW f \in 0 .. MaxFaults,
           NEW g \in f .. MaxFaults, NEW out, out = Out(Closed, nt, g),
           \/ nt.got = got
           \/ Answered(nt, got, asks) /\ (Given(Last(asks))[1] = "status" \/ g # f \/ Leaves(asks))
    PROVE  Lawful(out, got, asks, f)
<1>1. out.cn = Closed /\ out.nt = nt /\ out.f = g
  BY DEF Out
<1>2. Closed.st = "closed" /\ Closed.timer = "none"
  BY Zenon DEF Closed, NoConn
<1> QED
  BY <1>1, <1>2 DEF Lawful, Timers

\* What conn_close leaves.
LEMMA CloseLawful ==
    ASSUME NEW nt, IsNet(nt), NEW asks, NEW f \in 0 .. MaxFaults,
           NEW out \in ConnClose(nt, f) \cup FailClose(nt, f)
    PROVE  Lawful(out, nt.got, asks, f)
<1>1. \E g \in f .. MaxFaults : out = Out(Closed, nt, g)
  <2>1. MaxFaults \in Nat
    BY HttpdAssumption
  <2> QED
    BY <2>1 DEF ConnClose, FailClose, MayFail
<1> QED
  BY <1>1, LawfulClosed

\* reset_idle_timer touches only the timer, and may fail.
LEMMA ResetTimerAlike ==
    ASSUME NEW cn, IsConn(cn), NEW f \in 0 .. MaxFaults, NEW t \in ResetIdleTimer(cn, f)
    PROVE  /\ IsConn(t[1]) /\ t[1].st = cn.st /\ t[1].timer \in Timers
           /\ Alike(cn, t[1]) /\ t[2] \in f .. MaxFaults
<1>1. \E x \in {"armed", "failed"}, g \in f .. MaxFaults : t = <<[cn EXCEPT !.timer = x], g>>
  <2>1. f \in f .. MaxFaults /\ \A g \in MayFail(f) : g \in f .. MaxFaults
    BY HttpdAssumption DEF MayFail
  <2> QED
    BY <2>1, Zenon DEF ResetIdleTimer
<1>2. PICK x \in {"armed", "failed"}, g \in f .. MaxFaults : t = <<[cn EXCEPT !.timer = x], g>>
  BY <1>1, Zenon
<1>3. t[1] = [cn EXCEPT !.timer = x] /\ t[2] = g
  BY <1>2
<1>4. IsConn(t[1]) /\ t[1].st = cn.st /\ t[1].timer = x
  BY <1>3, Zenon DEF IsConn, Fields
<1>5. Alike(cn, t[1])
  BY <1>3, Zenon DEF IsConn, Fields, Alike
<1> QED
  BY <1>3, <1>4, <1>5 DEF Timers
\* The last request is dealt with: the client has the answer, or there was no
\* memory for it.
Written(cn, nt, got, asks, f) ==
    /\ nt.inbox = 0 /\ nt.left = 0 /\ (cn.v10 <=> Old(asks, Len(asks)))
    /\ \/ nt.got = got /\ f # 0
       \/ /\ Answered(nt, got, asks) /\ Len(nt.got) = Len(asks)
          /\ cn.closing <=> Leaves(asks)

\* After the last byte start_write closes the connection or makes it ready for the
\* next request; an answer for which there was no memory is lost.
LEMMA FullyWrittenLawful ==
    ASSUME NEW cn, IsConn(cn), cn.st = "open", NEW nt, IsNet(nt), NEW got, NEW asks,
           NEW f \in 0 .. MaxFaults, Written(cn, nt, got, asks, f),
           NEW out \in FullyWritten(cn, nt, f)
    PROVE  Lawful(out, got, asks, f)
<1> DEFINE next == [ConnResetForNextRequest(cn) EXCEPT !.watch = "read"]
<1>1. /\ IsConn(next) /\ next.st = "open" /\ next.watch = "read" /\ ~next.done
      /\ ~next.empty /\ next.wsent = 0 /\ next.rlen = 0 /\ next.v10 = cn.v10
  <2>1. PICK e : e = ConnResetForNextRequest(cn)
    OBVIOUS
  <2>2. /\ IsConn(e) /\ e.st = "open" /\ ~e.done /\ ~e.empty /\ e.wsent = 0 /\ e.rlen = 0
        /\ e.v10 = cn.v10
    BY <2>1, Zenon DEF IsConn, Fields, ConnResetForNextRequest
  <2>3. next = [e EXCEPT !.watch = "read"]
    BY <2>1
  <2> HIDE DEF next
  <2> QED
    BY <2>2, <2>3, Zenon DEF IsConn, Fields
<1> HIDE DEF next
<1>2. ASSUME NEW t \in ResetIdleTimer(next, f), out = Out(t[1], nt, t[2]), ~cn.closing
      PROVE  Lawful(out, got, asks, f)
  <2>1. /\ t[1].st = "open" /\ t[1].timer \in Timers
        /\ Alike(next, t[1]) /\ t[2] \in f .. MaxFaults
    BY <1>1, ResetTimerAlike
  <2>2. out.cn = t[1] /\ out.nt = nt /\ out.f = t[2]
    BY <1>2 DEF Out
  <2>3. t[2] \in Nat /\ f \in Nat /\ f <= t[2]
    BY <2>1, HttpdAssumption
  <2>6. t[2] = 0 => Len(nt.got) = Len(asks)
    BY <2>3 DEF Written
  <2>4. Idle(next, nt, asks, t[2])
    BY <1>1, <2>6, Zenon DEF Idle, Written
  <2>5. Framed(t[1], nt, asks, t[2])
    BY <2>1, <2>3, <2>4, FramedAlike DEF Framed
  <2> QED
    BY <1>2, <2>1, <2>2, <2>5 DEF Lawful, Written
<1>3. ASSUME cn.closing, out \in ConnClose(nt, f) PROVE Lawful(out, got, asks, f)
  <2>1. out = Out(Closed, nt, f) /\ f \in f .. MaxFaults
    BY <1>3, HttpdAssumption DEF ConnClose
  <2> QED
    BY <1>3, <2>1, LawfulClosed, Zenon DEF Written
<1>4. ASSUME out \in FailClose(nt, f) PROVE Lawful(out, got, asks, f)
  <2>1. PICK g \in f .. MaxFaults : out = Out(Closed, nt, g) /\ g # f
    BY <1>4, HttpdAssumption DEF FailClose, MayFail
  <2> QED
    BY <2>1, LawfulClosed, Zenon DEF Written
<1>5. \/ cn.closing /\ out \in ConnClose(nt, f)
      \/ ~cn.closing /\ \E t \in ResetIdleTimer(next, f) : out = Out(t[1], nt, t[2])
      \/ out \in FailClose(nt, f)
  BY Zenon DEF FullyWritten, next
<1> QED
  BY <1>2, <1>3, <1>4, <1>5

\* An accepted request has the answer that handle_complete_request gives.
LEMMA AcceptedGiven ==
    ASSUME NEW req, req.head \in Nat, req.body \in Nat, Accepted(req)
    PROVE  Given(req) = Answer(req)
BY HttpdAssumption DEF Accepted, Given

\* The client's answers are one more.
LEMMA AnswerAppended ==
    ASSUME NEW reqs, NEW asks \in Seq(reqs), asks # <<>>, NEW got \in Seq(Givens(reqs))
    PROVE  /\ Append(got, Given(Last(asks))) \in Seq(Givens(reqs))
           /\ Len(Append(got, Given(Last(asks)))) = Len(got) + 1
           /\ Last(asks) \in reqs
<1>1. Last(asks) \in reqs
  <2>1. Len(asks) \in 1 .. Len(asks)
    OBVIOUS
  <2> QED
    BY <2>1 DEF Last
<1>2. Given(Last(asks)) \in Givens(reqs)
  BY <1>1 DEF Givens
<1>3. ASSUME NEW a \in Givens(reqs)
      PROVE  Append(got, a) \in Seq(Givens(reqs)) /\ Len(Append(got, a)) = Len(got) + 1
  OBVIOUS
<1> QED
  BY <1>1, <1>2, <1>3, Zenon

\* Sending changes only what the client got.
LEMMA ToldNet ==
    ASSUME NEW nt, IsNet(nt), NEW a
    PROVE  LET m == [nt EXCEPT !.got = Append(@, a)]
           IN  /\ IsNet(m) /\ m.inbox = nt.inbox /\ m.left = nt.left
               /\ m.got = Append(nt.got, a)
BY Zenon DEF IsNet, NetFields

\* start_write sends the answer to the last request, whole, or waits with the rest.
LEMMA StartWriteLawful ==
    ASSUME NEW c \in Clients, NEW asks \in Seq(Requests[c]), NEW cn, IsConn(cn), cn.st = "open",
           cn.timer \in Timers, NEW nt, IsNet(nt), nt.got \in Seq(Givens(Requests[c])),
           NEW f \in 0 .. MaxFaults, Pending(cn, nt, asks, f),
           NEW out \in StartWrite(cn, nt, f)
    PROVE  Lawful(out, nt.got, asks, f)
<1> DEFINE sent == IF nt.room THEN cn.wsent + 1 .. Parts ELSE {cn.wsent}
           full == [nt EXCEPT !.got = Append(@, cn.answer)]
           after(k) ==
        IF k = Parts THEN FullyWritten(cn, full, f)
        ELSE {Out([cn EXCEPT !.wsent = k, !.watch = "write"], [nt EXCEPT !.room = FALSE], f)}
             \cup FailClose(nt, f)
<1>1. /\ asks # <<>> /\ Len(asks) \in Nat /\ Len(nt.got) = Len(asks) - 1
      /\ nt.inbox = 0 /\ nt.left = 0 /\ (cn.v10 <=> Old(asks, Len(asks)))
      /\ cn.answer = Answer(Last(asks)) /\ (cn.closing <=> Leaves(asks))
      /\ Accepted(Last(asks)) /\ cn.wsent \in 0 .. Parts - 1 /\ cn.rlen \in Nat
  <2>1. Len(asks) \in Nat
    OBVIOUS
  <2> QED
    BY <2>1, Zenon DEF Pending
<1>2. Given(Last(asks)) = Answer(Last(asks))
  BY <1>1, AnswerAppended, AcceptedGiven, HttpdAssumption, Zenon
<1>3. ASSUME cn.empty PROVE Lawful(out, nt.got, asks, f)
  <2>1. out \in FullyWritten(cn, nt, f) /\ f # 0
    BY <1>3, Zenon DEF StartWrite, Pending
  <2>2. Written(cn, nt, nt.got, asks, f)
    BY <1>1, <2>1, Zenon DEF Written
  <2> QED
    BY <2>1, <2>2, FullyWrittenLawful, Zenon
<1>4. ASSUME out \in FullyWritten(cn, full, f) PROVE Lawful(out, nt.got, asks, f)
  <2>1. /\ IsNet(full) /\ full.inbox = nt.inbox /\ full.left = nt.left
        /\ full.got = Append(nt.got, cn.answer)
    BY ToldNet, Zenon
  <2> HIDE DEF full
  <2>2. Answered(full, nt.got, asks) /\ Len(full.got) = Len(asks)
    BY <1>1, <1>2, <2>1, AnswerAppended DEF Answered
  <2>3. Written(cn, full, nt.got, asks, f)
    BY <1>1, <2>1, <2>2, Zenon DEF Written
  <2> QED
    BY <1>4, <2>1, <2>3, FullyWrittenLawful, Zenon
<1>5. ASSUME NEW k \in 0 .. Parts - 1, ~cn.empty,
             out = Out([cn EXCEPT !.wsent = k, !.watch = "write"], [nt EXCEPT !.room = FALSE], f)
      PROVE  Lawful(out, nt.got, asks, f)
  <2> DEFINE d == [cn EXCEPT !.wsent = k, !.watch = "write"]
             m == [nt EXCEPT !.room = FALSE]
  <2>1. /\ d.st = "open" /\ d.timer = cn.timer /\ d.watch = "write" /\ d.wsent = k
        /\ d.rlen = cn.rlen /\ d.v10 = cn.v10 /\ d.answer = cn.answer
        /\ d.closing = cn.closing /\ d.empty = cn.empty
    BY Zenon DEF IsConn, Fields
  <2>2. IsNet(m) /\ m.inbox = nt.inbox /\ m.left = nt.left /\ m.got = nt.got
    BY Zenon DEF IsNet, NetFields
  <2>3. out.cn = d /\ out.nt = m /\ out.f = f /\ f \in f .. MaxFaults
    BY <1>5, HttpdAssumption DEF Out
  <2> HIDE DEF d, m
  <2>4. Answering(d, m, asks, f)
    BY <1>1, <1>5, <2>1, <2>2, Zenon DEF Answering, Pending
  <2> QED
    BY <2>1, <2>2, <2>3, <2>4 DEF Lawful, Framed
<1>6. ASSUME ~cn.empty
      PROVE  \/ out \in ConnClose(nt, f) \cup FailClose(nt, f)
             \/ out \in FullyWritten(cn, full, f)
             \/ \E k \in 0 .. Parts - 1 :
                   out = Out([cn EXCEPT !.wsent = k, !.watch = "write"],
                             [nt EXCEPT !.room = FALSE], f)
  <2>1. (\E k \in sent : out \in after(k)) \/ out \in ConnClose(nt, f)
    <3>1. out \in UNION {after(k) : k \in sent}
          \/ out \in (IF nt.peer = "gone" THEN ConnClose(nt, f) ELSE {})
      BY <1>6, Zenon DEF StartWrite
    <3> HIDE DEF after, sent
    <3> QED
      BY <3>1, Zenon
  <2>2. \A k \in sent : k # Parts => k \in 0 .. Parts - 1
    BY <1>1, HttpdAssumption
  <2> HIDE DEF sent, full
  <2> QED
    BY <2>1, <2>2, Zenon
<1> QED
  BY <1>3, <1>4, <1>5, <1>6, CloseLawful, Zenon
\* Failures only add up.
LEMMA LawfulFrom ==
    ASSUME NEW out, NEW got, NEW asks, NEW f \in 0 .. MaxFaults, NEW g \in f .. MaxFaults,
           Lawful(out, got, asks, g)
    PROVE  Lawful(out, got, asks, f)
<1>1. out.f \in f .. MaxFaults /\ (out.f = f => out.f = g)
  BY HttpdAssumption DEF Lawful
<1> QED
  BY <1>1 DEF Lawful

\* The last request has been accepted and read to its end.
Complete(cn, nt, asks) ==
    /\ asks # <<>> /\ Len(nt.got) = Len(asks) - 1
    /\ ~cn.empty /\ cn.wsent = 0 /\ cn.rlen \in Nat
    /\ nt.inbox = 0 /\ nt.left = 0
    /\ Accepted(Last(asks)) /\ (cn.v10 <=> Old(asks, Len(asks)))

\* handle_complete_request answers the last request.
LEMMA HandleLawful ==
    ASSUME NEW c \in Clients, NEW asks \in Seq(Requests[c]), NEW cn, IsConn(cn), cn.st = "open",
           cn.timer \in Timers, NEW nt, IsNet(nt), nt.got \in Seq(Givens(Requests[c])),
           NEW f \in 0 .. MaxFaults, Complete(cn, nt, asks), n_conns \in Nat, n_conns <= MaxConns,
           NEW out \in HandleCompleteRequest(cn, nt, f, Last(asks))
    PROVE  Lawful(out, nt.got, asks, f)
<1> DEFINE ready ==
        [cn EXCEPT !.answer = Answer(Last(asks)), !.closing = WantClose(cn, Last(asks))]
           bare == [ready EXCEPT !.empty = TRUE]
<1>1. WantClose(cn, Last(asks)) <=> Leaves(asks)
  <2>1. ~(n_conns > MaxConns)
    BY HttpdAssumption
  <2> QED
    BY <2>1, Zenon DEF WantClose, Leaves, Complete
<1>2. /\ IsConn(ready) /\ ready.st = "open" /\ ready.timer = cn.timer
      /\ ready.answer = Answer(Last(asks)) /\ ready.closing = WantClose(cn, Last(asks))
      /\ ready.empty = cn.empty /\ ready.wsent = cn.wsent /\ ready.rlen = cn.rlen
      /\ ready.v10 = cn.v10
  BY Zenon DEF IsConn, Fields
<1>3. out \in StartWrite(ready, nt, f) \/ \E g \in MayFail(f) : out \in StartWrite(bare, nt, g)
  BY Zenon DEF HandleCompleteRequest
<1> HIDE DEF ready
<1>4. /\ IsConn(bare) /\ bare.st = "open" /\ bare.timer = cn.timer
      /\ bare.answer = Answer(Last(asks)) /\ bare.closing = WantClose(cn, Last(asks))
      /\ bare.empty /\ bare.wsent = cn.wsent /\ bare.rlen = cn.rlen
      /\ bare.v10 = cn.v10
  BY <1>2, Zenon DEF IsConn, Fields
<1> HIDE DEF bare
<1>5. 0 \in 0 .. Parts - 1
  BY HttpdAssumption
<1>6. Pending(ready, nt, asks, f)
  BY <1>1, <1>2, <1>5, Zenon DEF Pending, Complete
<1>7. ASSUME NEW g \in MayFail(f), out \in StartWrite(bare, nt, g)
      PROVE  Lawful(out, nt.got, asks, f)
  <2>1. g \in f .. MaxFaults /\ g \in 0 .. MaxFaults /\ g # 0
    BY HttpdAssumption DEF MayFail
  <2>2. Pending(bare, nt, asks, g)
    BY <1>1, <1>4, <1>5, <2>1, Zenon DEF Pending, Complete
  <2>3. Lawful(out, nt.got, asks, g)
    BY <1>4, <1>7, <2>1, <2>2, StartWriteLawful
  <2> QED
    BY <2>1, <2>3, LawfulFrom
<1> QED
  BY <1>2, <1>3, <1>6, <1>7, StartWriteLawful

\* A refusal is the answer to the request that deserves it, and the last.
LEMMA RefuseLawful ==
    ASSUME NEW c \in Clients, NEW asks \in Seq(Requests[c]), asks # <<>>, NEW nt, IsNet(nt),
           Len(nt.got) = Len(asks) - 1, NEW f \in 0 .. MaxFaults,
           NEW status, Given(Last(asks)) = <<"status", status>>,
           NEW out \in Refuse(status, nt, f)
    PROVE  Lawful(out, nt.got, asks, f)
<1> DEFINE told == [nt EXCEPT !.got = Append(@, <<"status", status>>)]
<1>1. IsNet(told) /\ told.got = Append(nt.got, <<"status", status>>)
  BY ToldNet, Zenon
<1>2. out = Out(Closed, nt, f) \/ out = Out(Closed, told, f)
  BY Zenon DEF Refuse, ConnClose
<1>3. f \in f .. MaxFaults /\ Given(Last(asks))[1] = "status"
  BY HttpdAssumption
<1> HIDE DEF told
<1>4. Answered(told, nt.got, asks)
  BY <1>1 DEF Answered
<1> QED
  BY <1>1, <1>2, <1>3, <1>4, LawfulClosed, Zenon

\* Waiting for more.
LEMMA SocketEmptyLawful ==
    ASSUME NEW cn, cn.st = "open", cn.timer \in Timers, NEW nt, IsNet(nt), nt.inbox = 0,
           NEW asks, NEW f \in 0 .. MaxFaults, Framed(cn, nt, asks, f),
           NEW out \in SocketEmpty(cn, nt, f)
    PROVE  Lawful(out, nt.got, asks, f)
<1>1. CASE out \in ConnClose(nt, f)
  BY <1>1, CloseLawful
<1>2. CASE out = Out(cn, nt, f)
  <2>1. out.cn = cn /\ out.nt = nt /\ out.f = f /\ f \in f .. MaxFaults
    BY <1>2, HttpdAssumption DEF Out
  <2> QED
    BY <2>1 DEF Lawful
<1> QED
  BY <1>1, <1>2, Zenon DEF SocketEmpty

\* The last request has been accepted, and some of its body may be missing.
Bodied(cn, nt, asks) ==
    /\ asks # <<>> /\ Len(nt.got) = Len(asks) - 1
    /\ cn.watch = "read" /\ cn.done /\ ~cn.empty /\ cn.wsent = 0 /\ cn.rlen \in Nat
    /\ cn.rlen + nt.inbox + nt.left = Total(Last(asks))
    /\ Accepted(Last(asks)) /\ (cn.v10 <=> Old(asks, Len(asks)))

\* on_conn_readable, past the headers: all that is there is read.
LEMMA ReadBodyLawful ==
    ASSUME NEW c \in Clients, NEW asks \in Seq(Requests[c]), NEW cn, IsConn(cn), cn.st = "open",
           cn.timer \in Timers, NEW nt, IsNet(nt), nt.got \in Seq(Givens(Requests[c])),
           NEW f \in 0 .. MaxFaults, Bodied(cn, nt, asks), n_conns \in Nat, n_conns <= MaxConns,
           NEW out \in ReadBody(cn, nt, f, Last(asks))
    PROVE  Lawful(out, nt.got, asks, f)
<1> DEFINE total == Last(asks).head + Last(asks).body
           n == Min({nt.inbox, Max({total - cn.rlen, 0})})
           read == [cn EXCEPT !.rlen = @ + n]
           rest == Take(nt, n)
<1>1. /\ nt.inbox \in Nat /\ nt.left \in Nat /\ cn.rlen \in Nat /\ total \in Nat
      /\ cn.rlen + nt.inbox + nt.left = total
  <2>1. Last(asks).head \in Nat /\ Last(asks).body \in Nat
    BY AnswerAppended, HttpdAssumption DEF Bodied, Last
  <2> QED
    BY <2>1 DEF Bodied, IsNet, Total
<1>2. n = nt.inbox
  <2>1. Max({total - cn.rlen, 0}) = total - cn.rlen
    <3>1. total - cn.rlen \in Int /\ 0 <= total - cn.rlen /\ 0 \in Int
      BY <1>1
    <3> HIDE DEF total
    <3> QED
      BY <3>1, MinMaxOfTwo, Zenon
  <2>2. nt.inbox \in Int /\ nt.inbox <= total - cn.rlen /\ total - cn.rlen \in Int
    BY <1>1
  <2> HIDE DEF total
  <2> QED
    BY <2>1, <2>2, MinMaxOfTwo, Zenon
<1>3. out \in IF read.rlen >= total THEN HandleCompleteRequest(read, rest, f, Last(asks))
             ELSE SocketEmpty(read, rest, f)
  BY Zenon DEF ReadBody
<1> HIDE DEF n, total
<1>4. /\ IsConn(read) /\ read.st = "open" /\ read.timer = cn.timer /\ read.watch = cn.watch
      /\ read.done = cn.done /\ read.empty = cn.empty /\ read.wsent = cn.wsent
      /\ read.v10 = cn.v10 /\ read.rlen = cn.rlen + n
  BY Zenon DEF IsConn, Fields
<1>5. /\ rest = [x \in NetFields |-> rest[x]]
      /\ rest.inbox = nt.inbox - n /\ rest.left = nt.left /\ rest.got = nt.got
  BY Zenon DEF IsNet, NetFields, Take
<1> HIDE DEF read, rest
<1>6. IsNet(rest) /\ rest.inbox = 0
  BY <1>1, <1>2, <1>5 DEF IsNet
<1>7. ASSUME read.rlen >= total PROVE Lawful(out, nt.got, asks, f)
  <2>1. rest.left = 0
    BY <1>1, <1>2, <1>4, <1>5, <1>7
  <2>2. read.rlen \in Nat
    BY <1>1, <1>2, <1>4
  <2>3. Complete(read, rest, asks)
    BY <1>4, <1>5, <1>6, <2>1, <2>2, Zenon DEF Complete, Bodied
  <2>4. out \in HandleCompleteRequest(read, rest, f, Last(asks))
    BY <1>3, <1>7, Zenon
  <2> QED
    BY <1>4, <1>5, <1>6, <2>3, <2>4, HandleLawful
<1>8. ASSUME ~(read.rlen >= total) PROVE Lawful(out, nt.got, asks, f)
  <2>1. read.rlen \in Nat /\ read.rlen < total /\ read.rlen + rest.inbox + rest.left = total
    BY <1>1, <1>2, <1>4, <1>5, <1>8
  <2>2. total = Total(Last(asks))
    BY DEF total, Total
  <2>3. Receiving(read, rest, asks)
    BY <1>4, <1>5, <1>6, <2>1, <2>2, Zenon DEF Receiving, Bodied
  <2>4. out \in SocketEmpty(read, rest, f)
    BY <1>3, <1>8, Zenon
  <2> QED
    BY <1>4, <1>5, <1>6, <2>3, <2>4, SocketEmptyLawful, Zenon DEF Framed
<1> QED
  BY <1>7, <1>8

\* A connection has been of HTTP/1.0 if it was before or the last request is.
LEMMA OldStep ==
    ASSUME NEW reqs, NEW asks \in Seq(reqs), asks # <<>>
    PROVE  Old(asks, Len(asks)) <=> Old(asks, Len(asks) - 1) \/ Last(asks).v10
<1>1. /\ Len(asks) \in 1 .. Len(asks) /\ Last(asks) = asks[Len(asks)]
      /\ \A i : i \in 1 .. Len(asks) <=> i \in 1 .. Len(asks) - 1 \/ i = Len(asks)
  BY DEF Last
<1> HIDE DEF Last
<1> QED
  BY <1>1, Zenon DEF Old

\* Reading moves pieces from the socket to rbuf.
LEMMA PiecesMove ==
    ASSUME NEW r \in Nat, NEW i \in Nat, NEW l \in Nat, NEW n \in Nat, n <= i
    PROVE  r + n \in Nat /\ r + n + (i - n) + l = r + i + l
OBVIOUS

\* on_conn_readable, within the headers of the last request.
LEMMA ReadHeadersLawful ==
    ASSUME NEW c \in Clients, NEW asks \in Seq(Requests[c]), NEW cn, IsConn(cn),
           cn.st = "open", cn.timer \in Timers,
           NEW nt, IsNet(nt), nt.got \in Seq(Givens(Requests[c])),
           NEW f \in 0 .. MaxFaults, Receiving(cn, nt, asks), ~cn.done,
           n_conns \in Nat, n_conns <= MaxConns,
           NEW out \in ReadHeaders(cn, nt, f, Last(asks))
    PROVE  Lawful(out, nt.got, asks, f)
<1> DEFINE req == Last(asks)
           n == Min({nt.inbox, MaxHeader - cn.rlen})
           read == [cn EXCEPT !.rlen = @ + n]
           rest == Take(nt, n)
<1>1. /\ nt.inbox \in Nat /\ nt.left \in Nat /\ cn.rlen \in Nat /\ MaxHeader \in Nat
      /\ req.head \in Nat /\ req.body \in Nat /\ asks # <<>> /\ MaxBody \in Nat
      /\ Len(nt.got) = Len(asks) - 1
      /\ cn.rlen < req.head /\ cn.rlen < MaxHeader
      /\ cn.rlen + nt.inbox + nt.left = req.head + req.body
  <2>1. asks # <<>> /\ req \in Requests[c]
    BY AnswerAppended DEF Receiving
  <2>2. req.head \in Nat /\ req.body \in Nat /\ MaxHeader \in Nat /\ MaxBody \in Nat
    BY <2>1, HttpdAssumption
  <2> HIDE DEF req
  <2> QED
    BY <2>1, <2>2 DEF Receiving, IsNet, Total, req
<1>2. /\ n \in Nat /\ n \in {nt.inbox, MaxHeader - cn.rlen}
      /\ n <= nt.inbox /\ n <= MaxHeader - cn.rlen
  <2>1. nt.inbox \in Int /\ MaxHeader - cn.rlen \in Int
    BY <1>1
  <2>2. /\ n \in {nt.inbox, MaxHeader - cn.rlen} /\ n \in Int
        /\ n <= nt.inbox /\ n <= MaxHeader - cn.rlen
    BY <2>1, MinOfEither, Zenon
  <2> HIDE DEF n
  <2> QED
    BY <1>1, <2>2
<1>3. out \in (IF n = 0 THEN SocketEmpty(cn, nt, f)
              ELSE IF req.head <= read.rlen
              THEN IF ~req.ok THEN Refuse(400, rest, f)
                   ELSE IF req.body > MaxBody THEN Refuse(413, rest, f)
                   ELSE ReadBody(Parsed(read, req), rest, f, req)
              ELSE IF read.rlen >= MaxHeader THEN Refuse(431, rest, f)
              ELSE SocketEmpty(read, rest, f))
  BY DEF ReadHeaders
<1>4. /\ IsConn(read) /\ read.st = "open" /\ read.timer = cn.timer /\ read.watch = cn.watch
      /\ read.done = cn.done /\ read.empty = cn.empty /\ read.wsent = cn.wsent
      /\ read.v10 = cn.v10 /\ read.rlen = cn.rlen + n
  BY Zenon DEF IsConn, Fields
<1>5. /\ rest = [x \in NetFields |-> rest[x]]
      /\ rest.inbox = nt.inbox - n /\ rest.left = nt.left /\ rest.got = nt.got
  BY Zenon DEF IsNet, NetFields, Take
<1> HIDE DEF n, read, rest, req
<1>6. IsNet(rest)
  BY <1>1, <1>2, <1>5, SMTT(30) DEF IsNet
<1>14. read.rlen = cn.rlen + n
  BY <1>4, Zenon
<1>15. rest.inbox = nt.inbox - n /\ rest.left = nt.left
  BY <1>5, Zenon
<1>16. /\ cn.rlen + n \in Nat
       /\ cn.rlen + n + rest.inbox + rest.left = req.head + req.body
  <2>4. nt.inbox \in Nat /\ nt.left \in Nat /\ cn.rlen \in Nat /\ n \in Nat /\ n <= nt.inbox
    BY <1>1, <1>2, Zenon
  <2>1. cn.rlen + n \in Nat
    BY <2>4
  <2>2. cn.rlen + n + (nt.inbox - n) + nt.left = cn.rlen + nt.inbox + nt.left
    BY <2>4, PiecesMove
  <2>3. cn.rlen + nt.inbox + nt.left = req.head + req.body
    BY <1>1
  <2> QED
    BY <1>15, <2>1, <2>2, <2>3
<1>7. CASE n = 0
  <2>1. nt.inbox = 0 /\ out \in SocketEmpty(cn, nt, f)
    BY <1>1, <1>2, <1>3, <1>7
  <2> QED
    BY <2>1, SocketEmptyLawful, Zenon DEF Framed
<1>8. ASSUME NEW status, Given(req) = <<"status", status>>, out \in Refuse(status, rest, f)
      PROVE  Lawful(out, nt.got, asks, f)
  <2>1. Given(Last(asks)) = <<"status", status>> /\ Len(rest.got) = Len(asks) - 1
    BY <1>1, <1>5, <1>8, SMTT(30) DEF req
  <2>2. Lawful(out, rest.got, asks, f)
    BY <1>1, <1>6, <1>8, <2>1, RefuseLawful, Zenon
  <2> QED
    BY <1>5, <2>2
<1>9. CASE n # 0 /\ req.head <= read.rlen /\ ~req.ok
  <2>1. ~(req.head > MaxHeader)
    BY <1>1, <1>2, <1>14, <1>9, SMTT(30)
  <2>2. Given(req) = <<"status", 400>>
    BY <1>9, <2>1, Zenon DEF Given
  <2> QED
    BY <1>3, <1>8, <1>9, <2>2
<1>10. CASE n # 0 /\ req.head <= read.rlen /\ req.ok /\ req.body > MaxBody
  <2>1. ~(req.head > MaxHeader)
    BY <1>1, <1>2, <1>14, <1>10, SMTT(30)
  <2>2. Given(req) = <<"status", 413>>
    BY <1>10, <2>1, Zenon DEF Given
  <2> QED
    BY <1>3, <1>8, <1>10, <2>2
<1>11. CASE n # 0 /\ ~(req.head <= read.rlen) /\ read.rlen >= MaxHeader
  <2>1. req.head > MaxHeader
    BY <1>1, <1>2, <1>14, <1>11
  <2>2. Given(req) = <<"status", 431>>
    BY <1>11, <2>1, Zenon DEF Given
  <2> QED
    BY <1>3, <1>8, <1>11, <2>2
<1>12. CASE n # 0 /\ req.head <= read.rlen /\ req.ok /\ ~(req.body > MaxBody)
  <2>1. PICK d : d = Parsed(read, req)
    OBVIOUS
  <2>2. out \in ReadBody(d, rest, f, Last(asks))
    BY <1>3, <1>12, <2>1 DEF req
  <2>3. /\ IsConn(d) /\ d.st = "open" /\ d.timer = cn.timer /\ d.watch = cn.watch
        /\ d.done /\ d.empty = cn.empty /\ d.wsent = cn.wsent
        /\ d.rlen = cn.rlen + n /\ (d.v10 <=> cn.v10 \/ req.v10)
    BY <1>4, <2>1, Zenon DEF IsConn, Fields, Parsed
  <2>4. Accepted(req)
    <3>1. req.head <= MaxHeader /\ req.body <= MaxBody
      <4>1. req.head <= read.rlen /\ ~(req.body > MaxBody)
        BY <1>12, Zenon
      <4>2. read.rlen <= MaxHeader /\ read.rlen \in Nat
        BY <1>1, <1>2, <1>14, SMTT(30)
      <4> QED
        BY <1>1, <4>1, <4>2
    <3> QED
      BY <1>12, <3>1, Zenon DEF Accepted
  <2>5. d.rlen \in Nat /\ d.rlen + rest.inbox + rest.left = req.head + req.body
    BY <1>16, <2>3, Zenon
  <2>6. d.v10 <=> Old(asks, Len(asks))
    BY <1>1, <2>3, OldStep, Zenon DEF Receiving, req
  <2>7. Bodied(d, rest, asks)
    BY <1>1, <1>5, <2>3, <2>4, <2>5, <2>6, Zenon DEF Bodied, Receiving, Total, req
  <2>8. Lawful(out, rest.got, asks, f)
    BY <1>5, <1>6, <2>2, <2>3, <2>7, ReadBodyLawful, Zenon
  <2> QED
    BY <1>5, <2>8
<1>13. CASE n # 0 /\ ~(req.head <= read.rlen) /\ ~(read.rlen >= MaxHeader)
  <2>1. out \in SocketEmpty(read, rest, f)
    BY <1>3, <1>13
  <2>5. /\ read.rlen \in Nat
        /\ read.rlen + rest.inbox + rest.left = req.head + req.body
    BY <1>14, <1>16, Zenon
  <2>6. n = nt.inbox
    BY <1>1, <1>2, <1>13, <1>14
  <2>7. rest.inbox = 0
    BY <1>1, <1>15, <2>6
  <2>2. /\ read.rlen \in Nat /\ read.rlen < req.head /\ read.rlen < MaxHeader
        /\ read.rlen < req.head + req.body /\ rest.inbox = 0
        /\ read.rlen + rest.inbox + rest.left = req.head + req.body
    BY <1>1, <1>13, <2>5, <2>7
  <2>3. Receiving(read, rest, asks)
    BY <1>4, <1>5, <2>2, Zenon DEF Receiving, Total, req
  <2>4. Lawful(out, rest.got, asks, f)
    BY <1>4, <1>6, <2>1, <2>2, <2>3, SocketEmptyLawful, Zenon DEF Framed
  <2> QED
    BY <1>5, <2>4
<1> QED
  BY <1>7, <1>9, <1>10, <1>11, <1>12, <1>13

\* on_conn_readable as a whole.
LEMMA ReadableLawful ==
    ASSUME NEW c \in Clients, NEW asks \in Seq(Requests[c]), NEW cn, IsConn(cn),
           cn.st = "open", cn.watch = "read", cn.timer \in Timers,
           NEW nt, IsNet(nt), nt.got \in Seq(Givens(Requests[c])),
           NEW f \in 0 .. MaxFaults, Framed(cn, nt, asks, f),
           n_conns \in Nat, n_conns <= MaxConns,
           NEW req, asks # <<>> => req = Last(asks),
           NEW out \in Readable(cn, nt, f, req)
    PROVE  Lawful(out, nt.got, asks, f)
<1>1. ASSUME NEW t \in ResetIdleTimer(cn, f),
             out \in IF cn.done THEN ReadBody(t[1], nt, t[2], req)
                     ELSE ReadHeaders(t[1], nt, t[2], req)
      PROVE  Lawful(out, nt.got, asks, f)
  <2>1. PICK d, g : d = t[1] /\ g = t[2]
    OBVIOUS
  <2>2. /\ IsConn(d) /\ d.st = "open" /\ d.timer \in Timers
        /\ Alike(cn, d) /\ g \in f .. MaxFaults
    BY <2>1, ResetTimerAlike
  <2>3. g \in 0 .. MaxFaults /\ f \in Nat /\ g \in Nat /\ f <= g
    BY <2>2, HttpdAssumption
  <2>4. Framed(d, nt, asks, g) /\ d.watch = "read" /\ d.done = cn.done
    BY <2>2, <2>3, FramedAlike DEF Alike
  <2>5. CASE Idle(d, nt, asks, g)
    <3>1. ~cn.done /\ nt.inbox = 0 /\ d.rlen = 0
      BY <2>4, <2>5 DEF Idle
    <3>2. out \in ReadHeaders(d, nt, g, req)
      BY <1>1, <2>1, <3>1
    <3>3. Min({nt.inbox, MaxHeader - d.rlen}) = 0
      <4>1. 0 \in Int /\ MaxHeader - 0 \in Int /\ 0 <= MaxHeader - 0
        BY HttpdAssumption
      <4> QED
        BY <3>1, <4>1, MinMaxOfTwo, Zenon
    <3>4. out \in SocketEmpty(d, nt, g)
      BY <3>2, <3>3, Zenon DEF ReadHeaders
    <3> QED
      BY <2>2, <2>3, <2>4, <3>1, <3>4, SocketEmptyLawful, LawfulFrom
  <2>6. CASE Receiving(d, nt, asks)
    <3>1. req = Last(asks) /\ (d.done => Bodied(d, nt, asks))
      BY <2>6, Zenon DEF Receiving, Bodied
    <3>2. Lawful(out, nt.got, asks, g)
      <4>1. CASE d.done
        BY <1>1, <2>1, <2>2, <2>3, <2>4, <3>1, <4>1, ReadBodyLawful, Zenon
      <4>2. CASE ~d.done
        BY <1>1, <2>1, <2>2, <2>3, <2>4, <2>6, <3>1, <4>2, ReadHeadersLawful, Zenon
      <4> QED
        BY <4>1, <4>2
    <3> QED
      BY <2>2, <3>2, LawfulFrom
  <2> QED
    BY <2>4, <2>5, <2>6 DEF Framed, Answering
<1>2. \/ out \in ConnClose(nt, f) \cup FailClose(nt, f)
      \/ \E t \in ResetIdleTimer(cn, f) :
            out \in IF cn.done THEN ReadBody(t[1], nt, t[2], req)
                    ELSE ReadHeaders(t[1], nt, t[2], req)
  BY Zenon DEF Readable
<1> QED
  BY <1>1, <1>2, CloseLawful, Zenon

\* on_conn_writable as a whole.
LEMMA WritableLawful ==
    ASSUME NEW c \in Clients, NEW asks \in Seq(Requests[c]), NEW cn, IsConn(cn),
           cn.st = "open", cn.watch = "write", cn.timer \in Timers,
           NEW nt, IsNet(nt), nt.got \in Seq(Givens(Requests[c])),
           NEW f \in 0 .. MaxFaults, Framed(cn, nt, asks, f),
           NEW out \in Writable(cn, nt, f)
    PROVE  Lawful(out, nt.got, asks, f)
<1>1. Pending(cn, nt, asks, f)
  BY DEF Framed, Idle, Receiving, Answering
<1>2. out \in ConnClose(nt, f) \/ out \in StartWrite(cn, nt, f)
  BY Zenon DEF Writable
<1> QED
  BY <1>1, <1>2, CloseLawful, StartWriteLawful, Zenon

-----------------------------------------------------------------------------
\* The record of a closed connection.
LEMMA ClosedFields == Closed.st = "closed" /\ Closed.timer = "none"
BY Zenon DEF Closed, NoConn

\* What does not concern the exchange may change, and failures happen elsewhere.
LEMMA ExchangeAlike ==
    ASSUME NEW cn, NEW d, NEW nt, NEW asks, NEW reqs,
           NEW f \in 0 .. MaxFaults, NEW g \in f .. MaxFaults,
           Exchange(cn, nt, asks, f, reqs),
           \/ d = cn
           \/ /\ cn # Closed /\ Alike(cn, d) /\ d.timer \in Timers
              /\ d.st \in {"none", "queued", "open"}
           \/ d = Closed
    PROVE  Exchange(d, nt, asks, g, reqs)
<1>1. f \in Nat /\ g \in Nat /\ f <= g
  BY HttpdAssumption
<1>2. /\ asks \in Seq(reqs) /\ IsNet(nt) /\ cn.timer \in Timers
      /\ nt.got \in Seq(Givens(reqs)) /\ Len(nt.got) <= Len(asks)
      /\ \A i \in 1 .. Len(nt.got) : nt.got[i] = Given(asks[i])
      /\ \/ cn = Closed
         \/ cn.st \in {"none", "queued", "open"} /\ Framed(cn, nt, asks, f)
  BY DEF Exchange
<1>3. CASE d = Closed
  BY <1>2, <1>3, ClosedFields DEF Exchange, Timers
<1>4. CASE d = cn /\ cn # Closed
  <2>1. Alike(cn, cn)
    BY DEF Alike
  <2>2. Framed(cn, nt, asks, g)
    BY <1>1, <1>2, <1>4, <2>1, FramedAlike, Zenon
  <2> QED
    BY <1>2, <1>4, <2>2, Zenon DEF Exchange
<1>5. CASE cn # Closed /\ Alike(cn, d) /\ d.timer \in Timers
           /\ d.st \in {"none", "queued", "open"}
  <2>1. Framed(d, nt, asks, g)
    BY <1>1, <1>2, <1>5, FramedAlike, Zenon
  <2> QED
    BY <1>2, <1>5, <2>1, Zenon DEF Exchange
<1> QED
  BY <1>3, <1>4, <1>5

\* A handler leaves the exchange of its connection in order, and the client's
\* answers are the same or one more.
LEMMA LawfulExchange ==
    ASSUME NEW c \in Clients, NEW cn, NEW nt, NEW asks, NEW f \in 0 .. MaxFaults,
           Exchange(cn, nt, asks, f, Requests[c]), NEW out, Lawful(out, nt.got, asks, f)
    PROVE  Exchange(out.cn, out.nt, asks, out.f, Requests[c])
<1>1. /\ asks \in Seq(Requests[c]) /\ nt.got \in Seq(Givens(Requests[c]))
      /\ Len(nt.got) <= Len(asks)
      /\ \A i \in 1 .. Len(nt.got) : nt.got[i] = Given(asks[i])
  BY DEF Exchange
<1>2. /\ out.nt.got \in Seq(Givens(Requests[c])) /\ Len(out.nt.got) <= Len(asks)
      /\ \A i \in 1 .. Len(out.nt.got) : out.nt.got[i] = Given(asks[i])
  <2>1. CASE out.nt.got = nt.got
    BY <1>1, <2>1
  <2>2. CASE Answered(out.nt, nt.got, asks)
    <3>1. PICK a : a = Given(Last(asks))
      OBVIOUS
    <3>2. /\ asks # <<>> /\ Len(nt.got) = Len(asks) - 1
          /\ out.nt.got = Append(nt.got, a)
      BY <2>2, <3>1 DEF Answered
    <3>3. a \in Givens(Requests[c])
      <4>1. Last(asks) \in Requests[c]
        BY <1>1, <3>2, AnswerAppended
      <4> QED
        BY <3>1, <4>1 DEF Givens
    <3>4. a = Given(asks[Len(asks)])
      BY <3>1 DEF Last
    <3>5. /\ out.nt.got \in Seq(Givens(Requests[c])) /\ Len(out.nt.got) = Len(asks)
          /\ \A i \in 1 .. Len(nt.got) : out.nt.got[i] = nt.got[i]
          /\ out.nt.got[Len(asks)] = a
      BY <1>1, <3>2, <3>3
    <3>6. \A i \in 1 .. Len(asks) : i \in 1 .. Len(nt.got) \/ i = Len(asks)
      BY <1>1, <3>2
    <3> QED
      BY <1>1, <3>4, <3>5, <3>6
  <2> QED
    BY <2>1, <2>2 DEF Lawful
<1> QED
  BY <1>1, <1>2, Zenon DEF Lawful, Exchange

\* The i-th answer is the answer to the i-th request in every state, and what a
\* handler does is what the last request asks for.
LEMMA SettleExchange ==
    ASSUME HttpdInv, ExchangeInv, NEW c \in Clients, NEW out,
           Lawful(out, net[c].got, asked[c], faults), Settle(c, out)
    PROVE  ExchangeInv'
<1>1. /\ conn' = [conn EXCEPT ![c] = out.cn] /\ net' = [net EXCEPT ![c] = out.nt]
      /\ faults' = out.f /\ asked' = asked
  BY Zenon DEF Settle
<1>2. /\ conn'[c] = out.cn /\ net'[c] = out.nt
      /\ \A d \in Clients \ {c} : conn'[d] = conn[d] /\ net'[d] = net[d]
  BY <1>1 DEF HttpdInv, ExchangeInv
<1>3. faults \in 0 .. MaxFaults /\ faults' \in faults .. MaxFaults
      /\ faults' \in 0 .. MaxFaults
  BY <1>1, HttpdAssumption, SMTT(30) DEF ExchangeInv, Lawful
<1>4. Exchange(conn'[c], net'[c], asked'[c], faults', Requests[c])
  <2>1. Exchange(conn[c], net[c], asked[c], faults, Requests[c])
    BY DEF ExchangeInv
  <2>2. Exchange(out.cn, out.nt, asked[c], out.f, Requests[c])
    BY <1>3, <2>1, LawfulExchange, Zenon
  <2> QED
    BY <1>1, <1>2, <2>2
<1>5. ASSUME NEW d \in Clients \ {c}
      PROVE  Exchange(conn'[d], net'[d], asked'[d], faults', Requests[d])
  <2>1. Exchange(conn[d], net[d], asked[d], faults, Requests[d])
    BY DEF ExchangeInv
  <2>2. Exchange(conn[d], net[d], asked[d], faults', Requests[d])
    BY <1>3, <2>1, ExchangeAlike, Zenon
  <2> QED
    BY <1>1, <1>2, <2>2
<1>6. net' = [d \in Clients |-> net'[d]] /\ asked' = [d \in Clients |-> asked'[d]]
  BY <1>1 DEF ExchangeInv
<1> QED
  BY <1>3, <1>4, <1>5, <1>6 DEF ExchangeInv

\* Connecting, accepting, destroying and the clock change no exchange.
LEMMA ConnExchange ==
    ASSUME HttpdInv, ExchangeInv, net' = net, asked' = asked,
           faults' \in faults .. MaxFaults,
           \A c \in Clients :
              \/ conn'[c] = conn[c] \/ conn'[c] = Closed
              \/ /\ conn[c] # Closed /\ conn'[c].timer \in Timers
                 /\ Alike(conn[c], conn'[c]) /\ conn'[c].st \in {"none", "queued", "open"}
    PROVE  ExchangeInv'
<1>1. faults \in 0 .. MaxFaults /\ faults' \in 0 .. MaxFaults
  BY HttpdAssumption DEF ExchangeInv
<1>2. ASSUME NEW c \in Clients
      PROVE  Exchange(conn'[c], net'[c], asked'[c], faults', Requests[c])
  <2>1. Exchange(conn[c], net[c], asked[c], faults, Requests[c])
    BY DEF ExchangeInv
  <2>2. Exchange(conn'[c], net[c], asked[c], faults', Requests[c])
    BY <1>1, <2>1, ExchangeAlike, Zenon
  <2> QED
    BY <2>2
<1> QED
  BY <1>1, <1>2 DEF ExchangeInv

\* What one client does.
LEMMA NetExchange ==
    ASSUME HttpdInv, ExchangeInv, NEW c \in Clients, NEW m, NEW a,
           conn' = conn, faults' = faults, net' = [net EXCEPT ![c] = m],
           asked' = [asked EXCEPT ![c] = a],
           Exchange(conn[c], m, a, faults, Requests[c])
    PROVE  ExchangeInv'
<1>1. /\ net'[c] = m /\ asked'[c] = a
      /\ \A d \in Clients \ {c} : net'[d] = net[d] /\ asked'[d] = asked[d]
  BY DEF ExchangeInv
<1>2. net' = [d \in Clients |-> net'[d]] /\ asked' = [d \in Clients |-> asked'[d]]
  BY Zenon DEF ExchangeInv
<1>3. \A d \in Clients : Exchange(conn'[d], net'[d], asked'[d], faults', Requests[d])
  BY <1>1, Zenon DEF ExchangeInv
<1> QED
  BY <1>2, <1>3 DEF ExchangeInv

\* Reading what was sent and closing do not concern the exchange.
LEMMA PeerExchange ==
    ASSUME HttpdInv, ExchangeInv, NEW c \in Clients, Drain(c) \/ HangUp(c)
    PROVE  ExchangeInv'
<1>1. /\ conn' = conn /\ faults' = faults /\ asked' = asked
      /\ \/ \E p : net' = [net EXCEPT ![c].peer = p]
         \/ net' = [net EXCEPT ![c].room = TRUE]
  BY Zenon DEF Drain, HangUp
<1>2. PICK nt : nt = net[c]
  OBVIOUS
<1>3. Exchange(conn[c], nt, asked[c], faults, Requests[c])
  BY <1>2 DEF ExchangeInv
<1>4. PICK m : /\ net' = [net EXCEPT ![c] = m]
               /\ (\E p : m = [nt EXCEPT !.peer = p]) \/ m = [nt EXCEPT !.room = TRUE]
  BY <1>1, <1>2, Zenon
<1>5. IsNet(m) /\ m.inbox = nt.inbox /\ m.left = nt.left /\ m.got = nt.got
  <2>1. IsNet(nt)
    BY <1>3 DEF Exchange
  <2> QED
    BY <1>4, <2>1, Zenon DEF IsNet, NetFields
<1>6. ASSUME NEW f PROVE Framed(conn[c], nt, asked[c], f) => Framed(conn[c], m, asked[c], f)
  BY <1>5, Zenon DEF Framed, Idle, Receiving, Answering, Pending
<1>7. Exchange(conn[c], m, asked[c], faults, Requests[c])
  BY <1>3, <1>5, <1>6, Zenon DEF Exchange
<1>8. asked' = [asked EXCEPT ![c] = asked[c]]
  BY <1>1 DEF ExchangeInv
<1> QED
  BY <1>1, <1>4, <1>7, <1>8, NetExchange, Zenon

\* More of the last request arrives.
LEMMA SendExchange ==
    ASSUME HttpdInv, ExchangeInv, NEW c \in Clients, SendMore(c)
    PROVE  ExchangeInv'
<1>1. PICK n \in 1 .. net[c].left :
         net' = [net EXCEPT ![c].inbox = @ + n, ![c].left = @ - n]
  BY Zenon DEF SendMore
<1>2. conn' = conn /\ faults' = faults /\ asked' = asked /\ conn[c].st \in {"queued", "open"}
  BY DEF SendMore
<1>3. PICK nt, m : nt = net[c] /\ m = [nt EXCEPT !.inbox = @ + n, !.left = @ - n]
  BY Zenon
<1>4. net' = [net EXCEPT ![c] = m]
  BY <1>1, <1>3, Zenon
<1>5. Exchange(conn[c], nt, asked[c], faults, Requests[c])
  BY <1>3 DEF ExchangeInv
<1>6. /\ IsNet(nt) /\ Framed(conn[c], nt, asked[c], faults)
      /\ nt.inbox \in Nat /\ nt.left \in Nat /\ n \in 1 .. nt.left
  BY <1>1, <1>2, <1>3, <1>5, ClosedFields DEF Exchange, IsNet
<1>7. Receiving(conn[c], nt, asked[c])
  <2>1. nt.left # 0
    BY <1>6
  <2> QED
    BY <1>6, <2>1, Zenon DEF Framed, Idle, Answering, Pending
<1>8. /\ m = [x \in NetFields |-> m[x]] /\ m.inbox = nt.inbox + n /\ m.left = nt.left - n
      /\ m.got = nt.got
  BY <1>3, <1>6, Zenon DEF IsNet, NetFields
<1>9. IsNet(m)
  <2>1. m.inbox \in Nat /\ m.left \in Nat
    BY <1>6, <1>8
  <2> QED
    BY <1>8, <2>1, Zenon DEF IsNet
<1>10. conn[c].rlen + m.inbox + m.left = conn[c].rlen + nt.inbox + nt.left
  <2>1. conn[c].rlen \in Nat
    BY <1>7 DEF Receiving
  <2>2. m.inbox = nt.inbox + n /\ m.left = nt.left - n
    BY <1>8
  <2> QED
    BY <1>6, <2>1, <2>2, SMTT(30)
<1>11. Receiving(conn[c], m, asked[c])
  BY <1>7, <1>8, <1>10, Zenon DEF Receiving
<1>12. Exchange(conn[c], m, asked[c], faults, Requests[c])
  BY <1>5, <1>8, <1>9, <1>11, Zenon DEF Exchange, Framed, Receiving
<1>13. asked' = [asked EXCEPT ![c] = asked[c]]
  BY <1>2 DEF ExchangeInv
<1> QED
  BY <1>2, <1>4, <1>12, <1>13, NetExchange, Zenon

\* The client begins its next request.
LEMMA AskExchange ==
    ASSUME HttpdInv, ExchangeInv, NEW c \in Clients, NEW req \in Requests[c], Ask(c, req)
    PROVE  ExchangeInv'
<1>1. PICK n \in 1 .. req.head + req.body :
         net' = [net EXCEPT ![c].inbox = n, ![c].left = req.head + req.body - n]
  BY Zenon DEF Ask
<1>2. /\ conn' = conn /\ faults' = faults /\ conn[c].st \in {"queued", "open"}
      /\ asked' = [asked EXCEPT ![c] = Append(asked[c], req)]
      /\ Len(net[c].got) = Len(asked[c])
  BY DEF Ask
<1>3. PICK nt, m, asks, a :
         /\ nt = net[c] /\ m = [nt EXCEPT !.inbox = n, !.left = req.head + req.body - n]
         /\ asks = asked[c] /\ a = Append(asked[c], req)
  BY Zenon
<1>4. net' = [net EXCEPT ![c] = m] /\ asked' = [asked EXCEPT ![c] = a]
  BY <1>1, <1>2, <1>3, Zenon
<1>5. Exchange(conn[c], nt, asks, faults, Requests[c])
  BY <1>3 DEF ExchangeInv
<1>6. /\ IsNet(nt) /\ Framed(conn[c], nt, asks, faults) /\ asks \in Seq(Requests[c])
      /\ nt.got \in Seq(Givens(Requests[c])) /\ Len(nt.got) = Len(asks)
      /\ \A i \in 1 .. Len(nt.got) : nt.got[i] = Given(asks[i])
  BY <1>2, <1>3, <1>5, ClosedFields DEF Exchange
<1>7. Idle(conn[c], nt, asks, faults)
  <2>1. Len(nt.got) # Len(asks) - 1
    BY <1>6
  <2> QED
    BY <1>6, <2>1, Zenon DEF Framed, Receiving, Answering, Pending
<1>8. /\ req.head \in Nat \ {0} /\ req.body \in Nat /\ MaxHeader \in Nat \ {0}
      /\ n \in 1 .. req.head + req.body
  BY HttpdAssumption
<1>9. /\ m = [x \in NetFields |-> m[x]] /\ m.inbox = n /\ m.left = req.head + req.body - n
      /\ m.got = nt.got
  BY <1>3, <1>6, Zenon DEF IsNet, NetFields
<1>10. IsNet(m)
  <2>1. m.inbox \in Nat /\ m.left \in Nat
    BY <1>8, <1>9
  <2> QED
    BY <1>9, <2>1, Zenon DEF IsNet
<1>11. /\ a \in Seq(Requests[c]) /\ a # <<>> /\ Len(a) = Len(asks) + 1 /\ Last(a) = req
       /\ \A i \in 1 .. Len(asks) : a[i] = asks[i]
  <2>1. asks \in Seq(Requests[c]) /\ a = Append(asks, req)
    BY <1>3, <1>6
  <2>2. /\ a \in Seq(Requests[c]) /\ Len(a) = Len(asks) + 1 /\ a[Len(a)] = req
        /\ \A i \in 1 .. Len(asks) : a[i] = asks[i]
    BY <2>1
  <2>3. a # <<>>
    BY <2>1, <2>2
  <2> QED
    BY <2>2, <2>3 DEF Last
<1>12. Len(m.got) = Len(a) - 1 /\ Len(a) - 1 = Len(asks) /\ Len(m.got) <= Len(a)
  BY <1>6, <1>9, <1>11
<1>13. Old(a, Len(a) - 1) <=> Old(asks, Len(asks))
  BY <1>11, <1>12, Zenon DEF Old
<1>14. /\ 0 \in Nat /\ 0 < req.head + req.body /\ 0 < req.head /\ 0 < MaxHeader
       /\ 0 + m.inbox + m.left = req.head + req.body
  <2>1. m.inbox = n /\ m.left = req.head + req.body - n
    BY <1>9
  <2> QED
    BY <1>8, <2>1
<1>15. Receiving(conn[c], m, a)
  BY <1>7, <1>11, <1>12, <1>13, <1>14, Zenon DEF Receiving, Idle, Total
<1>16. \A i \in 1 .. Len(m.got) : m.got[i] = Given(a[i])
  BY <1>6, <1>9, <1>11
<1>17. Exchange(conn[c], m, a, faults, Requests[c])
  BY <1>2, <1>5, <1>6, <1>9, <1>10, <1>11, <1>12, <1>15, <1>16, Zenon DEF Exchange, Framed
<1> QED
  BY <1>2, <1>4, <1>17, NetExchange, Zenon

\* A new server has exchanged nothing.
LEMMA InitExchange == Init => ExchangeInv
<1> SUFFICES ASSUME Init PROVE ExchangeInv
  OBVIOUS
<1>1. /\ net = [c \in Clients |-> NoNet] /\ asked = [c \in Clients |-> <<>>] /\ faults = 0
      /\ \A c \in Clients : conn[c] = NoConn
  BY DEF Init
<1>2. /\ NoConn.st = "none" /\ NoConn.watch = "read" /\ NoConn.timer = "none"
      /\ ~NoConn.done /\ ~NoConn.empty /\ NoConn.wsent = 0 /\ NoConn.rlen = 0 /\ ~NoConn.v10
  BY DEF NoConn
<1>3. NoNet.inbox = 0 /\ NoNet.left = 0 /\ NoNet.got = <<>>
  BY DEF NoNet
<1>4. IsNet(NoNet)
  BY <1>3 DEF IsNet, NetFields, NoNet
<1>5. ~Old(<<>>, Len(<<>>)) /\ Len(<<>>) <= Len(<<>>)
  BY DEF Old
<1>6. Idle(NoConn, NoNet, <<>>, 0)
  BY <1>2, <1>3, <1>5, Zenon DEF Idle
<1>7. ASSUME NEW reqs PROVE Exchange(NoConn, NoNet, <<>>, 0, reqs)
  <2>1. <<>> \in Seq(reqs) /\ <<>> \in Seq(Givens(reqs)) /\ 1 .. Len(<<>>) = {}
    OBVIOUS
  <2> QED
    BY <1>2, <1>3, <1>4, <1>5, <1>6, <2>1, Zenon DEF Exchange, Framed, Timers
<1>8. 0 \in 0 .. MaxFaults
  BY HttpdAssumption
<1> QED
  BY <1>1, <1>7, <1>8 DEF ExchangeInv

\* The event that a handler is called for is that of an open connection.
LEMMA DispatchOpen ==
    ASSUME HttpdInv, NEW c \in Clients, NEW kind, Dispatches(c, kind)
    PROVE  conn[c].st = "open" /\ batch # <<>>
<1>1. batch # <<>> /\ Head(batch) = Event(c, kind)
  BY DEF Dispatches
<1>2. 1 \in 1 .. Len(batch) /\ batch[1] = Event(c, kind)
  BY <1>1 DEF HttpdInv
<1>3. batch[1].c = c /\ ~batch[1].stale
  BY <1>2 DEF Event
<1> QED
  BY <1>1, <1>2, <1>3 DEF HttpdInv, BatchLive

\* What any handler of a connection does.
LEMMA HandlerLawful ==
    ASSUME HttpdInv, ExchangeInv, NEW c \in Clients,
           OnConnReadable(c) \/ OnConnWritable(c) \/ OnIdleTimeout(c)
    PROVE  \E out : Lawful(out, net[c].got, asked[c], faults) /\ Settle(c, out)
<1>1. conn[c].st = "open"
  BY DispatchOpen DEF OnConnReadable, OnConnWritable, OnIdleTimeout
<1>2. /\ IsConn(conn[c]) /\ conn[c].timer \in Timers /\ conn[c] # Closed
      /\ asked[c] \in Seq(Requests[c]) /\ IsNet(net[c])
      /\ net[c].got \in Seq(Givens(Requests[c])) /\ faults \in 0 .. MaxFaults
      /\ Framed(conn[c], net[c], asked[c], faults)
  BY <1>1, ClosedFields DEF HttpdInv, ExchangeInv, Exchange
<1>3. n_conns \in Nat /\ n_conns <= MaxConns
  BY OpenFinite, SMTT(30) DEF HttpdInv
<1>4. CASE OnConnReadable(c)
  <2>1. PICK req, out : /\ out \in Readable(conn[c], net[c], faults, req) /\ Settle(c, out)
                        /\ asked[c] # <<>> => req = Last(asked[c])
    <3>1. PICK out : /\ Settle(c, out)
                     /\ out \in Readable(conn[c], net[c], faults,
                                          IF asked[c] = <<>> THEN <<>> ELSE Last(asked[c]))
      BY <1>4, Zenon DEF OnConnReadable, Last
    <3>2. PICK req : req = IF asked[c] = <<>> THEN <<>> ELSE Last(asked[c])
      OBVIOUS
    <3> QED
      BY <3>1, <3>2, Zenon
  <2>2. conn[c].watch = "read"
    BY <1>4 DEF OnConnReadable
  <2>3. Lawful(out, net[c].got, asked[c], faults)
    BY <1>1, <1>2, <1>3, <2>1, <2>2, ReadableLawful, Zenon
  <2> QED
    BY <2>1, <2>3
<1>5. CASE OnConnWritable(c)
  <2>1. PICK out : out \in Writable(conn[c], net[c], faults) /\ Settle(c, out)
    BY <1>5, Zenon DEF OnConnWritable
  <2>2. conn[c].watch = "write"
    BY <1>5 DEF OnConnWritable
  <2>3. Lawful(out, net[c].got, asked[c], faults)
    BY <1>1, <1>2, <2>1, <2>2, WritableLawful, Zenon
  <2> QED
    BY <2>1, <2>3
<1>6. CASE OnIdleTimeout(c)
  <2>1. PICK out : out \in ConnClose(net[c], faults) /\ Settle(c, out)
    BY <1>6, Zenon DEF OnIdleTimeout
  <2>2. Lawful(out, net[c].got, asked[c], faults)
    BY <1>2, <2>1, CloseLawful, Zenon
  <2> QED
    BY <2>1, <2>2
<1> QED
  BY <1>4, <1>5, <1>6

\* Every step keeps the exchanges in order.
LEMMA NextExchange == HttpdInv /\ ExchangeInv /\ [Next]_vars => ExchangeInv'
<1> SUFFICES ASSUME HttpdInv, ExchangeInv, [Next]_vars PROVE ExchangeInv'
  OBVIOUS
<1>1. faults \in faults .. MaxFaults
  BY HttpdAssumption DEF ExchangeInv
<1>2. ASSUME UNCHANGED <<conn, net, asked, faults>> PROVE ExchangeInv'
  BY <1>2 DEF ExchangeInv
<1>3. ASSUME NEW c \in Clients, OnConnReadable(c) \/ OnConnWritable(c) \/ OnIdleTimeout(c)
      PROVE  ExchangeInv'
  <2>1. PICK out : Lawful(out, net[c].got, asked[c], faults) /\ Settle(c, out)
    BY <1>3, HandlerLawful
  <2> QED
    BY <2>1, SettleExchange
<1>4. ASSUME NEW c \in Clients, Connect(c) PROVE ExchangeInv'
  <2>1. /\ net' = net /\ asked' = asked /\ faults' = faults /\ conn[c].st = "none"
        /\ conn'[c] = [conn[c] EXCEPT !.st = "queued"]
        /\ \A d \in Clients \ {c} : conn'[d] = conn[d]
    BY <1>4 DEF Connect, HttpdInv
  <2>2. IsConn(conn[c]) /\ conn[c].timer \in Timers
    BY DEF HttpdInv, ExchangeInv, Exchange
  <2>3. /\ conn'[c].st = "queued" /\ conn'[c].timer \in Timers /\ Alike(conn[c], conn'[c])
        /\ conn[c] # Closed
    BY <2>1, <2>2, ClosedFields, Zenon DEF IsConn, Fields, Alike
  <2> QED
    BY <1>1, <2>1, <2>3, ConnExchange, Zenon
<1>5. ASSUME NEW c \in Clients, Expire(c) PROVE ExchangeInv'
  <2>1. /\ net' = net /\ asked' = asked /\ faults' = faults /\ conn[c].timer = "armed"
        /\ conn'[c] = [conn[c] EXCEPT !.timer = "expired"]
        /\ \A d \in Clients \ {c} : conn'[d] = conn[d]
    BY <1>5 DEF Expire, HttpdInv
  <2>2. IsConn(conn[c]) /\ conn[c] # Closed
    BY <2>1, ClosedFields DEF HttpdInv
  <2>3. conn'[c].st = conn[c].st /\ conn'[c].timer = "expired" /\ Alike(conn[c], conn'[c])
    BY <2>1, <2>2, Zenon DEF IsConn, Fields, Alike
  <2>4. conn[c].st \in {"none", "queued", "open"}
    BY <2>2 DEF ExchangeInv, Exchange
  <2> QED
    BY <1>1, <2>1, <2>2, <2>3, <2>4, ConnExchange, Zenon DEF Timers
<1>6. CASE OnAccept
  <2>1. PICK untimed \in SUBSET Queued, taken \in SUBSET Queued :
           conn' = [c \in Clients |->
              IF c \in taken
              THEN [conn[c] EXCEPT !.st = "open",
                                   !.timer = IF c \in untimed THEN "failed" ELSE "armed"]
              ELSE IF c \in Queued THEN Closed ELSE conn[c]]
    BY <1>6, Zenon DEF OnAccept
  <2>2. net' = net /\ asked' = asked
    BY <1>6, Zenon DEF OnAccept
  <2>3. faults' \in faults .. MaxFaults
    <3>1. PICK failed \in SUBSET Queued, untimed2 \in SUBSET Queued :
             /\ faults' = faults + Cardinality(failed) + Cardinality(untimed2)
             /\ faults' <= MaxFaults
      BY <1>6, Zenon DEF OnAccept
    <3>2. Cardinality(failed) \in Nat /\ Cardinality(untimed2) \in Nat
      BY HttpdAssumption, FS_Subset, FS_CardinalityType DEF Queued
    <3> QED
      BY <3>1, <3>2, HttpdAssumption DEF ExchangeInv
  <2>4. \A c \in Clients \ taken : conn'[c] = IF c \in Queued THEN Closed ELSE conn[c]
    BY <2>1, Zenon
  <2>5. ASSUME NEW c \in taken
        PROVE  /\ conn'[c].st = "open" /\ conn'[c].timer \in Timers
               /\ Alike(conn[c], conn'[c]) /\ conn[c] # Closed
    <3>1. IsConn(conn[c]) /\ c \in Clients /\ conn[c].st = "queued"
      BY Zenon DEF HttpdInv, Queued
    <3>2. PICK t \in {"failed", "armed"} : conn'[c] = [conn[c] EXCEPT !.st = "open", !.timer = t]
      BY <2>1, <3>1, Zenon
    <3> QED
      BY <3>1, <3>2, ClosedFields, Zenon DEF IsConn, Fields, Alike, Timers
  <2>6. \A c \in Clients :
           \/ conn'[c] = conn[c] \/ conn'[c] = Closed
           \/ /\ conn[c] # Closed /\ conn'[c].timer \in Timers
              /\ Alike(conn[c], conn'[c]) /\ conn'[c].st \in {"none", "queued", "open"}
    BY <2>4, <2>5
  <2> QED
    BY <2>2, <2>3, <2>6, ConnExchange, Zenon
<1>7. CASE Destroy
  <2>1. net' = net /\ asked' = asked /\ faults' = faults
        /\ \A c \in Clients : conn'[c] = IF c \in Open \cup Queued THEN Closed ELSE conn[c]
    BY <1>7 DEF Destroy
  <2> QED
    BY <1>1, <2>1, ConnExchange
<1>8. CASE EpollWait \/ DispatchFreed \/ UNCHANGED vars
  BY <1>2, <1>8 DEF EpollWait, DispatchFreed, vars
<1> QED
  BY <1>3, <1>4, <1>5, <1>6, <1>7, <1>8, PeerExchange, SendExchange, AskExchange, SMTT(30)
     DEF Next, Loop

-----------------------------------------------------------------------------
\* Only a handler of a connection changes what its client got.
LEMMA OnlyHandlersTell ==
    ASSUME HttpdInv, ExchangeInv, [Next]_vars, NEW c \in Clients, net'[c].got # net[c].got
    PROVE  OnConnReadable(c) \/ OnConnWritable(c) \/ OnIdleTimeout(c)
<1>1. ASSUME net' = net PROVE FALSE
  BY <1>1
<1>2. ASSUME NEW d \in Clients,
             \/ SendMore(d) \/ Drain(d) \/ HangUp(d)
             \/ \E req \in Requests[d] : Ask(d, req)
      PROVE  FALSE
  <2>1. IsNet(net[c]) /\ IsNet(net[d])
    BY DEF ExchangeInv, Exchange
  <2>2. \/ \E x, y : net' = [net EXCEPT ![d].inbox = x, ![d].left = y]
        \/ \E x : net' = [net EXCEPT ![d].room = x]
        \/ \E x : net' = [net EXCEPT ![d].peer = x]
    BY <1>2, Zenon DEF SendMore, Drain, HangUp, Ask
  <2>3. c # d => net'[c] = net[c]
    BY <2>2, Zenon DEF ExchangeInv
  <2>4. PICK nt : nt = net[d]
    OBVIOUS
  <2>5. PICK m : /\ net' = [net EXCEPT ![d] = m]
                 /\ \/ \E x, y : m = [nt EXCEPT !.inbox = x, !.left = y]
                    \/ \E x : m = [nt EXCEPT !.room = x]
                    \/ \E x : m = [nt EXCEPT !.peer = x]
    <3> DEFINE Kept(m) == \/ \E x, y : m = [nt EXCEPT !.inbox = x, !.left = y]
                          \/ \E x : m = [nt EXCEPT !.room = x]
                          \/ \E x : m = [nt EXCEPT !.peer = x]
    <3>1. CASE \E x, y : net' = [net EXCEPT ![d].inbox = x, ![d].left = y]
      <4>1. PICK x, y : net' = [net EXCEPT ![d].inbox = x, ![d].left = y]
        BY <3>1, Zenon
      <4>2. PICK m : m = [nt EXCEPT !.inbox = x, !.left = y]
        OBVIOUS
      <4>3. net' = [net EXCEPT ![d] = m]
        BY <2>4, <4>1, <4>2, Zenon
      <4>4. Kept(m)
        BY <4>2, Zenon
      <4> QED
        BY <4>3, <4>4, Zenon
    <3>2. CASE \E x : net' = [net EXCEPT ![d].room = x]
      BY <2>4, <3>2, Zenon
    <3>3. CASE \E x : net' = [net EXCEPT ![d].peer = x]
      BY <2>4, <3>3, Zenon
    <3> QED
      BY <2>2, <3>1, <3>2, <3>3, Zenon
  <2>7. net'[d] = m
    BY <2>5, Zenon DEF ExchangeInv
  <2>8. m.got = nt.got
    <3>1. IsNet(nt)
      BY <2>1, <2>4
    <3> QED
      BY <2>5, <3>1, Zenon DEF IsNet, NetFields
  <2>6. net'[d].got = nt.got
    BY <2>7, <2>8
  <2> QED
    BY <2>3, <2>4, <2>6
<1>3. ASSUME NEW d \in Clients, d # c,
             OnConnReadable(d) \/ OnConnWritable(d) \/ OnIdleTimeout(d)
      PROVE  FALSE
  <2>1. PICK out : net' = [net EXCEPT ![d] = out.nt]
    BY <1>3, Zenon DEF OnConnReadable, OnConnWritable, OnIdleTimeout, Settle
  <2>2. net'[c] = net[c]
    BY <1>3, <2>1 DEF ExchangeInv
  <2> QED
    BY <2>2
<1>4. ~(EpollWait \/ OnAccept \/ DispatchFreed \/ Destroy \/ UNCHANGED vars)
  BY <1>1, Zenon DEF EpollWait, OnAccept, DispatchFreed, Destroy, vars
<1>5. \A d \in Clients : ~(Connect(d) \/ Expire(d))
  BY <1>1, Zenon DEF Connect, Expire
<1> QED
  BY <1>2, <1>3, <1>4, <1>5, Zenon DEF Next, Loop

\* A step that tells a client an answer closes the connection iff it is to close.
LEMMA TellsAndCloses ==
    ASSUME HttpdInv, ExchangeInv, [Next]_vars, NEW c \in Clients,
           Len(net'[c].got) > Len(net[c].got),
           net'[c].got[Len(net'[c].got)][1] # "status", faults' = faults
    PROVE  /\ Len(net'[c].got) = Len(asked[c])
           /\ conn'[c].st = "closed" <=> Leaves(asked[c])
<1>1. /\ net[c].got \in Seq(Givens(Requests[c])) /\ asked[c] \in Seq(Requests[c])
      /\ Len(net[c].got) \in Nat
  <2>1. net[c].got \in Seq(Givens(Requests[c])) /\ asked[c] \in Seq(Requests[c])
    BY DEF ExchangeInv, Exchange
  <2> QED
    BY <2>1
<1>2. net'[c].got # net[c].got
  BY <1>1
<1>3. PICK out : Lawful(out, net[c].got, asked[c], faults) /\ Settle(c, out)
  BY <1>2, OnlyHandlersTell, HandlerLawful
<1>4. conn'[c] = out.cn /\ net'[c] = out.nt /\ out.f = faults
  <2>1. /\ conn' = [conn EXCEPT ![c] = out.cn] /\ net' = [net EXCEPT ![c] = out.nt]
        /\ faults' = out.f
    BY <1>3, Zenon DEF Settle
  <2> QED
    BY <2>1 DEF HttpdInv, ExchangeInv
<1>5. /\ Answered(out.nt, net[c].got, asked[c])
      /\ Given(Last(asked[c]))[1] # "status" => (out.cn.st = "closed" <=> Leaves(asked[c]))
  BY <1>2, <1>3, <1>4, Zenon DEF Lawful
<1>6. PICK a : a = Given(Last(asked[c]))
  OBVIOUS
<1>7. /\ asked[c] # <<>> /\ Len(net[c].got) = Len(asked[c]) - 1
      /\ net'[c].got = Append(net[c].got, a)
  BY <1>4, <1>5, <1>6 DEF Answered
<1>8. a \in Givens(Requests[c])
  <2>1. Last(asked[c]) \in Requests[c]
    BY <1>1, <1>7, AnswerAppended
  <2> QED
    BY <1>6, <2>1 DEF Givens
<1>9. Len(net'[c].got) = Len(asked[c]) /\ net'[c].got[Len(asked[c])] = a
  BY <1>1, <1>7, <1>8, SMTT(30)
<1> QED
  BY <1>4, <1>5, <1>6, <1>9

\* A readable event that leaves the connection reading leaves nothing unread.
LEMMA ReadsEverything ==
    ASSUME HttpdInv, ExchangeInv, [Next]_vars, NEW c \in Clients,
           Dispatches(c, "fd"), batch' # batch,
           conn'[c].st = "open", conn'[c].watch = "read"
    PROVE  net'[c].inbox = 0
<1>1. conn[c].st = "open" /\ batch # <<>> /\ Head(batch) = Event(c, "fd")
  BY DispatchOpen DEF Dispatches
<1>2. \A d, kind : Event(d, kind) = Event(c, "fd") => d = c /\ kind = "fd"
  BY DEF Event
<1>3. ASSUME NEW d, NEW kind, Dispatches(d, kind) PROVE d = c /\ kind = "fd"
  BY <1>1, <1>2, <1>3 DEF Dispatches
<1>4. ~OnAccept
  BY <1>3, HttpdAssumption, Zenon DEF OnAccept
<1>5. ~(EpollWait \/ DispatchFreed \/ UNCHANGED vars)
  BY <1>1, Zenon DEF EpollWait, DispatchFreed, vars
<1>6. ~Destroy
  <2>1. ASSUME Destroy PROVE conn'[c] = Closed
    BY <1>1, <2>1 DEF Destroy, Open
  <2> QED
    BY <2>1, ClosedFields
<1>7. ASSUME NEW d \in Clients,
             \/ Connect(d) \/ SendMore(d) \/ Drain(d) \/ HangUp(d) \/ Expire(d)
             \/ \E req \in Requests[d] : Ask(d, req)
      PROVE  FALSE
  BY <1>7, Zenon DEF Connect, SendMore, Drain, HangUp, Expire, Ask
<1>8. OnConnReadable(c) \/ OnConnWritable(c) \/ OnIdleTimeout(c)
  <2>1. ASSUME NEW d \in Clients, OnConnReadable(d) \/ OnConnWritable(d) \/ OnIdleTimeout(d)
        PROVE  d = c
    BY <1>3, <2>1, Zenon DEF OnConnReadable, OnConnWritable, OnIdleTimeout
  <2> QED
    BY <1>4, <1>5, <1>6, <1>7, <2>1, Zenon DEF Next, Loop
<1>9. PICK out : Lawful(out, net[c].got, asked[c], faults) /\ Settle(c, out)
  BY <1>8, HandlerLawful
<1>10. conn'[c] = out.cn /\ net'[c] = out.nt
  <2>1. conn' = [conn EXCEPT ![c] = out.cn] /\ net' = [net EXCEPT ![c] = out.nt]
    BY <1>9, Zenon DEF Settle
  <2> QED
    BY <2>1 DEF HttpdInv, ExchangeInv
<1> QED
  BY <1>9, <1>10 DEF Lawful

-----------------------------------------------------------------------------
\* The exchanges are in order in every state.
THEOREM ExchangeInvariant == Spec => [](HttpdInv /\ ExchangeInv)
BY InitInv, NextInv, InitExchange, NextExchange, PTL DEF Spec

\* After an answer handle_complete_request's decision stands: the connection is
\* closed iff the request says so.
THEOREM ClosesAsAsked == Spec => KeepAlive
<1>1. ASSUME HttpdInv, ExchangeInv, [Next]_vars, NEW c \in Clients,
             Len(net'[c].got) > Len(net[c].got),
             net'[c].got[Len(net'[c].got)][1] # "status", faults' = faults
      PROVE  conn'[c].st = "closed" <=>
                \/ asked[c][Len(net'[c].got)].connection = "close"
                \/ /\ asked[c][Len(net'[c].got)].connection # "keep-alive"
                   /\ \E i \in 1 .. Len(net'[c].got) : asked[c][i].v10
  BY <1>1, TellsAndCloses, Zenon DEF Leaves, Old, Last
<1>2. HttpdInv /\ ExchangeInv /\ [Next]_vars =>
        [\A c \in Clients :
            LET n == Len(net'[c].got)
                req == asked[c][n]
                says == \/ req.connection = "close"
                        \/ /\ req.connection # "keep-alive"
                           /\ \E i \in 1 .. n : asked[c][i].v10
            IN  (n > Len(net[c].got) /\ net'[c].got[n][1] # "status" /\ faults' = faults)
                  => ((conn'[c].st = "closed") <=> says)]_vars
  BY <1>1, Zenon
<1> QED
  BY <1>2, ExchangeInvariant, PTL DEF KeepAlive, Spec

\* on_conn_readable takes everything that has arrived, or ends the reading: the
\* loop is not woken again for bytes that nobody takes.
THEOREM NothingIsLeftUnread == Spec => ReadsAll
<1>1. HttpdInv /\ ExchangeInv /\ [Next]_vars =>
        [\A c \in Clients :
            (/\ Dispatches(c, "fd") /\ batch' # batch
             /\ conn[c].watch = "read" /\ conn'[c].st = "open" /\ conn'[c].watch = "read")
               => net'[c].inbox = 0]_vars
  BY ReadsEverything, Zenon
<1> QED
  BY <1>1, ExchangeInvariant, PTL DEF ReadsAll, Spec

-----------------------------------------------------------------------------
\* What path_clean keeps of a path.

\* A set of natural numbers that is not empty has a least element.
LEMMA LeastNumber ==
    ASSUME NEW S \in SUBSET Nat, S # {}
    PROVE  \E m \in S : \A k \in S : m <= k
<1>1. PICK m \in S : \A k \in S : <<k, m>> \notin OpToRel(<, Nat)
  BY Zenon, NatLessThanWellFounded, WFMin
<1>2. \A k \in S : ~(k < m)
  BY <1>1, Zenon DEF OpToRel
<1> QED
  BY <1>2

\* A set with 0 and with the successor of each of its numbers holds them all.
LEMMA CountUp ==
    ASSUME NEW S, 0 \in S, \A n \in Nat : n \in S => n + 1 \in S
    PROVE  \A n \in Nat : n \in S
<1> DEFINE B == Nat \ S
<1>1. CASE B # {}
  <2>1. PICK m \in B : \A k \in B : m <= k
    BY <1>1, LeastNumber, Zenon
  <2>2. m - 1 \in Nat /\ m - 1 \in S
    BY <2>1
  <2> QED
    BY <2>1, <2>2
<1> QED
  BY <1>1

\* Min and Max of numbers up to n.
LEMMA MinMaxUpTo ==
    ASSUME NEW n \in Nat, NEW S \in SUBSET (1 .. n), S # {}
    PROVE  /\ Min(S) \in S /\ Max(S) \in S
           /\ \A x \in S : Min(S) <= x /\ x <= Max(S)
<1>1. \E x \in S : \A y \in S : x <= y
  BY LeastNumber
<1>2. \E x \in S : \A y \in S : x >= y
  <2> DEFINE T == {k \in Nat : \E x \in S : k = n - x}
  <2>1. T \in SUBSET Nat /\ T # {}
    <3>1. PICK z \in S : TRUE
      BY Zenon
    <3>2. n - z \in T
      OBVIOUS
    <3> QED
      BY <3>2, Zenon
  <2>2. PICK k \in T : \A j \in T : k <= j
    BY <2>1, LeastNumber, Zenon
  <2>3. PICK x \in S : k = n - x
    BY <2>2
  <2>4. ASSUME NEW y \in S PROVE x >= y
    <3>1. n - y \in T
      OBVIOUS
    <3> QED
      BY <2>2, <2>3, <3>1
  <2> QED
    BY <2>4
<1> QED
  BY <1>1, <1>2, Zenon DEF Min, Max

\* The fold of path_clean takes the segments in their order.
LEMMA CleanInOrder ==
    ASSUME NEW p \in Seq(STRING)
    PROVE  \E kept : /\ kept[0] = <<>>
                     /\ \A k \in 1 .. Len(p) : kept[k] = CleanStep(p[k], kept[k - 1])
                     /\ PathClean(p) = kept[Len(p)]
<1> DEFINE S == 1 .. Len(p)
           Body(w) == [s \in SUBSET S |->
                         IF s = {} THEN <<>> ELSE CleanStep(p[Max(s)], w[s \ {Max(s)}])]
           Law(w, n) == \A s \in SUBSET S : Cardinality(s) <= n => w[s] = Body(w)[s]
           E == {n \in Nat : \E w : w = [s \in SUBSET S |-> w[s]] /\ Law(w, n)}
<1>1. PathClean(p) = (CHOOSE w : w = Body(w))[S]
  <2>1. DOMAIN p = S
    OBVIOUS
  <2> QED
    BY <2>1, Zenon DEF PathClean, MapThenFoldSet
<1>2. ASSUME NEW s \in SUBSET S
      PROVE  /\ IsFiniteSet(s) /\ Cardinality(s) \in Nat /\ Cardinality(s) <= Len(p)
             /\ Cardinality(s) = 0 <=> s = {}
             /\ s # {} => /\ Max(s) \in s /\ s \ {Max(s)} \in SUBSET S
                          /\ Cardinality(s \ {Max(s)}) = Cardinality(s) - 1
  <2>1. Len(p) \in Nat /\ IsFiniteSet(S) /\ Cardinality(S) = Len(p)
    BY FS_Interval
  <2>2. IsFiniteSet(s) /\ Cardinality(s) \in Nat /\ Cardinality(s) <= Len(p)
    BY <2>1, FS_Subset, FS_CardinalityType, Zenon
  <2>3. Cardinality(s) = 0 <=> s = {}
    BY <2>2, FS_EmptySet, Zenon
  <2>4. s # {} => Max(s) \in s
    BY <2>1, MinMaxUpTo, Zenon
  <2>5. s # {} => Cardinality(s \ {Max(s)}) = Cardinality(s) - 1
    BY <2>2, <2>4, FS_RemoveElement, Zenon
  <2> QED
    BY <2>2, <2>3, <2>4, <2>5, Zenon
<1>3. 0 \in E
  <2> DEFINE w == [s \in SUBSET S |-> <<>>]
  <2>1. w = [s \in SUBSET S |-> w[s]]
    OBVIOUS
  <2>2. Law(w, 0)
    <3>1. ASSUME NEW s \in SUBSET S, Cardinality(s) <= 0 PROVE s = {}
      <4>1. Cardinality(s) \in Nat /\ (Cardinality(s) = 0 <=> s = {})
        BY <1>2, Zenon
      <4> QED
        BY <3>1, <4>1
    <3> QED
      BY <3>1
  <2> HIDE DEF w, Law
  <2> QED
    BY <2>1, <2>2
<1>4. ASSUME NEW n \in Nat, n \in E PROVE n + 1 \in E
  <2>1. PICK w : w = [s \in SUBSET S |-> w[s]] /\ Law(w, n)
    BY <1>4, Zenon
  <2> DEFINE v == Body(w)
  <2>2. v = [s \in SUBSET S |-> v[s]]
    OBVIOUS
  <2>3. ASSUME NEW s \in SUBSET S, Cardinality(s) <= n PROVE v[s] = w[s]
    BY <2>1, <2>3, Zenon
  <2>4. ASSUME NEW s \in SUBSET S, Cardinality(s) <= n + 1, s # {}
        PROVE  v[s] = CleanStep(p[Max(s)], v[s \ {Max(s)}])
    <3>1. s \ {Max(s)} \in SUBSET S /\ Cardinality(s \ {Max(s)}) <= n
      BY <1>2, <2>4
    <3>2. v[s \ {Max(s)}] = w[s \ {Max(s)}]
      BY <2>3, <3>1, Zenon
    <3>3. v[s] = CleanStep(p[Max(s)], w[s \ {Max(s)}])
      BY <2>4, Zenon
    <3> QED
      BY <3>2, <3>3, Zenon
  <2>5. v[{}] = <<>>
    OBVIOUS
  <2> HIDE DEF v
  <2>6. Law(v, n + 1)
    <3> SUFFICES ASSUME NEW s \in SUBSET S, Cardinality(s) <= n + 1 PROVE v[s] = Body(v)[s]
      BY Zenon
    <3>1. Body(v)[s] = IF s = {} THEN <<>> ELSE CleanStep(p[Max(s)], v[s \ {Max(s)}])
      BY Zenon
    <3> QED
      BY <2>4, <2>5, <3>1, Zenon
  <2> HIDE DEF Law
  <2> QED
    BY <2>2, <2>6
<1>5. Len(p) \in E
  <2> HIDE DEF E
  <2> QED
    BY <1>3, <1>4, CountUp
<1>6. PICK w1 : w1 = [s \in SUBSET S |-> w1[s]] /\ Law(w1, Len(p))
  BY <1>5, Zenon
<1>7. w1 = Body(w1)
  <2>1. \A s \in SUBSET S : w1[s] = Body(w1)[s]
    BY <1>2, <1>6, Zenon
  <2>2. Body(w1) = [s \in SUBSET S |-> Body(w1)[s]]
    OBVIOUS
  <2> HIDE DEF Body
  <2> QED
    BY <1>6, <2>1, <2>2, Zenon
<1> DEFINE w == CHOOSE v : v = Body(v)
<1>8. w = Body(w)
  <2> HIDE DEF Body
  <2> QED
    BY <1>7, Zenon
<1> HIDE DEF w
<1> DEFINE kept == [k \in 0 .. Len(p) |-> w[1 .. k]]
<1>9. \A s \in SUBSET S :
         w[s] = IF s = {} THEN <<>> ELSE CleanStep(p[Max(s)], w[s \ {Max(s)}])
  <2>1. \A s \in SUBSET S :
           Body(w)[s] = IF s = {} THEN <<>> ELSE CleanStep(p[Max(s)], w[s \ {Max(s)}])
    BY Zenon
  <2> HIDE DEF Body
  <2> QED
    BY <1>8, <2>1, Zenon
<1>10. kept[0] = <<>>
  <2>1. 1 .. 0 = {}
    OBVIOUS
  <2>3. 0 \in 0 .. Len(p)
    <3>1. Len(p) \in Nat
      OBVIOUS
    <3> QED
      BY <3>1
  <2>2. w[{}] = <<>>
    BY <1>9, Zenon
  <2> QED
    BY <2>1, <2>2, <2>3
<1>11. ASSUME NEW k \in 1 .. Len(p) PROVE kept[k] = CleanStep(p[k], kept[k - 1])
  <2>1. /\ 1 .. k \in SUBSET S /\ 1 .. k # {} /\ k \in Nat
        /\ k \in 0 .. Len(p) /\ k - 1 \in 0 .. Len(p)
    <3>1. Len(p) \in Nat /\ k \in Nat /\ 1 <= k /\ k <= Len(p)
      OBVIOUS
    <3>2. 1 \in 1 .. k /\ \A x \in 1 .. k : x \in S
      BY <3>1
    <3>3. k \in 0 .. Len(p) /\ k - 1 \in 0 .. Len(p)
      BY <3>1
    <3> QED
      BY <3>1, <3>2, <3>3, Zenon
  <2>2. Max(1 .. k) = k
    <3>1. Max(1 .. k) \in 1 .. k /\ k <= Max(1 .. k)
      <4>1. k \in 1 .. k
        BY <2>1
      <4> QED
        BY <2>1, <4>1, MinMaxUpTo, Zenon
    <3> QED
      BY <2>1, <3>1
  <2>3. (1 .. k) \ {k} = 1 .. (k - 1)
    BY <2>1
  <2>4. w[1 .. k] = CleanStep(p[k], w[1 .. (k - 1)])
    BY <1>9, <2>1, <2>2, <2>3, Zenon
  <2>5. kept[k] = w[1 .. k] /\ kept[k - 1] = w[1 .. (k - 1)]
    BY <2>1
  <2> QED
    BY <2>4, <2>5, Zenon
<1>12. PathClean(p) = kept[Len(p)]
  <2>1. kept[Len(p)] = w[S]
    OBVIOUS
  <2> QED
    BY <1>1, <2>1, Zenon DEF w
<1> HIDE DEF kept
<1> QED
  BY <1>10, <1>11, <1>12

\* The segments after the i-th, up to the m-th, that name something; those that
\* go up.
Names(p, i, m) == {j \in i + 1 .. m : p[j] \notin {"", ".", ".."}}

Ups(p, i, m) == {j \in i + 1 .. m : p[j] = ".."}

\* The first k segments do not take the i-th away.
Alive(p, i, k) ==
    /\ p[i] \notin {"", ".", ".."}
    /\ \A m \in i + 1 .. k : Cardinality(Ups(p, i, m)) <= Cardinality(Names(p, i, m))

\* What path_clean has kept after k segments: the i-th entry is segment idx[i],
\* the entries are the segments still alive, in their order, and a segment with
\* r entries above it falls with the r + 1st ".." more than names.
Kept(p, k, kept, idx) ==
    LET n == Len(kept)
    IN  /\ kept \in Seq(STRING) /\ n <= k
        /\ idx \in [1 .. n -> 1 .. k]
        /\ \A r, s \in 1 .. n : r < s => idx[r] < idx[s]
        /\ \A i \in 1 .. k : Alive(p, i, k) <=> \E r \in 1 .. n : idx[r] = i
        /\ \A r \in 1 .. n : kept[r] = p[idx[r]]
        /\ \A r \in 1 .. n :
              Cardinality(Names(p, idx[r], k)) - Cardinality(Ups(p, idx[r], k)) = n - r

\* The balance of names and ups with one segment more.
LEMMA Balance ==
    ASSUME NEW p \in Seq(STRING), NEW k \in Nat, NEW i \in Nat, i <= k
    PROVE  /\ Cardinality(Names(p, i, k)) \in Nat /\ Cardinality(Ups(p, i, k)) \in Nat
           /\ Names(p, k, k) = {} /\ Ups(p, k, k) = {}
           /\ Cardinality(Names(p, i, k + 1)) =
                 IF p[k + 1] \in {"", ".", ".."} THEN Cardinality(Names(p, i, k))
                 ELSE Cardinality(Names(p, i, k)) + 1
           /\ Cardinality(Ups(p, i, k + 1)) =
                 IF p[k + 1] = ".." THEN Cardinality(Ups(p, i, k)) + 1
                 ELSE Cardinality(Ups(p, i, k))
<1>1. IsFiniteSet(i + 1 .. k)
  BY FS_Interval
<1>2. Names(p, i, k) \subseteq i + 1 .. k /\ Ups(p, i, k) \subseteq i + 1 .. k
  BY Zenon DEF Names, Ups
<1>3. /\ IsFiniteSet(Names(p, i, k)) /\ IsFiniteSet(Ups(p, i, k))
      /\ Cardinality(Names(p, i, k)) \in Nat /\ Cardinality(Ups(p, i, k)) \in Nat
  BY <1>1, <1>2, FS_Subset, FS_CardinalityType
<1>4. k + 1 \notin Names(p, i, k) /\ k + 1 \notin Ups(p, i, k)
  BY <1>2
<1>5. i + 1 .. k + 1 = (i + 1 .. k) \cup {k + 1}
  OBVIOUS
<1>6. /\ Names(p, i, k + 1) = IF p[k + 1] \in {"", ".", ".."} THEN Names(p, i, k)
                              ELSE Names(p, i, k) \cup {k + 1}
      /\ Ups(p, i, k + 1) = IF p[k + 1] = ".." THEN Ups(p, i, k) \cup {k + 1}
                            ELSE Ups(p, i, k)
  BY <1>5, Zenon DEF Names, Ups
<1>7. /\ Cardinality(Names(p, i, k) \cup {k + 1}) = Cardinality(Names(p, i, k)) + 1
      /\ Cardinality(Ups(p, i, k) \cup {k + 1}) = Cardinality(Ups(p, i, k)) + 1
  BY <1>3, <1>4, FS_AddElement, Zenon
<1>8. Names(p, k, k) = {} /\ Ups(p, k, k) = {}
  <2>1. \A j : j \notin k + 1 .. k
    OBVIOUS
  <2> QED
    BY <2>1, Zenon DEF Names, Ups
<1> QED
  BY <1>3, <1>6, <1>7, <1>8, Zenon

\* A segment is alive after one more iff it was, and is not the one taken away.
LEMMA AliveStep ==
    ASSUME NEW p \in Seq(STRING), NEW k \in Nat, NEW i \in 1 .. k
    PROVE  Alive(p, i, k + 1) <=>
              /\ Alive(p, i, k)
              /\ Cardinality(Ups(p, i, k + 1)) <= Cardinality(Names(p, i, k + 1))
<1> DEFINE C(m) == Cardinality(Ups(p, i, m)) <= Cardinality(Names(p, i, m))
<1>1. \A m : m \in i + 1 .. k + 1 <=> m \in i + 1 .. k \/ m = k + 1
  OBVIOUS
<1> HIDE DEF C
<1>2. (\A m \in i + 1 .. k + 1 : C(m)) <=> (\A m \in i + 1 .. k : C(m)) /\ C(k + 1)
  BY <1>1, Zenon
<1> QED
  BY <1>2, Zenon DEF Alive, C

\* One segment more of path_clean, when there is room for every segment.
LEMMA KeptStep ==
    ASSUME NEW p \in Seq(STRING), NEW k \in Nat, k + 1 <= Len(p), k + 1 <= MaxClean,
           NEW kept, NEW idx, Kept(p, k, kept, idx)
    PROVE  \E idx2 : Kept(p, k + 1, CleanStep(p[k + 1], kept), idx2)
<1> DEFINE n == Len(kept)
           N(i, m) == Cardinality(Names(p, i, m))
           U(i, m) == Cardinality(Ups(p, i, m))
<1>1. /\ kept \in Seq(STRING) /\ n \in Nat /\ n <= k
      /\ idx \in [1 .. n -> 1 .. k]
      /\ \A r, s \in 1 .. n : r < s => idx[r] < idx[s]
      /\ \A r \in 1 .. n : kept[r] = p[idx[r]]
  BY DEF Kept
<1>2. \A i \in 1 .. k : Alive(p, i, k) <=> \E r \in 1 .. n : idx[r] = i
  BY Zenon DEF Kept
<1>3. \A r \in 1 .. n : N(idx[r], k) - U(idx[r], k) = n - r
  BY Zenon DEF Kept
<1>4. ASSUME NEW i \in 1 .. k
      PROVE  /\ N(i, k) \in Nat /\ U(i, k) \in Nat
             /\ N(i, k + 1) = IF p[k + 1] \in {"", ".", ".."} THEN N(i, k) ELSE N(i, k) + 1
             /\ U(i, k + 1) = IF p[k + 1] = ".." THEN U(i, k) + 1 ELSE U(i, k)
  <2>1. i \in Nat /\ i <= k
    OBVIOUS
  <2> QED
    BY <2>1, Balance, Zenon
<1>5. \A i \in 1 .. k : Alive(p, i, k + 1) <=> Alive(p, i, k) /\ U(i, k + 1) <= N(i, k + 1)
  BY AliveStep
<1>6. Alive(p, k + 1, k + 1) <=> p[k + 1] \notin {"", ".", ".."}
  <2>1. \A m : m \notin (k + 1) + 1 .. k + 1
    OBVIOUS
  <2> QED
    BY <2>1, Zenon DEF Alive
<1>7. p[k + 1] \in STRING /\ 1 .. k + 1 = (1 .. k) \cup {k + 1}
  OBVIOUS
<1> HIDE DEF n, N, U
\* The segments alive then are those whose balance stays.
<1>8. \A i \in 1 .. k : Alive(p, i, k + 1) <=>
         \E r \in 1 .. n : idx[r] = i /\ U(i, k + 1) <= N(i, k + 1)
  BY <1>2, <1>5, Zenon
<1>9. CASE p[k + 1] \in {"", "."}
  <2>1. CleanStep(p[k + 1], kept) = kept
    BY <1>9, Zenon DEF CleanStep
  <2>2. \A r \in 1 .. n : /\ idx[r] \in 1 .. k
                          /\ N(idx[r], k + 1) - U(idx[r], k + 1) = n - r
                          /\ U(idx[r], k + 1) <= N(idx[r], k + 1)
    <3> TAKE r \in 1 .. n
    <3>1. idx[r] \in 1 .. k
      BY <1>1
    <3>2. N(idx[r], k + 1) = N(idx[r], k) /\ U(idx[r], k + 1) = U(idx[r], k)
      BY <1>4, <1>9, <3>1, Zenon
    <3>3. N(idx[r], k) \in Nat /\ U(idx[r], k) \in Nat /\ N(idx[r], k) - U(idx[r], k) = n - r
      BY <1>3, <1>4, <3>1, Zenon
    <3>4. r \in Nat /\ r <= n /\ n \in Nat
      BY <1>1
    <3> QED
      BY <3>1, <3>2, <3>3, <3>4
  <2>3. \A i \in 1 .. k + 1 : Alive(p, i, k + 1) <=> \E r \in 1 .. n : idx[r] = i
    <3>1. \A i \in 1 .. k : Alive(p, i, k + 1) <=> \E r \in 1 .. n : idx[r] = i
      BY <1>8, <2>2, Zenon
    <3>2. ~Alive(p, k + 1, k + 1)
      BY <1>6, <1>9, Zenon
    <3>3. ~\E r \in 1 .. n : idx[r] = k + 1
      BY <1>1
    <3> QED
      BY <1>7, <3>1, <3>2, <3>3, Zenon
  <2>4. n <= k + 1 /\ idx \in [1 .. n -> 1 .. k + 1]
    BY <1>1
  <2>5. Kept(p, k + 1, kept, idx)
    BY <1>1, <2>2, <2>3, <2>4, Zenon DEF Kept, n, N, U
  <2> QED
    BY <2>1, <2>5, Zenon
<1>10. CASE p[k + 1] = ".."
  <2> DEFINE n2 == IF n = 0 THEN 0 ELSE n - 1
             kept2 == SubSeq(kept, 1, n - 1)
             idx2 == [r \in 1 .. n2 |-> idx[r]]
  <2>1. CleanStep(p[k + 1], kept) = kept2
    <3>1. p[k + 1] \notin {"", "."}
      BY <1>10
    <3> QED
      BY <1>10, <3>1, Zenon DEF CleanStep, n
  <2>2. n2 \in Nat /\ n2 <= n /\ (\A r : r \in 1 .. n2 <=> r \in 1 .. n /\ r < n)
    BY <1>1
  <2>3. /\ kept2 \in Seq(STRING) /\ Len(kept2) = n2
        /\ \A r \in 1 .. n2 : kept2[r] = kept[r]
    BY <1>1, <2>2 DEF n
  <2> HIDE DEF kept2
  <2>4. \A r \in 1 .. n : /\ idx[r] \in 1 .. k
                          /\ N(idx[r], k + 1) - U(idx[r], k + 1) = (n - 1) - r
                          /\ U(idx[r], k + 1) <= N(idx[r], k + 1) <=> r < n
    <3> TAKE r \in 1 .. n
    <3>1. idx[r] \in 1 .. k
      BY <1>1
    <3>2. N(idx[r], k + 1) = N(idx[r], k) /\ U(idx[r], k + 1) = U(idx[r], k) + 1
      BY <1>4, <1>10, <3>1, SMTT(30)
    <3>3. N(idx[r], k) \in Nat /\ U(idx[r], k) \in Nat /\ N(idx[r], k) - U(idx[r], k) = n - r
      BY <1>3, <1>4, <3>1, Zenon
    <3>4. r \in Nat /\ r <= n /\ n \in Nat
      BY <1>1
    <3> QED
      BY <3>1, <3>2, <3>3, <3>4
  <2>5. ASSUME NEW r \in 1 .. n2
        PROVE  /\ idx2[r] = idx[r] /\ idx2[r] \in 1 .. k + 1 /\ r \in 1 .. n
               /\ N(idx2[r], k + 1) - U(idx2[r], k + 1) = n2 - r
    <3>1. r \in 1 .. n /\ r < n /\ idx2[r] = idx[r] /\ n2 = n - 1
      BY <1>1, <2>2
    <3>2. idx[r] \in 1 .. k + 1
      BY <1>1, <3>1
    <3> QED
      BY <2>4, <3>1, <3>2
  <2>6. idx2 \in [1 .. n2 -> 1 .. k + 1]
    BY <2>5, Zenon
  <2> HIDE DEF idx2
  <2>7. \A i \in 1 .. k + 1 : Alive(p, i, k + 1) <=> \E r \in 1 .. n2 : idx2[r] = i
    <3>1. \A i \in 1 .. k : Alive(p, i, k + 1) <=> \E r \in 1 .. n : idx[r] = i /\ r < n
      BY <1>8, <2>4, Zenon
    <3>2. \A i \in 1 .. k : Alive(p, i, k + 1) <=> \E r \in 1 .. n2 : idx2[r] = i
      BY <2>2, <2>5, <3>1, Zenon
    <3>3. ~Alive(p, k + 1, k + 1)
      BY <1>6, <1>10, Zenon
    <3>4. ~\E r \in 1 .. n2 : idx2[r] = k + 1
      BY <1>1, <2>2, <2>5
    <3> QED
      BY <1>7, <3>2, <3>3, <3>4, Zenon
  <2>8. n2 <= k + 1 /\ \A r, s \in 1 .. n2 : r < s => idx2[r] < idx2[s]
    BY <1>1, <2>2, <2>5
  <2>9. \A r \in 1 .. n2 : kept2[r] = p[idx2[r]]
    BY <1>1, <2>3, <2>5
  <2> HIDE DEF n2
  <2>10. Kept(p, k + 1, kept2, idx2)
    BY <2>3, <2>5, <2>6, <2>7, <2>8, <2>9, Zenon DEF Kept, N, U
  <2> QED
    BY <2>1, <2>10, Zenon
<1>11. CASE p[k + 1] \notin {"", ".", ".."}
  <2> DEFINE kept2 == Append(kept, p[k + 1])
             idx2 == [r \in 1 .. n + 1 |-> IF r = n + 1 THEN k + 1 ELSE idx[r]]
  <2>1. CleanStep(p[k + 1], kept) = kept2
    <3>1. p[k + 1] \notin {"", "."} /\ p[k + 1] # ".."
      BY <1>11, Zenon
    <3>2. Len(kept) < MaxClean
      BY <1>1, RoutesAssumption DEF n
    <3> QED
      BY <3>1, <3>2, Zenon DEF CleanStep
  <2>2. /\ kept2 \in Seq(STRING) /\ Len(kept2) = n + 1
        /\ kept2[n + 1] = p[k + 1] /\ \A r \in 1 .. n : kept2[r] = kept[r]
    BY <1>1, <1>7 DEF n
  <2> HIDE DEF kept2
  <2>3. \A r : r \in 1 .. n + 1 <=> r \in 1 .. n \/ r = n + 1
    BY <1>1
  <2>4. idx2[n + 1] = k + 1 /\ \A r \in 1 .. n : r # n + 1 /\ idx2[r] = idx[r] /\ idx[r] \in 1 .. k
    BY <1>1
  <2>5. idx2 \in [1 .. n + 1 -> 1 .. k + 1]
    BY <1>1, <2>3, <2>4
  <2> HIDE DEF idx2
  <2>6. \A r \in 1 .. n : /\ N(idx[r], k + 1) - U(idx[r], k + 1) = (n + 1) - r
                          /\ U(idx[r], k + 1) <= N(idx[r], k + 1)
    <3> TAKE r \in 1 .. n
    <3>1. idx[r] \in 1 .. k
      BY <1>1
    <3>2. N(idx[r], k + 1) = N(idx[r], k) + 1 /\ U(idx[r], k + 1) = U(idx[r], k)
      BY <1>4, <1>11, <3>1, Zenon
    <3>3. N(idx[r], k) \in Nat /\ U(idx[r], k) \in Nat /\ N(idx[r], k) - U(idx[r], k) = n - r
      BY <1>3, <1>4, <3>1, Zenon
    <3>4. r \in Nat /\ r <= n /\ n \in Nat
      BY <1>1
    <3> QED
      BY <3>1, <3>2, <3>3, <3>4, SMTT(30)
  <2>7. N(k + 1, k + 1) - U(k + 1, k + 1) = (n + 1) - (n + 1)
    <3>1. k + 1 \in Nat /\ k + 1 <= k + 1
      OBVIOUS
    <3>2. Names(p, k + 1, k + 1) = {} /\ Ups(p, k + 1, k + 1) = {}
      BY <3>1, Balance, Zenon
    <3>3. N(k + 1, k + 1) = 0 /\ U(k + 1, k + 1) = 0
      BY <3>2, FS_EmptySet, Zenon DEF N, U
    <3> QED
      BY <1>1, <3>3
  <2>8. \A r \in 1 .. n + 1 : N(idx2[r], k + 1) - U(idx2[r], k + 1) = (n + 1) - r
    BY <2>3, <2>4, <2>6, <2>7, Zenon
  <2>9. \A i \in 1 .. k + 1 : Alive(p, i, k + 1) <=> \E r \in 1 .. n + 1 : idx2[r] = i
    <3>1. \A i \in 1 .. k : Alive(p, i, k + 1) <=> \E r \in 1 .. n : idx[r] = i
      BY <1>8, <2>6, Zenon
    <3>2. k + 1 \notin 1 .. k
      OBVIOUS
    <3>3. \A i \in 1 .. k : Alive(p, i, k + 1) <=> \E r \in 1 .. n + 1 : idx2[r] = i
      BY <2>3, <2>4, <3>1, <3>2, Zenon
    <3>4. Alive(p, k + 1, k + 1) /\ \E r \in 1 .. n + 1 : idx2[r] = k + 1
      BY <1>6, <1>11, <2>3, <2>4, Zenon
    <3> QED
      BY <1>7, <3>3, <3>4, Zenon
  <2>10. n + 1 <= k + 1 /\ \A r, s \in 1 .. n + 1 : r < s => idx2[r] < idx2[s]
    <3>1. n \in Nat /\ n + 1 <= k + 1
      BY <1>1
    <3> SUFFICES ASSUME NEW r \in 1 .. n + 1, NEW s \in 1 .. n + 1, r < s
                 PROVE  idx2[r] < idx2[s]
      BY <3>1
    <3>2. r \in 1 .. n
      BY <3>1
    <3>3. CASE s \in 1 .. n
      BY <1>1, <2>4, <3>2, <3>3
    <3>4. CASE s = n + 1
      BY <2>4, <3>2, <3>4
    <3> QED
      BY <2>3, <3>3, <3>4
  <2>11. \A r \in 1 .. n + 1 : kept2[r] = p[idx2[r]]
    BY <1>1, <2>2, <2>3, <2>4, Zenon
  <2>12. Kept(p, k + 1, kept2, idx2)
    <3>1. Len(kept2) = n + 1
      BY <2>2
    <3> QED
      BY <2>2, <2>5, <2>8, <2>9, <2>10, <2>11, <3>1, Zenon DEF Kept, N, U
  <2> QED
    BY <2>1, <2>12, Zenon
<1> QED
  BY <1>9, <1>10, <1>11, Zenon

\* The values of an increasing sequence of numbers are as many as its places.
LEMMA Increasing ==
    ASSUME NEW n \in Nat, NEW idx \in [1 .. n -> Nat],
           \A r, s \in 1 .. n : r < s => idx[r] < idx[s],
           NEW m \in 0 .. n
    PROVE  Cardinality({idx[r] : r \in 1 .. m}) = m
<1> DEFINE S == {idx[r] : r \in 1 .. m}
           f == [r \in 1 .. m |-> idx[r]]
<1>1. m \in Nat /\ \A r \in 1 .. m : r \in 1 .. n
  OBVIOUS
<1>2. f \in [1 .. m -> S]
  OBVIOUS
<1>3. \A r, s \in 1 .. m : f[r] = f[s] => r = s
  <2> SUFFICES ASSUME NEW r \in 1 .. m, NEW s \in 1 .. m, r # s PROVE f[r] # f[s]
    OBVIOUS
  <2>1. r < s \/ s < r
    OBVIOUS
  <2>2. f[r] = idx[r] /\ f[s] = idx[s] /\ idx[r] \in Nat /\ idx[s] \in Nat
    BY <1>1
  <2> QED
    BY <1>1, <2>1, <2>2
<1>4. \A x \in S : \E r \in 1 .. m : f[r] = x
  OBVIOUS
<1> HIDE DEF S, f
<1>5. f \in Bijection(1 .. m, S)
  BY <1>2, <1>3, <1>4, Zenon DEF Bijection, Injection, Surjection, IsInjective
<1>6. ExistsBijection(1 .. m, S)
  BY <1>5, Zenon DEF ExistsBijection
<1> QED
  BY <1>1, <1>6, FS_CountingElements DEF S

\* path_clean keeps the segments that no later ".." takes away, in their order.
LEMMA PathCleanExact ==
    ASSUME NEW p \in Seq(STRING), Len(p) <= MaxClean
    PROVE  PathClean(p) = CleanPath(p) /\ PathClean(p) \in Seq(STRING)
<1>1. PICK kept : /\ kept[0] = <<>>
                  /\ \A k \in 1 .. Len(p) : kept[k] = CleanStep(p[k], kept[k - 1])
                  /\ PathClean(p) = kept[Len(p)]
  BY CleanInOrder
<1> DEFINE T == {k \in Nat : k <= Len(p) => \E idx : Kept(p, k, kept[k], idx)}
<1>2. 0 \in T
  <2>1. \A r : r \notin 1 .. 0
    OBVIOUS
  <2>2. Len(<<>>) = 0 /\ <<>> \in Seq(STRING) /\ 0 <= 0
    OBVIOUS
  <2>3. [r \in 1 .. 0 |-> r] \in [1 .. 0 -> 1 .. 0]
    OBVIOUS
  <2>4. Kept(p, 0, <<>>, [r \in 1 .. 0 |-> r])
    BY <2>1, <2>2, <2>3, Zenon DEF Kept
  <2> QED
    BY <1>1, <2>4, Zenon
<1>3. ASSUME NEW k \in Nat, k \in T PROVE k + 1 \in T
  <2> SUFFICES ASSUME k + 1 <= Len(p) PROVE \E idx : Kept(p, k + 1, kept[k + 1], idx)
    OBVIOUS
  <2>1. k <= Len(p) /\ k + 1 \in 1 .. Len(p) /\ (k + 1) - 1 = k /\ k + 1 <= MaxClean
    BY RoutesAssumption
  <2>2. PICK idx : Kept(p, k, kept[k], idx)
    BY <1>3, <2>1
  <2>3. kept[k + 1] = CleanStep(p[k + 1], kept[k])
    BY <1>1, <2>1, Zenon
  <2> QED
    BY <2>1, <2>2, <2>3, KeptStep, Zenon
<1>4. \E idx : Kept(p, Len(p), kept[Len(p)], idx)
  <2>1. Len(p) \in T
    <3> HIDE DEF T
    <3> QED
      BY <1>2, <1>3, CountUp
  <2> QED
    BY <2>1
<1>5. PICK idx : Kept(p, Len(p), PathClean(p), idx)
  BY <1>1, <1>4, Zenon
<1> DEFINE path == PathClean(p)
           n == Len(path)
           left == {i \in DOMAIN p : Survives(p, i)}
<1>6. /\ path \in Seq(STRING) /\ n \in Nat
      /\ idx \in [1 .. n -> 1 .. Len(p)]
      /\ \A r, s \in 1 .. n : r < s => idx[r] < idx[s]
      /\ \A r \in 1 .. n : path[r] = p[idx[r]]
  BY <1>5 DEF Kept
<1>7. \A i \in 1 .. Len(p) : Alive(p, i, Len(p)) <=> \E r \in 1 .. n : idx[r] = i
  BY <1>5, Zenon DEF Kept
<1>8. \A i : Survives(p, i) <=> Alive(p, i, Len(p))
  BY Zenon DEF Survives, Alive, Names, Ups
<1> HIDE DEF path, n
<1>9. idx \in [1 .. n -> Nat] /\ \A r \in 1 .. n : idx[r] \in 1 .. Len(p)
  BY <1>6
<1>10. left = {idx[r] : r \in 1 .. n}
  <2>1. DOMAIN p = 1 .. Len(p)
    OBVIOUS
  <2> QED
    BY <1>7, <1>8, <1>9, <2>1, Zenon
<1>11. \A r \in 1 .. n : {j \in left : j <= idx[r]} = {idx[s] : s \in 1 .. r}
  <2> SUFFICES ASSUME NEW r \in 1 .. n
               PROVE  {j \in left : j <= idx[r]} = {idx[s] : s \in 1 .. r}
    OBVIOUS
  <2>1. \A s \in 1 .. n : idx[s] <= idx[r] <=> s \in 1 .. r
    <3> SUFFICES ASSUME NEW s \in 1 .. n PROVE idx[s] <= idx[r] <=> s \in 1 .. r
      OBVIOUS
    <3>1. idx[s] \in Nat /\ idx[r] \in Nat /\ n \in Nat /\ s \in Nat /\ r \in Nat
      BY <1>6, <1>9
    <3>2. (r < s => idx[r] < idx[s]) /\ (s < r => idx[s] < idx[r])
      BY <1>6
    <3> QED
      BY <3>1, <3>2
  <2>2. \A s : s \in 1 .. r => s \in 1 .. n
    BY <1>6
  <2> HIDE DEF left
  <2> QED
    BY <1>10, <2>1, <2>2, Zenon
<1>12. Cardinality(left) = n /\ \A r \in 1 .. n : Cardinality({j \in left : j <= idx[r]}) = r
  <2>1. \A m \in 0 .. n : Cardinality({idx[r] : r \in 1 .. m}) = m
    BY <1>6, <1>9, Increasing, Zenon
  <2>2. n \in 0 .. n /\ \A r \in 1 .. n : r \in 0 .. n
    BY <1>6
  <2> HIDE DEF left
  <2> QED
    BY <1>10, <1>11, <2>1, <2>2, Zenon
<1> HIDE DEF left
<1> DEFINE at(k) == CHOOSE i \in left : Cardinality({j \in left : j <= i}) = k
<1>13. ASSUME NEW k \in 1 .. n PROVE at(k) = idx[k]
  <2>1. idx[k] \in left /\ Cardinality({j \in left : j <= idx[k]}) = k
    BY <1>10, <1>12, Zenon
  <2>2. at(k) \in left /\ Cardinality({j \in left : j <= at(k)}) = k
    BY <2>1, Zenon
  <2> HIDE DEF at
  <2>3. PICK r \in 1 .. n : at(k) = idx[r]
    BY <1>10, <2>2, Zenon
  <2>4. r = k
    BY <1>12, <2>2, <2>3, Zenon
  <2> QED
    BY <2>3, <2>4
<1> HIDE DEF at
<1>14. path = [k \in 1 .. n |-> p[at(k)]]
  <2>1. path = [k \in 1 .. n |-> path[k]]
    BY <1>6 DEF n
  <2>2. \A k \in 1 .. n : path[k] = p[at(k)]
    BY <1>6, <1>13, Zenon
  <2> QED
    BY <2>1, <2>2, Zenon
<1>15. CleanPath(p) = [k \in 1 .. n |-> p[at(k)]]
  BY <1>12, Zenon DEF CleanPath, at, left
<1> QED
  BY <1>6, <1>14, <1>15, Zenon DEF path

\* match_route compares as many segments as it needs to: a path that is cut is
\* longer than every pattern.
LEMMA SplitHarmless ==
    ASSUME NEW path \in Seq(STRING), NEW i \in DOMAIN Routes
    PROVE  Fits(SplitSegments(Routes[i].pattern), SplitSegments(path))
              <=> Fits(Routes[i].pattern, path)
<1> DEFINE pat == Routes[i].pattern
<1>1. /\ pat \in Seq(Range(pat)) /\ Len(pat) \in Nat /\ Len(pat) < MaxSegments
      /\ MaxSegments \in Nat /\ Len(path) \in Nat
  <2>1. DOMAIN Routes = 1 .. Len(Routes)
    BY RoutesAssumption
  <2>2. /\ pat \in Seq(Range(pat)) /\ Len(pat) < MaxSegments
        /\ MaxSegments \in Nat /\ Len(path) \in Nat
    BY <2>1, RoutesAssumption
  <2> HIDE DEF pat
  <2>3. Len(pat) \in Nat
    BY <2>2
  <2> QED
    BY <2>2, <2>3
<1> HIDE DEF pat
<1>2. SplitSegments(pat) = pat
  <2>1. Min({Len(pat), MaxSegments}) = Len(pat)
    <3>1. PICK m : m = Min({Len(pat), MaxSegments})
      OBVIOUS
    <3>2. m \in {Len(pat), MaxSegments} /\ m <= Len(pat) /\ m <= MaxSegments
      <4>1. Len(pat) \in Int /\ MaxSegments \in Int
        BY <1>1
      <4> QED
        BY <3>1, <4>1, MinOfEither, Zenon
    <3> QED
      BY <1>1, <3>1, <3>2
  <2>2. SubSeq(pat, 1, Len(pat)) = pat
    BY <1>1
  <2> QED
    BY <2>1, <2>2, Zenon DEF SplitSegments
<1>3. PICK m : m = Min({Len(path), MaxSegments})
  OBVIOUS
<1>4. m \in {Len(path), MaxSegments} /\ m <= Len(path) /\ m <= MaxSegments
  <2>1. Len(path) \in Int /\ MaxSegments \in Int
    BY <1>1
  <2> QED
    BY <1>3, <2>1, MinOfEither, Zenon
<1>5. CASE m = Len(path)
  <2>1. SubSeq(path, 1, m) = path
    BY <1>1, <1>5
  <2> QED
    BY <1>2, <1>3, <2>1, Zenon DEF SplitSegments, pat
<1>6. CASE m # Len(path)
  <2>1. m = MaxSegments /\ Len(path) # Len(pat) /\ Len(SubSeq(path, 1, m)) # Len(pat)
    BY <1>1, <1>4, <1>6
  <2> QED
    BY <1>2, <1>3, <2>1, Zenon DEF SplitSegments, Fits, pat
<1> QED
  BY <1>5, <1>6

\* match_route finds a route that fits, if there is one.
LEMMA MatchExact ==
    ASSUME NEW path \in Seq(STRING), NEW method
    PROVE  LET fits == {i \in DOMAIN Routes :
                           Routes[i].method = method /\ Fits(Routes[i].pattern, path)}
           IN  /\ fits = {} => MatchRoute(method, path) = 0
               /\ fits # {} => MatchRoute(method, path) \in fits /\ MatchRoute(method, path) # 0
<1> DEFINE fits == {i \in DOMAIN Routes :
                       Routes[i].method = method /\ Fits(Routes[i].pattern, path)}
<1>1. {i \in DOMAIN Routes :
          /\ Routes[i].method = method
          /\ Fits(SplitSegments(Routes[i].pattern), SplitSegments(path))} = fits
  BY SplitHarmless, Zenon
<1>2. MatchRoute(method, path) = IF fits = {} THEN 0 ELSE Min(fits)
  BY <1>1, Zenon DEF MatchRoute
<1>3. Len(Routes) \in Nat /\ fits \in SUBSET (1 .. Len(Routes))
  BY RoutesAssumption
<1> HIDE DEF fits
<1>4. fits # {} => Min(fits) \in fits /\ Min(fits) # 0
  <2>1. fits # {} => Min(fits) \in fits
    BY <1>3, MinMaxUpTo, Zenon
  <2>2. \A x \in fits : x # 0
    BY <1>3
  <2> QED
    BY <2>1, <2>2, Zenon
<1> QED
  BY <1>2, <1>4, Zenon DEF fits

\* A request whose path has no more segments than path_clean's table gets an
\* answer that its own text selects.
LEMMA GivenExpected ==
    ASSUME NEW c \in Clients, NEW req \in Requests[c], Len(req.path) <= MaxClean
    PROVE  Given(req) \in Expected(req)
<1> DEFINE path == CleanPath(req.path)
           fits == {i \in DOMAIN Routes :
                       Routes[i].method = req.method /\ Fits(Routes[i].pattern, path)}
           guarded == Len(path) > 1 /\ path[1] = "api" /\ path # <<"api", "v1", "auth">>
           route == MatchRoute(req.method, path)
           legal == IF AuthEnabled /\ guarded /\ req.token # "good" THEN {<<"status", 401>>}
                    ELSE IF fits # {} THEN {<<"handler", i>> : i \in fits}
                    ELSE IF req.method = "GET" THEN {<<"file", 0>>} ELSE {<<"status", 404>>}
<1>1. /\ req.path \in Seq(STRING) /\ req.head \in Nat /\ req.body \in Nat
      /\ MaxHeader \in Nat /\ MaxBody \in Nat
  BY HttpdAssumption
<1>2. PathClean(req.path) = path /\ path \in Seq(STRING) /\ Len(path) \in Nat
  <2>1. PathClean(req.path) = path /\ path \in Seq(STRING)
    BY <1>1, PathCleanExact, Zenon
  <2> HIDE DEF path
  <2> QED
    BY <2>1
<1>3. (fits = {} => route = 0) /\ (fits # {} => route \in fits /\ route # 0)
  BY <1>2, MatchExact, Zenon
<1>4. Proceed(path, req.token) <=> ~(AuthEnabled /\ guarded /\ req.token # "good")
  <2>1. Len(path) < 2 <=> ~(Len(path) > 1)
    <3> HIDE DEF path
    <3> QED
      BY <1>2
  <2> QED
    BY <2>1, Zenon DEF Proceed
<1>5. Answer(req) = IF ~Proceed(path, req.token) THEN <<"status", 401>>
                    ELSE IF route # 0 THEN <<"handler", route>>
                    ELSE IF req.method = "GET" THEN <<"file", 0>> ELSE <<"status", 404>>
  <2> DEFINE Says(q) ==
        IF ~Proceed(q, req.token) THEN <<"status", 401>>
        ELSE IF MatchRoute(req.method, q) # 0 THEN <<"handler", MatchRoute(req.method, q)>>
        ELSE IF req.method = "GET" THEN <<"file", 0>> ELSE <<"status", 404>>
  <2>1. Answer(req) = Says(PathClean(req.path))
    BY Zenon DEF Answer
  <2> HIDE DEF Says
  <2>2. Answer(req) = Says(path)
    BY <1>2, <2>1, Zenon
  <2> QED
    BY <2>2, Zenon DEF Says
<1>6. Expected(req) =
        CASE req.head > MaxHeader -> {<<"status", 431>>}
          [] req.head <= MaxHeader /\ ~req.ok -> {<<"status", 400>>}
          [] req.head <= MaxHeader /\ req.ok /\ req.body > MaxBody -> {<<"status", 413>>}
          [] OTHER -> legal
  BY Zenon DEF Expected
<1> HIDE DEF path, fits, guarded, route
<1>7. Answer(req) \in legal
  BY <1>3, <1>4, <1>5, Zenon
<1> HIDE DEF legal
<1>8. (req.head <= MaxHeader <=> ~(req.head > MaxHeader))
  BY <1>1
<1> QED
  BY <1>6, <1>7, <1>8 DEF Given

\* With requests whose paths have at most as many segments as path_clean keeps
\* (a longer path is cut), the i-th answer of a connection is what the text of
\* the i-th request selects, and a connection at rest owes none.
THEOREM AnswersAreExact ==
    (\A c \in Clients : \A r \in Requests[c] : Len(r.path) <= MaxClean)
       => (Spec => []AnswersExact)
<1> SUFFICES ASSUME \A c \in Clients : \A r \in Requests[c] : Len(r.path) <= MaxClean
             PROVE  Spec => []AnswersExact
  OBVIOUS
<1>1. ASSUME ExchangeInv PROVE AnswersExact
  <2> SUFFICES ASSUME NEW c \in Clients
               PROVE  /\ Len(net[c].got) <= Len(asked[c])
                      /\ \A i \in DOMAIN net[c].got : net[c].got[i] \in Expected(asked[c][i])
                      /\ (/\ conn[c].st = "open" /\ conn[c].watch = "read" /\ faults = 0
                          /\ conn[c].rlen = 0 /\ net[c].inbox = 0 /\ net[c].left = 0)
                            => Len(net[c].got) = Len(asked[c])
    BY Zenon DEF AnswersExact
  <2>1. Exchange(conn[c], net[c], asked[c], faults, Requests[c])
    BY <1>1, Zenon DEF ExchangeInv
  <2>2. /\ asked[c] \in Seq(Requests[c]) /\ net[c].got \in Seq(Givens(Requests[c]))
        /\ Len(net[c].got) <= Len(asked[c])
        /\ \A i \in 1 .. Len(net[c].got) : net[c].got[i] = Given(asked[c][i])
    BY <2>1, Zenon DEF Exchange
  <2>3. ASSUME NEW i \in DOMAIN net[c].got PROVE net[c].got[i] \in Expected(asked[c][i])
    <3>1. i \in 1 .. Len(net[c].got) /\ asked[c][i] \in Requests[c]
      BY <2>2
    <3> QED
      BY <2>2, <3>1, GivenExpected, Zenon
  <2>4. ASSUME conn[c].st = "open", conn[c].watch = "read", faults = 0,
               conn[c].rlen = 0, net[c].inbox = 0, net[c].left = 0
        PROVE  Len(net[c].got) = Len(asked[c])
    <3>1. conn[c] # Closed
      BY <2>4, ClosedFields, Zenon
    <3>2. Framed(conn[c], net[c], asked[c], faults)
      BY <2>1, <3>1, Zenon DEF Exchange
    <3>3. ~Receiving(conn[c], net[c], asked[c])
      BY <2>4 DEF Receiving
    <3>4. ~Answering(conn[c], net[c], asked[c], faults)
      BY <2>4, Zenon DEF Answering, Pending
    <3> QED
      BY <2>4, <3>2, <3>3, <3>4, Zenon DEF Framed, Idle
  <2> QED
    BY <2>2, <2>3, <2>4, Zenon
<1> QED
  BY <1>1, ExchangeInvariant, PTL

\* Every variable keeps its type, for any number of clients and requests.
THEOREM HttpdTypeCorrect == Spec => []TypeOK
<1>1. ASSUME HttpdInv, ExchangeInv PROVE TypeOK
  <2>1. \A c \in Clients : Exchange(conn[c], net[c], asked[c], faults, Requests[c])
    BY <1>1, Zenon DEF ExchangeInv
  <2>2. ASSUME NEW c \in Clients
        PROVE  /\ conn[c].st \in {"none", "queued", "open", "closed"}
               /\ conn[c].watch \in {"read", "write"} /\ conn[c].timer \in Timers
               /\ conn[c].rlen \in Nat /\ conn[c].wsent \in 0 .. Parts
    <3>1. conn[c].st \in {"none", "queued", "open", "closed"} /\ conn[c].timer \in Timers
      BY <1>1, <2>1, Zenon DEF HttpdInv, Exchange
    <3>2. CASE conn[c] = Closed
      <4>1. Closed.watch = "read" /\ Closed.rlen = 0 /\ Closed.wsent = 0
        BY Zenon DEF Closed, NoConn
      <4>2. 0 \in Nat /\ 0 \in 0 .. Parts
        BY HttpdAssumption
      <4> QED
        BY <3>1, <3>2, <4>1, <4>2, Zenon
    <3>3. CASE Framed(conn[c], net[c], asked[c], faults)
      <4>1. 0 \in Nat /\ \A x : x \in 0 .. Parts - 1 \/ x = 0 => x \in 0 .. Parts
        BY HttpdAssumption
      <4>2. conn[c].watch \in {"read", "write"} /\ conn[c].rlen \in Nat
        BY <3>3, <4>1, Zenon DEF Framed, Idle, Receiving, Answering, Pending
      <4>3. conn[c].wsent \in 0 .. Parts
        BY <3>3, <4>1, Zenon DEF Framed, Idle, Receiving, Answering, Pending
      <4> QED
        BY <3>1, <4>2, <4>3, Zenon
    <3> QED
      BY <2>1, <3>2, <3>3, Zenon DEF Exchange
  <2>3. ASSUME NEW c \in Clients
        PROVE  /\ net[c].inbox \in Nat /\ net[c].left \in Nat
               /\ asked[c] \in Seq(Requests[c])
    BY <2>1, Zenon DEF Exchange, IsNet
  <2>4. n_conns \in 0 .. MaxConns
    BY <1>1, OpenFinite, HttpdAssumption DEF HttpdInv
  <2>5. /\ faults \in 0 .. MaxFaults
        /\ batch \in Seq([c : Clients \cup {"listener"}, kind : {"fd", "timer"}, stale : BOOLEAN])
    BY <1>1, Zenon DEF HttpdInv, ExchangeInv, Events
  <2> QED
    BY <2>2, <2>3, <2>4, <2>5, Zenon DEF TypeOK, Timers
<1> QED
  BY <1>1, ExchangeInvariant, PTL

=============================================================================
