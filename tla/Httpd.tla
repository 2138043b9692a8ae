------------------------------- MODULE Httpd -------------------------------
(***************************************************************************)
(* The HTTP server of the API and the web interface (api/httpd.c) on the   *)
(* event loop (platform/loop.c): accepting, reading a request in pieces,   *)
(* routing and answering it, writing the answer in pieces, keeping the     *)
(* connection for the next request, and the idle timer.                    *)
(*                                                                         *)
(* Bytes are counted in pieces: a request has head + body of them, an      *)
(* answer Parts.  A client sends its next request when it has the answer   *)
(* to the last (conn_reset_for_next_request drops what was read ahead).    *)
(* A path is its sequence of segments.  A client is one connection.        *)
(***************************************************************************)
EXTENDS Integers, Sequences, FiniteSetsExt

CONSTANTS Clients,
          MaxConns,      \* MT_HTTPD_MAX_CONNS
          MaxHeader,     \* MT_HTTPD_MAX_HEADER_BYTES
          MaxBody,       \* MT_HTTPD_MAX_BODY_BYTES
          MaxSegments,   \* MT_HTTPD_MAX_SEGMENTS
          MaxClean,      \* MT_HTTPD_MAX_CLEAN_SEGMENTS
          Param,         \* a "{name}" segment of a pattern
          Routes,        \* sequence of [method, pattern]
          AuthEnabled,
          Parts,
          Requests,      \* client -> what it may ask
          MaxRequests,   \* bound: requests on a connection
          MaxFaults      \* bound: failures of memory and of the loop

ASSUME HttpdAssumption ==
    /\ IsFiniteSet(Clients) /\ "listener" \notin Clients
    /\ MaxConns \in Nat \ {0} /\ MaxHeader \in Nat \ {0} /\ MaxBody \in Nat
    /\ Parts \in Nat \ {0} /\ MaxFaults \in Nat
    /\ \A c \in Clients : \A r \in Requests[c] :
          r.head \in Nat \ {0} /\ r.body \in Nat /\ r.path \in Seq(STRING)

\* No pattern of the daemon fills the segments that match_route compares.
ASSUME RoutesAssumption ==
    /\ Routes \in Seq(Range(Routes))
    /\ \A i \in 1 .. Len(Routes) :
          /\ Routes[i].pattern \in Seq(Range(Routes[i].pattern))
          /\ Len(Routes[i].pattern) < MaxSegments
    /\ MaxSegments \in Nat /\ MaxClean \in Nat

VARIABLES conn,        \* mt_http_conn_t of each client
          net,         \* the socket of each client, as the client sees it
          asked,       \* client -> the requests it has begun to send
          n_conns,
          batch,       \* events of the last epoll_wait not yet dispatched
          undefined,   \* an event was dispatched to a watch that had been freed
          down,        \* the server has been destroyed
          faults

vars == <<conn, net, asked, n_conns, batch, undefined, down, faults>>

NoAnswer == <<"none", 0>>

\* rlen: pieces in rbuf; done: headers_done; timer: "failed" when
\* mt_loop_add_timer did; empty: there was no memory for wbuf.
NoConn == [st |-> "none", watch |-> "read", timer |-> "none", rlen |-> 0, done |-> FALSE,
           v10 |-> FALSE, answer |-> NoAnswer, empty |-> FALSE, wsent |-> 0,
           closing |-> FALSE]

\* inbox: arrived and not read; left: of the request, not sent yet; peer: "eof"
\* sends no more, "gone" has closed; room: to send to it; got: its answers.
NoNet == [inbox |-> 0, left |-> 0, peer |-> "here", room |-> TRUE, got |-> <<>>]

Open == {c \in Clients : conn[c].st = "open"}
Queued == {c \in Clients : conn[c].st = "queued"}

TypeOK ==
    /\ \A c \in Clients :
          /\ conn[c].st \in {"none", "queued", "open", "closed"}
          /\ conn[c].watch \in {"read", "write"}
          /\ conn[c].timer \in {"none", "armed", "expired", "failed"}
          /\ conn[c].rlen \in Nat /\ conn[c].wsent \in 0 .. Parts
          /\ net[c].inbox \in Nat /\ net[c].left \in Nat
    /\ \A c \in Clients : asked[c] \in Seq(Requests[c])
    /\ n_conns \in 0 .. MaxConns
    /\ batch \in Seq([c : Clients \cup {"listener"}, kind : {"fd", "timer"}, stale : BOOLEAN])
    /\ faults \in 0 .. MaxFaults

-----------------------------------------------------------------------------
\* Routing.

\* Mutant: ".." does not take a segment away.
CleanStepKeepsParent(seg, kept) ==
    IF seg \in {"", ".", ".."} \/ Len(kept) = MaxClean THEN kept ELSE Append(kept, seg)

\* One segment of path_clean: "" between two slashes.
CleanStep(seg, kept) ==
    IF seg \in {"", "."} THEN kept
    ELSE IF seg = ".." THEN SubSeq(kept, 1, Len(kept) - 1)
    ELSE IF Len(kept) < MaxClean THEN Append(kept, seg) ELSE kept

PathClean(in) ==
    MapThenFoldSet(CleanStep, <<>>, LAMBDA i : in[i], Max, DOMAIN in)

SplitSegments(path) == SubSeq(path, 1, Min({Len(path), MaxSegments}))

Fits(pattern, path) ==
    /\ Len(pattern) = Len(path)
    /\ \A i \in DOMAIN pattern : pattern[i] \in {Param, path[i]}

\* The first route that fits; 0 if none does.
MatchRoute(method, path) ==
    LET fit == {i \in DOMAIN Routes :
                   /\ Routes[i].method = method
                   /\ Fits(SplitSegments(Routes[i].pattern), SplitSegments(path))}
    IN  IF fit = {} THEN 0 ELSE Min(fit)

\* mt_auth_middleware lets the request pass.
Proceed(path, token) ==
    \/ Len(path) < 2 \/ path[1] # "api"
    \/ ~AuthEnabled \/ path = <<"api", "v1", "auth">>
    \/ token = "good"

\* What handle_complete_request answers; mt_static_handler serves files.
Answer(req) ==
    LET path == PathClean(req.path)
        route == MatchRoute(req.method, path)
    IN  IF ~Proceed(path, req.token) THEN <<"status", 401>>
        ELSE IF route # 0 THEN <<"handler", route>>
        ELSE IF req.method = "GET" THEN <<"file", 0>> ELSE <<"status", 404>>

-----------------------------------------------------------------------------
\* A handler of connection c ends in one of a set of outcomes: the connection
\* (cn), its socket (nt) and the failures so far (f).
Out(cn, nt, f) == [cn |-> cn, nt |-> nt, f |-> f]

MayFail(f) == {g \in {f + 1} : g <= MaxFaults}

\* conn_close; the connection's memory is gone.
Closed == [NoConn EXCEPT !.st = "closed"]

ConnClose(nt, f) == {Out(Closed, nt, f)}

\* A failure whose handling is conn_close.
FailClose(nt, f) == {Out(Closed, nt, g) : g \in MayFail(f)}

\* Mutant: the old timer is deleted and no new one made.
ResetIdleTimerForgets(cn, f) == {<<[cn EXCEPT !.timer = "none"], f>>}

\* reset_idle_timer ignores a failure of mt_loop_add_timer.
ResetIdleTimer(cn, f) ==
    {<<[cn EXCEPT !.timer = "armed"], f>>}
        \cup {<<[cn EXCEPT !.timer = "failed"], g>> : g \in MayFail(f)}

\* http_1_0 is kept.
ConnResetForNextRequest(cn) ==
    [cn EXCEPT !.rlen = 0, !.done = FALSE, !.answer = NoAnswer, !.empty = FALSE, !.wsent = 0]

\* start_write once everything is written.
FullyWritten(cn, nt, f) ==
    IF cn.closing THEN ConnClose(nt, f)
    ELSE {Out(t[1], nt, t[2]) :
              t \in ResetIdleTimer([ConnResetForNextRequest(cn) EXCEPT !.watch = "read"], f)}
         \cup FailClose(nt, f)

\* Mutant: at EAGAIN the callback is not changed.
StartWriteKeepsWatch(cn, nt, f) ==
    LET sent == IF nt.room THEN cn.wsent + 1 .. Parts ELSE {cn.wsent}
    IN  IF cn.empty THEN FullyWritten(cn, nt, f)
        ELSE UNION {IF k = Parts
                    THEN FullyWritten(cn, [nt EXCEPT !.got = Append(@, cn.answer)], f)
                    ELSE {Out([cn EXCEPT !.wsent = k], [nt EXCEPT !.room = FALSE], f)}
                    : k \in sent}

\* send takes some of what is left, as far as there is room, until all is sent
\* or EAGAIN; it may fail when the peer is gone.
StartWrite(cn, nt, f) ==
    LET sent == IF nt.room THEN cn.wsent + 1 .. Parts ELSE {cn.wsent}
    IN  IF cn.empty THEN FullyWritten(cn, nt, f)
        ELSE (IF nt.peer = "gone" THEN ConnClose(nt, f) ELSE {})
             \cup
             UNION {IF k = Parts
                    THEN FullyWritten(cn, [nt EXCEPT !.got = Append(@, cn.answer)], f)
                    ELSE {Out([cn EXCEPT !.wsent = k, !.watch = "write"],
                              [nt EXCEPT !.room = FALSE], f)}
                         \cup FailClose(nt, f)
                    : k \in sent}

\* Mutant: "keep-alive" does not help an HTTP/1.0 client.
WantCloseOldVersion(cn, req) ==
    \/ req.connection = "close"
    \/ cn.v10
    \/ n_conns > MaxConns

WantClose(cn, req) ==
    \/ req.connection = "close"
    \/ cn.v10 /\ req.connection # "keep-alive"
    \/ n_conns > MaxConns

\* build_response_bytes may find no memory.
HandleCompleteRequest(cn, nt, f, req) ==
    LET ready == [cn EXCEPT !.answer = Answer(req), !.closing = WantClose(cn, req)]
    IN  StartWrite(ready, nt, f)
        \cup UNION {StartWrite([ready EXCEPT !.empty = TRUE], nt, g) : g \in MayFail(f)}

\* A refusal is sent with one send and not waited for.
Refuse(status, nt, f) ==
    ConnClose(nt, f) \cup ConnClose([nt EXCEPT !.got = Append(@, <<"status", status>>)], f)

\* The socket is empty: recv says EAGAIN or end of file.
SocketEmpty(cn, nt, f) == IF nt.peer = "here" THEN {Out(cn, nt, f)} ELSE ConnClose(nt, f)

Take(nt, n) == [nt EXCEPT !.inbox = @ - n]

\* The headers are complete; recv up to the end of the body.
ReadBody(cn, nt, f, req) ==
    LET total == req.head + req.body
        n == Min({nt.inbox, Max({total - cn.rlen, 0})})
        read == [cn EXCEPT !.rlen = @ + n]
    IN  IF read.rlen >= total
        THEN HandleCompleteRequest(read, Take(nt, n), f, req)
        ELSE SocketEmpty(read, Take(nt, n), f)

\* parse_headers accepted the request.
Parsed(cn, req) == [cn EXCEPT !.done = TRUE, !.v10 = @ \/ req.v10]

\* Mutant: the limit is compared with >, so a full buffer is left as it is.
ReadHeadersLate(cn, nt, f, req) ==
    LET n == Min({nt.inbox, MaxHeader - cn.rlen})
        read == [cn EXCEPT !.rlen = @ + n]
        rest == Take(nt, n)
    IN  IF nt.inbox = 0 THEN SocketEmpty(cn, nt, f)
        ELSE IF req.head <= read.rlen
        THEN IF ~req.ok THEN Refuse(400, rest, f)
             ELSE IF req.body > MaxBody THEN Refuse(413, rest, f)
             ELSE ReadBody(Parsed(read, req), rest, f, req)
        ELSE IF read.rlen > MaxHeader THEN Refuse(431, rest, f)
        ELSE IF rest.inbox > 0 THEN {Out(read, rest, f)} ELSE SocketEmpty(read, rest, f)

\* recv up to MaxHeader pieces and look for the end of the headers.
ReadHeaders(cn, nt, f, req) ==
    LET n == Min({nt.inbox, MaxHeader - cn.rlen})
        read == [cn EXCEPT !.rlen = @ + n]
        rest == Take(nt, n)
    IN  IF n = 0 THEN SocketEmpty(cn, nt, f)
        ELSE IF req.head <= read.rlen
        THEN IF ~req.ok THEN Refuse(400, rest, f)
             ELSE IF req.body > MaxBody THEN Refuse(413, rest, f)
             ELSE ReadBody(Parsed(read, req), rest, f, req)
        ELSE IF read.rlen >= MaxHeader THEN Refuse(431, rest, f)
        ELSE SocketEmpty(read, rest, f)

\* on_conn_readable; realloc or recv may fail.  A peer that is gone shows as
\* EPOLLHUP or only as the end of what it sent.
Readable(cn, nt, f, req) ==
    (IF nt.peer = "gone" THEN ConnClose(nt, f) ELSE {})
    \cup FailClose(nt, f)
    \cup UNION {IF cn.done THEN ReadBody(t[1], nt, t[2], req)
                ELSE ReadHeaders(t[1], nt, t[2], req) : t \in ResetIdleTimer(cn, f)}

\* on_conn_writable; the idle timer runs on.
Writable(cn, nt, f) ==
    (IF nt.peer = "gone" THEN ConnClose(nt, f) ELSE {}) \cup StartWrite(cn, nt, f)

-----------------------------------------------------------------------------
Init ==
    /\ conn = [c \in Clients |-> NoConn]
    /\ net = [c \in Clients |-> NoNet]
    /\ asked = [c \in Clients |-> <<>>]
    /\ n_conns = 0
    /\ batch = <<>>
    /\ undefined = FALSE
    /\ down = FALSE
    /\ faults = 0

\* The clients and the clock.
Connect(c) ==
    /\ conn[c].st = "none" /\ ~down
    /\ conn' = [conn EXCEPT ![c].st = "queued"]
    /\ UNCHANGED <<net, asked, n_conns, batch, undefined, down, faults>>

\* The client begins a request: its first n pieces arrive together.
Ask(c, req) ==
    /\ conn[c].st \in {"queued", "open"} /\ net[c].peer = "here"
    /\ Len(asked[c]) < MaxRequests /\ Len(net[c].got) = Len(asked[c])
    /\ asked' = [asked EXCEPT ![c] = Append(@, req)]
    /\ \E n \in 1 .. req.head + req.body :
           net' = [net EXCEPT ![c].inbox = n, ![c].left = req.head + req.body - n]
    /\ UNCHANGED <<conn, n_conns, batch, undefined, down, faults>>

SendMore(c) ==
    /\ conn[c].st \in {"queued", "open"} /\ net[c].peer = "here"
    /\ \E n \in 1 .. net[c].left :
           net' = [net EXCEPT ![c].inbox = @ + n, ![c].left = @ - n]
    /\ UNCHANGED <<conn, asked, n_conns, batch, undefined, down, faults>>

\* The client reads what was sent to it.
Drain(c) ==
    /\ conn[c].st = "open" /\ ~net[c].room /\ net[c].peer # "gone"
    /\ net' = [net EXCEPT ![c].room = TRUE]
    /\ UNCHANGED <<conn, asked, n_conns, batch, undefined, down, faults>>

\* shutdown or close by the client.
HangUp(c) ==
    /\ conn[c].st \in {"queued", "open"} /\ net[c].peer = "here"
    /\ \E p \in {"eof", "gone"} : net' = [net EXCEPT ![c].peer = p]
    /\ UNCHANGED <<conn, asked, n_conns, batch, undefined, down, faults>>

\* MT_HTTPD_IDLE_TIMEOUT_MS pass.
Expire(c) ==
    /\ conn[c].timer = "armed"
    /\ conn' = [conn EXCEPT ![c].timer = "expired"]
    /\ UNCHANGED <<net, asked, n_conns, batch, undefined, down, faults>>

-----------------------------------------------------------------------------
\* The loop.

Event(c, kind) == [c |-> c, kind |-> kind, stale |-> FALSE]

FdReady(c) ==
    \/ net[c].peer = "gone"
    \/ conn[c].watch = "read" /\ (net[c].inbox > 0 \/ net[c].peer = "eof")
    \/ conn[c].watch = "write" /\ net[c].room

Ready ==
    {Event(c, "fd") : c \in {d \in Open : FdReady(d)}}
        \cup {Event(c, "timer") : c \in {d \in Open : conn[d].timer = "expired"}}
        \cup {Event("listener", "fd") : c \in Queued}

\* epoll_wait returns every ready watch, in any order.
EpollWait ==
    /\ batch = <<>> /\ ~down /\ ~undefined
    /\ Ready # {}
    /\ batch' \in Bijection(1 .. Cardinality(Ready), Ready)
    /\ UNCHANGED <<conn, net, asked, n_conns, undefined, down, faults>>

Dispatches(c, kind) == batch # <<>> /\ Head(batch) = Event(c, kind) /\ ~undefined

\* Events of the batch whose watch mt_loop_del_fd or mt_loop_del_timer freed.
Freed(c, kinds) ==
    [i \in 1 .. Len(batch) - 1 |->
        [batch[i + 1] EXCEPT !.stale = @ \/ (batch[i + 1].c = c /\ batch[i + 1].kind \in kinds)]]

\* Closing frees both watches, resetting the timer that of the timer.
Settle(c, out) ==
    /\ conn' = [conn EXCEPT ![c] = out.cn]
    /\ net' = [net EXCEPT ![c] = out.nt]
    /\ faults' = out.f
    /\ n_conns' = IF out.cn.st = "closed" THEN n_conns - 1 ELSE n_conns
    /\ batch' = Freed(c, IF out.cn.st = "closed" THEN {"fd", "timer"}
                         ELSE IF out.cn.timer # conn[c].timer THEN {"timer"} ELSE {})
    /\ UNCHANGED <<asked, undefined, down>>

OnConnReadable(c) ==
    /\ Dispatches(c, "fd") /\ conn[c].watch = "read"
    /\ \E out \in Readable(conn[c], net[c], faults,
                           IF asked[c] = <<>> THEN <<>> ELSE asked[c][Len(asked[c])]) : Settle(c, out)

OnConnWritable(c) ==
    /\ Dispatches(c, "fd") /\ conn[c].watch = "write"
    /\ \E out \in Writable(conn[c], net[c], faults) : Settle(c, out)

OnIdleTimeout(c) ==
    /\ Dispatches(c, "timer")
    /\ \E out \in ConnClose(net[c], faults) : Settle(c, out)

\* An event of a watch that an earlier handler of the batch freed.
DispatchFreed ==
    /\ batch # <<>> /\ Head(batch).stale /\ ~undefined
    /\ undefined' = TRUE
    /\ UNCHANGED <<conn, net, asked, n_conns, batch, down, faults>>

\* on_accept takes every queued connection: those for which fcntl, conn_new or
\* mt_loop_add_fd fails and those above the limit are closed; those whose idle
\* timer cannot be made are kept.
OnAccept ==
    /\ Dispatches("listener", "fd")
    /\ \E failed \in SUBSET Queued, untimed \in SUBSET Queued :
          LET fit == Queued \ failed
          IN  /\ faults' = faults + Cardinality(failed) + Cardinality(untimed)
              /\ faults' <= MaxFaults
              /\ \E taken \in SUBSET fit :
                    /\ untimed \subseteq taken
                    /\ Cardinality(taken) = Min({Cardinality(fit), MaxConns - n_conns})
                    /\ conn' = [c \in Clients |->
                          IF c \in taken
                          THEN [conn[c] EXCEPT !.st = "open",
                                               !.timer = IF c \in untimed THEN "failed" ELSE "armed"]
                          ELSE IF c \in Queued THEN Closed ELSE conn[c]]
                    /\ n_conns' = n_conns + Cardinality(taken)
    /\ batch' = Tail(batch)
    /\ UNCHANGED <<net, asked, undefined, down>>

\* The loop was stopped, between any two events; mt_httpd_destroy.
Destroy ==
    /\ ~down /\ ~undefined
    /\ down' = TRUE
    /\ conn' = [c \in Clients |-> IF c \in Open \cup Queued THEN Closed ELSE conn[c]]
    /\ n_conns' = n_conns - Cardinality(Open)
    /\ batch' = <<>>
    /\ UNCHANGED <<net, asked, undefined, faults>>

Loop ==
    \/ EpollWait \/ OnAccept \/ DispatchFreed
    \/ \E c \in Clients : OnConnReadable(c) \/ OnConnWritable(c) \/ OnIdleTimeout(c)

Next ==
    \/ Loop \/ Destroy
    \/ \E c \in Clients :
          \/ Connect(c) \/ SendMore(c) \/ Drain(c) \/ HangUp(c) \/ Expire(c)
          \/ \E req \in Requests[c] : Ask(c, req)

\* The loop does not stop while an event is ready or waits to be dispatched:
\* WF_vars(Loop), with what enables Loop and what only its steps change (Destroy
\* disables it) written out.
LoopFairness ==
    \/ []<>(undefined \/ (batch = <<>> /\ (down \/ Ready = {})))
    \/ []<><<batch' # batch \/ undefined'>>_vars

\* The loop runs and time passes; clients may stop at any point.
Spec == Init /\ [][Next]_vars /\ LoopFairness /\ \A c \in Clients : WF_vars(Expire(c))

-----------------------------------------------------------------------------
\* The connection count that gates on_accept is the number of open connections
\* and never above the limit, the callback of a connection's watch is the write
\* one exactly while an answer is unsent (start_write swaps it both ways), and
\* destroying the server leaves no connection behind.
ConnsExact ==
    /\ n_conns = Cardinality(Open) /\ n_conns <= MaxConns
    /\ \A c \in Open : conn[c].watch = "write" <=> conn[c].answer # NoAnswer
    /\ down => Open \cup Queued = {}

\* Segment i of a path is in its clean form iff it is a name and no ".." after it
\* is left to take it away.
Survives(p, i) ==
    LET names(m) == {j \in i + 1 .. m : p[j] \notin {"", ".", ".."}}
        ups(m) == {j \in i + 1 .. m : p[j] = ".."}
    IN  /\ p[i] \notin {"", ".", ".."}
        /\ \A m \in i + 1 .. Len(p) : Cardinality(ups(m)) <= Cardinality(names(m))

CleanPath(p) ==
    LET left == {i \in DOMAIN p : Survives(p, i)}
    IN  [k \in 1 .. Cardinality(left) |->
            p[CHOOSE i \in left : Cardinality({j \in left : j <= i}) = k]]

\* What a request is to be answered, whatever pieces it arrives in.
Expected(req) ==
    LET path == CleanPath(req.path)
        fits == {i \in DOMAIN Routes :
                    Routes[i].method = req.method /\ Fits(Routes[i].pattern, path)}
        guarded == Len(path) > 1 /\ path[1] = "api" /\ path # <<"api", "v1", "auth">>
    IN  CASE req.head > MaxHeader -> {<<"status", 431>>}
          [] req.head <= MaxHeader /\ ~req.ok -> {<<"status", 400>>}
          [] req.head <= MaxHeader /\ req.ok /\ req.body > MaxBody -> {<<"status", 413>>}
          [] OTHER ->
                IF AuthEnabled /\ guarded /\ req.token # "good" THEN {<<"status", 401>>}
                ELSE IF fits # {} THEN {<<"handler", i>> : i \in fits}
                ELSE IF req.method = "GET" THEN {<<"file", 0>>} ELSE {<<"status", 404>>}

\* The i-th answer a client gets is the answer to its i-th request, from the
\* route, the file handler or the limit that the request's own text selects,
\* however its bytes were split (on_conn_readable, path_clean, match_route); and
\* a connection that is waiting for the next request has answered all the others
\* unless memory failed.
AnswersExact ==
    \A c \in Clients :
       /\ Len(net[c].got) <= Len(asked[c])
       /\ \A i \in DOMAIN net[c].got : net[c].got[i] \in Expected(asked[c][i])
       /\ (/\ conn[c].st = "open" /\ conn[c].watch = "read" /\ faults = 0
           /\ conn[c].rlen = 0 /\ net[c].inbox = 0 /\ net[c].left = 0)
             => Len(net[c].got) = Len(asked[c])

\* After an answer the connection is closed iff the request says so: by
\* "close", or by the absence of "keep-alive" once the connection has carried an
\* HTTP/1.0 request (handle_complete_request); memory and loop failures aside.
KeepAlive ==
    [][\A c \in Clients :
          LET n == Len(net'[c].got)
              req == asked[c][n]
              says == \/ req.connection = "close"
                      \/ /\ req.connection # "keep-alive"
                         /\ \E i \in 1 .. n : asked[c][i].v10
          IN  (n > Len(net[c].got) /\ net'[c].got[n][1] # "status" /\ faults' = faults)
                => ((conn'[c].st = "closed") <=> says)]_vars

\* A readable event that leaves the connection reading has emptied the socket:
\* the level-triggered loop is not woken again for bytes the handler does not
\* take (on_conn_readable's limits).
ReadsAll ==
    [][\A c \in Clients :
          (/\ Dispatches(c, "fd") /\ batch' # batch
           /\ conn[c].watch = "read" /\ conn'[c].st = "open" /\ conn'[c].watch = "read")
             => net'[c].inbox = 0]_vars

\* Every connection ends, by its client, by an answer or by the idle timer,
\* whatever its client does: unless mt_loop_add_timer failed for it
\* (reset_idle_timer ignores that) or the loop dispatched a freed watch.
ConnectionEnds ==
    \A c \in Clients :
       conn[c].st \in {"queued", "open"}
          ~> (conn[c].st = "closed" \/ conn[c].timer = "failed" \/ undefined)
=============================================================================
