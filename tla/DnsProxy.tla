------------------------------ MODULE DnsProxy ------------------------------
(***************************************************************************)
(* The DNS proxy (dns/proxy.c) on the event loop (platform/loop.c): UDP    *)
(* and TCP exchanges with their watches and deadlines, the in-flight       *)
(* budget, the pool of connected UDP sockets, and the batch of events that *)
(* one epoll_wait returns and mt_loop_run dispatches one by one.           *)
(*                                                                         *)
(* An exchange stands for its client's question too, and a UDP socket has  *)
(* the number of the exchange that opened it.  A handler that loops until  *)
(* EAGAIN is dispatched once per datagram or connection: the loop is       *)
(* level-triggered and nothing happens in between.  The loop keeps the     *)
(* watch of a fired one-shot timer until somebody deletes it.              *)
(***************************************************************************)
EXTENDS Integers, Sequences, FiniteSets

CONSTANTS MaxConcurrent,   \* max_concurrent of the configuration
          MaxIdle,         \* max_idle_conns of the configuration
          MaxExchanges,    \* bound: exchanges in a behaviour
          MaxBatch,        \* bound: events of one epoll_wait
          MaxDropped,      \* bound: refused requests that are counted
          MaxDups          \* bound: answers the network duplicates

ASSUME ProxyAssumption ==
    /\ MaxConcurrent \in Nat /\ MaxIdle \in Nat /\ MaxExchanges \in Nat
    /\ MaxBatch \in Nat /\ MaxDropped \in Nat /\ MaxDups \in Nat

Ids == 1 .. MaxExchanges
Listener == 0

\* read: the client's TCP request; send: to the upstream; wait: for its answer;
\* reply: to the TCP client.
States == {"none", "read", "send", "wait", "reply", "done"}
Exchanges == [st : States, tcp : BOOLEAN, timer : BOOLEAN, sock : 0 .. MaxExchanges,
              got : 0 .. MaxExchanges]
NoExchange == [st |-> "none", tcp |-> FALSE, timer |-> FALSE, sock |-> 0, got |-> 0]

VARIABLES ex,          \* exchange_t; timer: its timer has a watch in the loop
          inflight, dropped,
          pool,        \* udp_pool: idle sockets, the last one is taken first
          inbox,       \* socket -> answers received
          asked,       \* <<question, socket>> pairs the upstream may answer
          batch,       \* events of the last epoll_wait not yet dispatched
          undefined,   \* an event was dispatched to a watch that had been freed
          dups

vars == <<ex, inflight, dropped, pool, inbox, asked, batch, undefined, dups>>
netVars == <<pool, inbox, asked>>

Live == {e \in Ids : ex[e].st \notin {"none", "done"}}

TypeOK ==
    /\ ex \in [Ids -> Exchanges]
    /\ inflight \in Nat /\ dropped \in 0 .. MaxDropped
    /\ pool \in Seq(Ids) /\ Len(pool) <= MaxIdle
    /\ inbox \in [Ids -> Seq(Ids)]
    /\ asked \subseteq Ids \X Ids
    /\ batch \in Seq((Ids \cup {Listener}) \X {"udp", "tcp", "client", "upstream", "timer"})
    /\ undefined \in BOOLEAN
    /\ dups \in 0 .. MaxDups

Init ==
    /\ ex = [e \in Ids |-> NoExchange]
    /\ inflight = 0 /\ dropped = 0
    /\ pool = <<>> /\ inbox = [s \in Ids |-> <<>>] /\ asked = {}
    /\ batch = <<>> /\ undefined = FALSE /\ dups = 0

-----------------------------------------------------------------------------
\* The loop.

\* The watches of an exchange, and of the listening sockets.
Watched(e) ==
    IF e = Listener THEN {"udp", "tcp"} ELSE
    {k \in {"client", "upstream", "timer"} :
        \/ k = "client" /\ e \in Live /\ ex[e].tcp
        \/ k = "upstream" /\ ex[e].st \in {"send", "wait"}
        \/ k = "timer" /\ ex[e].timer}

\* What epoll may report: data, room, an error or a hang-up of a live
\* exchange, its deadline, a new request.
Ready ==
    {w \in Live \X {"client", "upstream", "timer"} : w[2] \in Watched(w[1])}
        \cup (IF \E e \in Ids : ex[e].st = "none" THEN {Listener} \X Watched(Listener) ELSE {})

EpollWait ==
    /\ batch = <<>> /\ ~undefined
    /\ \E n \in 1 .. MaxBatch :
          batch' \in {b \in [1 .. n -> Ready] : \A i, j \in 1 .. n : i # j => b[i] # b[j]}
    /\ UNCHANGED <<ex, inflight, dropped, netVars, undefined, dups>>

\* mt_loop_run takes the next event of the batch; its pointer may be to a
\* watch that an earlier callback of the batch has freed.
Take(e, k) ==
    /\ batch # <<>> /\ ~undefined
    /\ Head(batch) = <<e, k>>
    /\ k \in Watched(e)
    /\ batch' = Tail(batch)
    /\ UNCHANGED <<undefined, dups>>

DispatchFreed ==
    /\ batch # <<>> /\ ~undefined
    /\ Head(batch)[2] \notin Watched(Head(batch)[1])
    /\ undefined' = TRUE
    /\ batch' = <<>>
    /\ UNCHANGED <<ex, inflight, dropped, netVars, dups>>

-----------------------------------------------------------------------------
\* Exchanges.

Update(e, r) == ex' = [ex EXCEPT ![e] = r]

\* A closed socket loses what it received and what was on its way to it.
Close(s) ==
    /\ inbox' = [inbox EXCEPT ![s] = <<>>]
    /\ asked' = {a \in asked : a[2] # s}

\* pool_put closes what does not fit.
PoolHasRoom == Len(pool) < MaxIdle

\* exchange_finish: pooled, the socket may go back to the pool with what is
\* left in its buffer; timer, the deadline's watch stays in the loop.
Finish(e, pooled, timer, got, left) ==
    LET s == ex[e].sock
        kept == pooled /\ PoolHasRoom
    IN  /\ Update(e, [ex[e] EXCEPT !.st = "done", !.timer = timer, !.sock = 0, !.got = got])
        /\ inflight' = inflight - 1
        /\ IF s = 0 THEN UNCHANGED netVars
           ELSE IF kept THEN /\ pool' = Append(pool, s)
                             /\ inbox' = [inbox EXCEPT ![s] = left]
                             /\ UNCHANGED asked
           ELSE Close(s) /\ UNCHANGED pool
        /\ UNCHANGED dropped

Fail(e) == Finish(e, FALSE, FALSE, ex[e].got, <<>>)

Stay == UNCHANGED <<ex, inflight, dropped, netVars>>

Fresh == CHOOSE e \in Ids : ex[e].st = "none"
Full == inflight >= MaxConcurrent

Refuse ==
    /\ dropped' = IF dropped < MaxDropped THEN dropped + 1 ELSE dropped
    /\ UNCHANGED <<ex, inflight, netVars>>

\* start_upstream for UDP: a pooled socket or a new one.  An error of the
\* socket, the send, the watch or the timer closes it and frees the slot.
StartUdp(e) ==
    LET s == IF pool = <<>> THEN e ELSE pool[Len(pool)]
    IN  /\ pool' = IF pool = <<>> THEN pool ELSE SubSeq(pool, 1, Len(pool) - 1)
        /\ \/ /\ Update(e, [NoExchange EXCEPT !.st = "done"])
              /\ Close(s) /\ UNCHANGED inflight
           \/ /\ \E st \in {"send", "wait"} :
                    /\ Update(e, [NoExchange EXCEPT !.st = st, !.timer = TRUE, !.sock = s])
                    /\ asked' = IF st = "wait" THEN asked \cup {<<e, s>>} ELSE asked
              /\ inflight' = inflight + 1 /\ UNCHANGED inbox

\* on_udp_readable: refused, dropped or answered locally, or forwarded.
OnUdpReadable ==
    /\ Take(Listener, "udp")
    /\ \/ Full /\ Refuse
       \/ ~Full /\ Stay
       \/ /\ ~Full /\ \E e \in Ids : ex[e].st = "none"
          /\ StartUdp(Fresh)
          /\ UNCHANGED dropped

\* One connection too many.
OnTcpAcceptLate ==
    /\ Take(Listener, "tcp")
    /\ \/ Full /\ Refuse
       \/ Stay
       \/ /\ inflight <= MaxConcurrent /\ \E e \in Ids : ex[e].st = "none"
          /\ Update(Fresh, [NoExchange EXCEPT !.st = "read", !.tcp = TRUE])
          /\ inflight' = inflight + 1
          /\ UNCHANGED <<dropped, netVars>>

OnTcpAccept ==
    /\ Take(Listener, "tcp")
    /\ \/ Full /\ Refuse
       \/ ~Full /\ Stay
       \/ /\ ~Full /\ \E e \in Ids : ex[e].st = "none"
          /\ Update(Fresh, [NoExchange EXCEPT !.st = "read", !.tcp = TRUE])
          /\ inflight' = inflight + 1
          /\ UNCHANGED <<dropped, netVars>>

\* The deadline is armed only when the request has been sent.
OnTcpClientReadNoTimer(e) ==
    /\ ex[e].st = "read"
    /\ Take(e, "client")
    /\ \/ Stay
       \/ Fail(e)
       \/ /\ \/ Update(e, [ex[e] EXCEPT !.st = "reply"])
             \/ Update(e, [ex[e] EXCEPT !.st = "send"])
          /\ UNCHANGED <<inflight, dropped, netVars>>

\* on_tcp_client_read: incomplete, an error or a request to be dropped, a
\* local answer, or start_upstream for TCP, which arms the deadline.
OnTcpClientRead(e) ==
    /\ ex[e].st = "read"
    /\ Take(e, "client")
    /\ \/ Stay
       \/ Fail(e)
       \/ /\ \/ Update(e, [ex[e] EXCEPT !.st = "reply"])
             \/ Update(e, [ex[e] EXCEPT !.st = "send", !.timer = TRUE])
          /\ UNCHANGED <<inflight, dropped, netVars>>

OnUpstreamWritable(e) ==
    /\ ex[e].st = "send"
    /\ Take(e, "upstream")
    /\ \/ Stay
       \/ Fail(e)
       \/ /\ Update(e, [ex[e] EXCEPT !.st = "wait"])
          /\ asked' = IF ex[e].tcp THEN asked ELSE asked \cup {<<e, ex[e].sock>>}
          /\ UNCHANGED <<inflight, dropped, pool, inbox>>

\* on_upstream and deliver_response: nothing complete yet, an error or an
\* answer that does not parse, the answer.  A datagram is taken from the
\* socket's buffer whosever question it answers.
OnUpstream(e) ==
    /\ ex[e].st = "wait"
    /\ Take(e, "upstream")
    /\ \/ Stay
       \/ Fail(e)
       \/ /\ ex[e].tcp
          /\ Update(e, [ex[e] EXCEPT !.st = "reply", !.got = e])
          /\ UNCHANGED <<inflight, dropped, netVars>>
       \/ /\ ~ex[e].tcp /\ inbox[ex[e].sock] # <<>>
          /\ LET box == inbox[ex[e].sock] IN Finish(e, TRUE, FALSE, Head(box), Tail(box))

\* on_client_writable: only a hang-up before there is an answer.
OnClientWritable(e) ==
    /\ ex[e].st \in {"send", "wait", "reply"}
    /\ Take(e, "client")
    /\ Fail(e) \/ (ex[e].st = "reply" /\ Stay)

\* A socket whose answer did not come goes back to the pool.
OnTimeoutPools(e) ==
    /\ e \in Live
    /\ Take(e, "timer")
    /\ Finish(e, TRUE, TRUE, ex[e].got, <<>>)

\* on_timeout forgets the timer's id, so exchange_finish does not delete it.
OnTimeout(e) ==
    /\ e \in Live
    /\ Take(e, "timer")
    /\ Finish(e, FALSE, TRUE, ex[e].got, <<>>)

-----------------------------------------------------------------------------
\* The upstream answers when it likes, or never; the network may repeat it.
Answer(q, s) ==
    /\ ~undefined
    /\ <<q, s>> \in asked
    /\ inbox' = [inbox EXCEPT ![s] = Append(@, q)]
    /\ \/ asked' = asked \ {<<q, s>>} /\ UNCHANGED dups
       \/ dups < MaxDups /\ dups' = dups + 1 /\ UNCHANGED asked
    /\ UNCHANGED <<ex, inflight, dropped, pool, batch, undefined>>

Dispatch ==
    \/ OnUdpReadable \/ OnTcpAccept
    \/ \E e \in Ids : \/ OnTcpClientRead(e) \/ OnUpstreamWritable(e) \/ OnUpstream(e)
                      \/ OnClientWritable(e) \/ OnTimeout(e)
    \/ DispatchFreed

Next == EpollWait \/ Dispatch \/ \E q, s \in Ids : Answer(q, s)

\* The loop goes on, and a deadline that has passed is reported in the end.
Spec ==
    /\ Init /\ [][Next]_vars
    /\ WF_vars(Dispatch)
    /\ \A e \in Ids : SF_vars(EpollWait /\ \E i \in 1 .. Len(batch') : batch'[i] = <<e, "timer">>)

-----------------------------------------------------------------------------
\* Properties.

\* The budget counts the live exchanges, no slot is lost or released twice,
\* and it is never exceeded.
InflightExact == inflight = Cardinality(Live) /\ inflight <= MaxConcurrent

\* Sockets are owned once: no two exchanges share one, none is in use and in
\* the pool, none is pooled twice.
SocketsOwned ==
    /\ \A e, f \in Live : e # f /\ ex[e].sock # 0 => ex[e].sock # ex[f].sock
    /\ \A e \in Live, i \in 1 .. Len(pool) : ex[e].sock # pool[i]
    /\ \A i, j \in 1 .. Len(pool) : i # j => pool[i] # pool[j]

\* An answer reaches the client that asked, although datagrams are not matched
\* with questions: a socket whose answer is late is closed, never pooled
\* (unless the network repeats an answer).
AnswersMatch == dups = 0 => \A e \in Ids : ex[e].got \in {0, e}

\* A request that was forwarded is over in the end, whatever upstream and
\* client do: every path out of start_upstream has a deadline.
ForwardedEnds ==
    \A e \in Ids : ex[e].st \in {"send", "wait"} ~> (ex[e].st = "done" \/ undefined)

-----------------------------------------------------------------------------
\* What the comments say.

\* exchange_finish: "Tear down: remove from loop, release slot, close fds."
\* (dns/proxy.c): no event is dispatched for an exchange that is over.
RemovedFromLoop == ~undefined
=============================================================================
