--------------------------- MODULE DnsProxyProofs ---------------------------
(***************************************************************************)
(* Proofs about DnsProxy, for every budget, pool size, number of exchanges *)
(* and size of a batch.  The argument: a socket is named after an exchange *)
(* that exists and has one owner, a live exchange or the pool (SocketInv); *)
(* as long as the network repeats nothing, an answer that is expected or   *)
(* has arrived on a socket is the one its owner waits for (AnswerInv), so  *)
(* the pool holds only sockets on which nothing can arrive any more.       *)
(***************************************************************************)
EXTENDS DnsProxy, FiniteSetTheorems, TLAPS

Kinds == {"udp", "tcp", "client", "upstream", "timer"}

SocketInv ==
    /\ \A e \in Ids : ex[e].st \in {"none", "done"} => ex[e].sock = 0
    /\ \A e \in Live : ex[e].sock = 0 <=> ex[e].tcp
    /\ \A e \in Ids : ex[e].sock # 0 => ex[ex[e].sock].st # "none"
    /\ \A i \in 1 .. Len(pool) : ex[pool[i]].st # "none"
    /\ SocketsOwned

AnswerInv ==
    dups = 0 =>
        /\ \A e \in Ids : ex[e].got \in {0, e}
        /\ \A q, s \in Ids : <<q, s>> \in asked =>
              ex[q].st = "wait" /\ ex[q].sock = s /\ inbox[s] = <<>>
        /\ \A s \in Ids : inbox[s] = <<>>
              \/ \E q \in Ids : /\ inbox[s] = <<q>>
                                /\ ex[q].st = "wait" /\ ex[q].sock = s
                                /\ <<q, s>> \notin asked

ProxyInv == TypeOK /\ InflightExact /\ SocketInv /\ AnswerInv

-----------------------------------------------------------------------------
\* The budget.

\* There are finitely many exchanges.
LEMMA LiveFinite == IsFiniteSet(Live) /\ Cardinality(Live) \in Nat
<1>1. IsFiniteSet(Ids)
  BY FS_Interval, ProxyAssumption DEF Ids
<1>2. Live \subseteq Ids
  BY DEF Live
<1> QED
  BY <1>1, <1>2, FS_Subset, FS_CardinalityType

\* The exchange that on_udp_readable or on_tcp_accept creates is a new one.
LEMMA FreshIsNew ==
    ASSUME \E e \in Ids : ex[e].st = "none"
    PROVE  Fresh \in Ids /\ ex[Fresh].st = "none"
  BY DEF Fresh

-----------------------------------------------------------------------------
\* The end of an exchange.

\* exchange_finish keeps every table well typed, whether the socket goes back
\* to the pool or is closed.
LEMMA FinishType ==
    ASSUME TypeOK, NEW e \in Ids, NEW pooled \in BOOLEAN, NEW timer \in BOOLEAN,
           NEW got \in 0 .. MaxExchanges, NEW left \in Seq(Ids), inflight > 0,
           Finish(e, pooled, timer, got, left)
    PROVE  /\ ex' \in [Ids -> Exchanges] /\ inflight' \in Nat /\ dropped' = dropped
           /\ pool' \in Seq(Ids) /\ Len(pool') <= MaxIdle
           /\ inbox' \in [Ids -> Seq(Ids)] /\ asked' \subseteq Ids \X Ids
<1>0. [ex[e] EXCEPT !.st = "done", !.timer = timer, !.sock = 0, !.got = got] \in Exchanges
  <2>1. 0 \in 0 .. MaxExchanges /\ "done" \in States
    BY ProxyAssumption DEF States
  <2>2. ex[e] \in Exchanges
    BY DEF TypeOK
  <2> QED
    BY ZenonT(30), <2>1, <2>2 DEF Exchanges
<1>1. ex' \in [Ids -> Exchanges]
  BY <1>0 DEF Finish, Update, TypeOK
<1>2. inflight' \in Nat /\ dropped' = dropped
  BY DEF Finish, TypeOK
<1>3. ex[e].sock \in 0 .. MaxExchanges
  BY DEF TypeOK, Exchanges
<1>4. ex[e].sock # 0 => ex[e].sock \in Ids
  BY <1>3 DEF Ids
<1>5. CASE UNCHANGED netVars
  BY <1>1, <1>2, <1>5 DEF netVars, TypeOK
<1>6. CASE /\ ex[e].sock # 0 /\ PoolHasRoom
           /\ pool' = Append(pool, ex[e].sock)
           /\ inbox' = [inbox EXCEPT ![ex[e].sock] = left] /\ asked' = asked
  <2>1. pool' \in Seq(Ids) /\ Len(pool') <= MaxIdle
    BY <1>4, <1>6, ProxyAssumption DEF PoolHasRoom, TypeOK
  <2>2. inbox' \in [Ids -> Seq(Ids)] /\ asked' \subseteq Ids \X Ids
    BY ZenonT(30), <1>6 DEF TypeOK
  <2> QED
    BY <1>1, <1>2, <2>1, <2>2
<1>7. CASE ex[e].sock # 0 /\ Close(ex[e].sock) /\ pool' = pool
  <2>1. <<>> \in Seq(Ids)
    OBVIOUS
  <2>2. inbox' \in [Ids -> Seq(Ids)] /\ asked' \subseteq Ids \X Ids
    BY ZenonT(30), <1>7, <2>1 DEF Close, TypeOK
  <2> QED
    BY <1>1, <1>2, <1>7, <2>2 DEF TypeOK
<1> QED
  BY <1>5, <1>6, <1>7 DEF Finish

\* It gives back exactly one slot.
LEMMA FinishCounts ==
    ASSUME TypeOK, InflightExact, NEW e \in Live, NEW pooled, NEW timer, NEW got, NEW left,
           Finish(e, pooled, timer, got, left)
    PROVE  InflightExact'
<1>1. e \in Ids /\ e \notin Live' /\ Live' = Live \ {e}
  BY DEF Live, Finish, Update, TypeOK, Exchanges
<1>2. Cardinality(Live') = Cardinality(Live) - 1
  BY <1>1, LiveFinite, FS_RemoveElement
<1> QED
  BY <1>2, LiveFinite, ProxyAssumption DEF InflightExact, Finish, TypeOK

\* What it does to the exchanges and to the socket.
LEMMA FinishEffect ==
    ASSUME TypeOK, NEW e \in Live, NEW pooled, NEW timer, NEW got, NEW left,
           Finish(e, pooled, timer, got, left)
    PROVE  /\ e \in Ids /\ ex'[e].st = "done" /\ ex'[e].sock = 0 /\ ex'[e].got = got
           /\ \A f \in Ids : f # e => ex'[f] = ex[f]
           /\ \A f \in Ids : ex'[f].st = "none" <=> ex[f].st = "none"
           /\ ex[e].sock # 0 => ex[e].sock \in Ids
           /\ \/ ex[e].sock = 0 /\ pool' = pool /\ inbox' = inbox /\ asked' = asked
              \/ /\ ex[e].sock # 0 /\ pooled
                 /\ pool' = Append(pool, ex[e].sock)
                 /\ inbox' = [inbox EXCEPT ![ex[e].sock] = left] /\ asked' = asked
              \/ /\ ex[e].sock # 0 /\ pool' = pool
                 /\ inbox' = [inbox EXCEPT ![ex[e].sock] = <<>>]
                 /\ asked' = {a \in asked : a[2] # ex[e].sock}
<1>1. e \in Ids /\ ex[e] \in Exchanges /\ ex[e].st # "none"
  BY DEF Live, TypeOK
<1>2. ex' = [ex EXCEPT ![e] = [ex[e] EXCEPT !.st = "done", !.timer = timer, !.sock = 0, !.got = got]]
  BY DEF Finish, Update
<1>3. ex'[e] = [ex[e] EXCEPT !.st = "done", !.timer = timer, !.sock = 0, !.got = got]
  BY <1>1, <1>2 DEF TypeOK
<1>4. ex'[e].st = "done" /\ ex'[e].sock = 0 /\ ex'[e].got = got
  BY <1>1, <1>3 DEF Exchanges
<1>5. \A f \in Ids : f # e => ex'[f] = ex[f]
  BY <1>1, <1>2 DEF TypeOK
<1>6. \A f \in Ids : ex'[f].st = "none" <=> ex[f].st = "none"
  BY <1>1, <1>4, <1>5
<1>7. ex[e].sock # 0 => ex[e].sock \in Ids
  BY <1>1 DEF Exchanges, Ids
<1>8. \/ ex[e].sock = 0 /\ pool' = pool /\ inbox' = inbox /\ asked' = asked
      \/ /\ ex[e].sock # 0 /\ pooled
         /\ pool' = Append(pool, ex[e].sock)
         /\ inbox' = [inbox EXCEPT ![ex[e].sock] = left] /\ asked' = asked
      \/ /\ ex[e].sock # 0 /\ pool' = pool
         /\ inbox' = [inbox EXCEPT ![ex[e].sock] = <<>>]
         /\ asked' = {a \in asked : a[2] # ex[e].sock}
  BY DEF Finish, netVars, Close
<1> QED
  BY <1>1, <1>4, <1>5, <1>6, <1>7, <1>8

\* The socket has one owner before and one, the pool, or none afterwards.
LEMMA FinishSockets ==
    ASSUME TypeOK, SocketInv, NEW e \in Live, NEW pooled, NEW timer, NEW got, NEW left,
           Finish(e, pooled, timer, got, left)
    PROVE  SocketInv'
<1> DEFINE s == ex[e].sock
<1>1. /\ e \in Ids /\ ex'[e].st = "done" /\ ex'[e].sock = 0
      /\ \A f \in Ids : f # e => ex'[f] = ex[f]
      /\ \A f \in Ids : ex'[f].st = "none" <=> ex[f].st = "none"
      /\ s # 0 => s \in Ids
  BY FinishEffect
<1>2. \A f \in Ids : ex[f].sock \in 0 .. MaxExchanges
  BY DEF TypeOK, Exchanges
<1>3. \A f \in Ids : ex[f].sock # 0 => ex[f].sock \in Ids
  BY <1>2 DEF Ids
<1>4. Live' = Live \ {e}
  BY <1>1 DEF Live
<1>5. /\ \A f \in Ids : ex'[f].st \in {"none", "done"} => ex'[f].sock = 0
      /\ \A f \in Live' : ex'[f].sock = 0 <=> ex'[f].tcp
      /\ \A f \in Ids : ex'[f].sock # 0 => ex'[ex'[f].sock].st # "none"
  <2>1. \A f \in Ids : ex'[f].st \in {"none", "done"} => ex'[f].sock = 0
    BY <1>1 DEF SocketInv
  <2>2. \A f \in Live' : ex'[f].sock = 0 <=> ex'[f].tcp
    BY <1>1, <1>4 DEF SocketInv, Live
  <2>3. \A f \in Ids : ex'[f].sock # 0 => ex'[ex'[f].sock].st # "none"
    BY <1>1, <1>3 DEF SocketInv
  <2> QED
    BY <2>1, <2>2, <2>3
<1>6. \A f, g \in Live' : f # g /\ ex'[f].sock # 0 => ex'[f].sock # ex'[g].sock
  BY <1>1, <1>4 DEF SocketInv, SocketsOwned, Live
<1>7. CASE pool' = pool
  <2>0. \A i \in 1 .. Len(pool) : pool[i] \in Ids
    BY DEF TypeOK
  <2>1. \A i \in 1 .. Len(pool') : pool'[i] \in Ids /\ ex'[pool'[i]].st # "none"
    BY <1>1, <1>7, <2>0 DEF SocketInv
  <2>2. \A f \in Live', i \in 1 .. Len(pool') : ex'[f].sock # pool'[i]
    BY <1>1, <1>4, <1>7 DEF SocketInv, SocketsOwned, Live
  <2> QED
    BY <1>5, <1>6, <1>7, <2>1, <2>2 DEF SocketInv, SocketsOwned
<1>8. CASE s # 0 /\ pool' = Append(pool, s)
  <2>0. Len(pool) \in Nat /\ pool \in Seq(Ids)
    BY DEF TypeOK
  <2>1. /\ Len(pool') = Len(pool) + 1
        /\ pool'[Len(pool) + 1] = s
        /\ \A i \in 1 .. Len(pool) : pool'[i] = pool[i] /\ pool[i] \in Ids
    BY <1>8, <2>0
  <2>2. \A i \in 1 .. Len(pool') : i \in 1 .. Len(pool) \/ i = Len(pool) + 1
    BY <2>0, <2>1
  <2>3. ex[s].st # "none"
    BY <1>1, <1>8 DEF SocketInv
  <2>4. \A i \in 1 .. Len(pool') : ex'[pool'[i]].st # "none"
    BY <1>1, <1>8, <2>1, <2>2, <2>3 DEF SocketInv
  <2>5. \A f \in Live' : ex'[f].sock = ex[f].sock /\ ex[f].sock # s /\ f \in Live
    BY <1>1, <1>4, <1>8 DEF SocketInv, SocketsOwned, Live
  <2>6. \A f \in Live', i \in 1 .. Len(pool') : ex'[f].sock # pool'[i]
    BY <2>1, <2>2, <2>5 DEF SocketInv, SocketsOwned
  <2>7. \A i \in 1 .. Len(pool) : pool[i] # s
    BY DEF SocketInv, SocketsOwned
  <2>8. \A i, j \in 1 .. Len(pool') : i # j => pool'[i] # pool'[j]
    BY <2>1, <2>2, <2>7 DEF SocketInv, SocketsOwned
  <2> QED
    BY <1>5, <1>6, <2>4, <2>6, <2>8 DEF SocketInv, SocketsOwned
<1> QED
  BY <1>7, <1>8, FinishEffect

\* An answer that was delivered is the owner's, and the pool gets only sockets
\* on which nothing more can arrive.
LEMMA FinishAnswers ==
    ASSUME TypeOK, SocketInv, AnswerInv, NEW e \in Live, NEW pooled, NEW timer, NEW got, NEW left,
           Finish(e, pooled, timer, got, left), dups' = dups,
           \/ pooled = FALSE /\ got = ex[e].got
           \/ /\ ex[e].sock # 0 /\ inbox[ex[e].sock] # <<>>
              /\ got = Head(inbox[ex[e].sock]) /\ left = Tail(inbox[ex[e].sock])
    PROVE  AnswerInv'
<1> SUFFICES ASSUME dups = 0
             PROVE  /\ \A f \in Ids : ex'[f].got \in {0, f}
                    /\ \A q, t \in Ids : <<q, t>> \in asked' =>
                          ex'[q].st = "wait" /\ ex'[q].sock = t /\ inbox'[t] = <<>>
                    /\ \A t \in Ids : inbox'[t] = <<>>
                          \/ \E q \in Ids : /\ inbox'[t] = <<q>>
                                            /\ ex'[q].st = "wait" /\ ex'[q].sock = t
                                            /\ <<q, t>> \notin asked'
  BY DEF AnswerInv
<1> DEFINE s == ex[e].sock
<1>1. /\ e \in Ids /\ ex'[e].got = got
      /\ \A f \in Ids : f # e => ex'[f] = ex[f]
      /\ s # 0 => s \in Ids
  BY FinishEffect
<1>2. /\ \A q, t \in Ids : <<q, t>> \in asked => ex[q].st = "wait" /\ ex[q].sock = t /\ inbox[t] = <<>>
      /\ \A t \in Ids : inbox[t] = <<>> \/ \E q \in Ids : /\ inbox[t] = <<q>>
                              /\ ex[q].st = "wait" /\ ex[q].sock = t /\ <<q, t>> \notin asked
      /\ \A f \in Ids : ex[f].got \in {0, f}
  BY ZenonT(30) DEF AnswerInv
<1>3. \A q \in Ids : ex[q].st = "wait" /\ ex[q].sock = s /\ s # 0 => q = e
  BY DEF SocketInv, SocketsOwned, Live
<1>4. s # 0 /\ inbox[s] # <<>> => Head(inbox[s]) = e /\ Tail(inbox[s]) = <<>>
  <2> SUFFICES ASSUME s # 0, inbox[s] # <<>>
               PROVE  Head(inbox[s]) = e /\ Tail(inbox[s]) = <<>>
    OBVIOUS
  <2>1. PICK q \in Ids : inbox[s] = <<q>> /\ ex[q].st = "wait" /\ ex[q].sock = s
    BY ZenonT(30), <1>1, <1>2
  <2>2. q = e
    BY <1>3, <2>1
  <2>3. Head(<<q>>) = q /\ Tail(<<q>>) = <<>>
    OBVIOUS
  <2> QED
    BY <2>1, <2>2, <2>3
<1>5. \A f \in Ids : ex'[f].got \in {0, f}
  BY <1>1, <1>2, <1>4
<1>6. \A t \in Ids : t # s => \A q \in Ids : ex[q].sock = t => ex'[q] = ex[q]
  BY <1>1
<1>7. CASE s = 0 /\ inbox' = inbox /\ asked' = asked
  <2>1. \A q, t \in Ids : ex[q].sock = t => ex'[q] = ex[q]
    BY <1>6, <1>7 DEF Ids
  <2> QED
    BY <1>2, <1>5, <1>7, <2>1
<1>8. CASE /\ s # 0 /\ inbox'[s] = <<>>
           /\ \A t \in Ids : t # s => inbox'[t] = inbox[t]
           /\ \A q, t \in Ids : <<q, t>> \in asked' <=> <<q, t>> \in asked /\ t # s
  <2>1. ASSUME NEW q \in Ids, NEW t \in Ids, <<q, t>> \in asked'
        PROVE  ex'[q].st = "wait" /\ ex'[q].sock = t /\ inbox'[t] = <<>>
    <3>1. t # s /\ ex[q].st = "wait" /\ ex[q].sock = t /\ inbox[t] = <<>>
      BY <1>2, <1>8, <2>1
    <3> QED
      BY <1>6, <1>8, <3>1
  <2>2. ASSUME NEW t \in Ids, inbox'[t] # <<>>
        PROVE  \E q \in Ids : /\ inbox'[t] = <<q>> /\ ex'[q].st = "wait" /\ ex'[q].sock = t
                              /\ <<q, t>> \notin asked'
    <3>1. t # s /\ inbox'[t] = inbox[t]
      BY <1>8, <2>2
    <3>2. PICK q \in Ids : /\ inbox[t] = <<q>> /\ ex[q].st = "wait" /\ ex[q].sock = t
                           /\ <<q, t>> \notin asked
      BY ZenonT(30), <1>2, <2>2, <3>1
    <3> QED
      BY <1>6, <1>8, <3>1, <3>2
  <2> QED
    BY ZenonT(30), <1>5, <2>1, <2>2
<1>9. CASE /\ s # 0 /\ pooled
           /\ inbox' = [inbox EXCEPT ![s] = left] /\ asked' = asked
  <2>1. inbox[s] # <<>> /\ left = <<>>
    BY <1>4, <1>9
  <2>2. inbox'[s] = <<>> /\ \A t \in Ids : t # s => inbox'[t] = inbox[t]
    BY <1>1, <1>9, <2>1 DEF TypeOK
  <2>3. \A q \in Ids : <<q, s>> \notin asked
    BY <1>1, <1>2, <1>9, <2>1
  <2> QED
    BY ZenonT(30), <1>8, <1>9, <2>2, <2>3
<1>10. CASE /\ s # 0
            /\ inbox' = [inbox EXCEPT ![s] = <<>>]
            /\ asked' = {a \in asked : a[2] # s}
  <2>1. inbox'[s] = <<>> /\ \A t \in Ids : t # s => inbox'[t] = inbox[t]
    BY <1>1, <1>10 DEF TypeOK
  <2>2. \A q, t \in Ids : <<q, t>> \in asked' <=> <<q, t>> \in asked /\ t # s
    BY <1>10
  <2> QED
    BY <1>8, <1>10, <2>1, <2>2
<1>11. \/ s = 0 /\ inbox' = inbox /\ asked' = asked
       \/ s # 0 /\ pooled /\ inbox' = [inbox EXCEPT ![s] = left] /\ asked' = asked
       \/ s # 0 /\ inbox' = [inbox EXCEPT ![s] = <<>>] /\ asked' = {a \in asked : a[2] # s}
  BY FinishEffect
<1> QED
  BY ZenonT(30), <1>7, <1>9, <1>10, <1>11

-----------------------------------------------------------------------------
\* The start of an exchange.

\* The socket that start_upstream takes, pooled or new, has no other owner and
\* leaves the pool.
LEMMA SocketTaken ==
    ASSUME TypeOK, SocketInv, NEW e \in Ids, ex[e].st = "none", StartUdp(e)
    PROVE  LET s == IF pool = <<>> THEN e ELSE pool[Len(pool)]
           IN  /\ s \in Ids /\ (s = e \/ ex[s].st # "none")
               /\ \A f \in Ids : ex[f].sock # s
               /\ pool' \in Seq(Ids) /\ Len(pool') <= Len(pool)
               /\ \A i \in 1 .. Len(pool') : /\ i \in 1 .. Len(pool) /\ pool'[i] = pool[i]
                                             /\ pool'[i] # s /\ pool'[i] \in Ids
<1> DEFINE s == IF pool = <<>> THEN e ELSE pool[Len(pool)]
<1>0. pool \in Seq(Ids) /\ Len(pool) \in Nat /\ 0 \notin Ids
  BY DEF TypeOK, Ids
<1>1. CASE pool = <<>>
  <2>1. pool' = <<>> /\ s = e
    BY <1>1 DEF StartUdp
  <2>2. \A f \in Ids : ex[f].sock # s
    BY <1>0, <2>1 DEF SocketInv
  <2> QED
    BY <1>0, <1>1, <2>1, <2>2
<1>2. CASE pool # <<>>
  <2>1. s = pool[Len(pool)] /\ pool' = SubSeq(pool, 1, Len(pool) - 1)
    BY <1>2 DEF StartUdp
  <2>2. Len(pool) \in 1 .. Len(pool)
    BY <1>0, <1>2
  <2>3. s \in Ids /\ ex[s].st # "none"
    BY <1>0, <2>1, <2>2 DEF SocketInv
  <2>4. \A f \in Ids : ex[f].sock # s
    <3>1. \A f \in Live : ex[f].sock # s
      BY <2>1, <2>2 DEF SocketInv, SocketsOwned
    <3>2. \A f \in Ids : f \notin Live => ex[f].sock = 0
      BY DEF SocketInv, Live
    <3> QED
      BY <1>0, <2>3, <3>1, <3>2
  <2>5. pool' \in Seq(Ids) /\ Len(pool') = Len(pool) - 1
    <3>1. /\ 1 \in Int /\ Len(pool) - 1 \in Int
          /\ \A i \in 1 .. Len(pool) - 1 : pool[i] \in Ids
      BY <1>0
    <3>2. /\ pool' \in Seq(Ids)
          /\ Len(pool') = IF 1 <= Len(pool) - 1 THEN Len(pool) - 1 - 1 + 1 ELSE 0
      BY <1>0, <2>1, <2>2, <3>1
    <3>3. \A n \in Nat : n \in 1 .. n =>
             (IF 1 <= n - 1 THEN n - 1 - 1 + 1 ELSE 0) = n - 1
      OBVIOUS
    <3> QED
      BY ZenonT(30), <1>0, <2>2, <3>2, <3>3
  <2>6. \A i \in 1 .. Len(pool') : /\ i \in 1 .. Len(pool) /\ i # Len(pool)
                                   /\ pool'[i] = pool[i] /\ pool'[i] \in Ids
    BY <1>0, <2>1, <2>2, <2>5
  <2>7. \A i \in 1 .. Len(pool') : pool'[i] # s
    BY <2>1, <2>2, <2>6 DEF SocketInv, SocketsOwned
  <2>8. Len(pool') <= Len(pool)
    BY <1>0, <2>5
  <2> QED
    BY <2>3, <2>4, <2>5, <2>6, <2>7, <2>8
<1> QED
  BY <1>1, <1>2

\* A new exchange keeps the types, the budget, and the owners of sockets.
LEMMA StartUdpType ==
    ASSUME TypeOK, SocketInv, NEW e \in Ids, ex[e].st = "none", StartUdp(e)
    PROVE  /\ ex' \in [Ids -> Exchanges] /\ inflight' \in Nat
           /\ pool' \in Seq(Ids) /\ Len(pool') <= MaxIdle
           /\ inbox' \in [Ids -> Seq(Ids)] /\ asked' \subseteq Ids \X Ids
<1> DEFINE s == IF pool = <<>> THEN e ELSE pool[Len(pool)]
<1>1. s \in Ids /\ pool' \in Seq(Ids) /\ Len(pool') <= Len(pool)
  BY SocketTaken
<1>2. Len(pool') <= MaxIdle
  BY <1>1, ProxyAssumption DEF TypeOK
<1>3. NoExchange \in Exchanges /\ s \in 0 .. MaxExchanges
  BY <1>1, ProxyAssumption DEF NoExchange, Exchanges, States, Ids
<1>4. CASE /\ Update(e, [NoExchange EXCEPT !.st = "done"]) /\ Close(s) /\ UNCHANGED inflight
  <2>1. [NoExchange EXCEPT !.st = "done"] \in Exchanges
    BY <1>3 DEF Exchanges, States
  <2>2. <<>> \in Seq(Ids)
    OBVIOUS
  <2>3. ex' \in [Ids -> Exchanges]
    BY <1>4, <2>1 DEF Update, TypeOK
  <2>4. inbox' \in [Ids -> Seq(Ids)] /\ asked' \subseteq Ids \X Ids
    BY ZenonT(30), <1>4, <2>2 DEF Close, TypeOK
  <2> QED
    BY <1>1, <1>2, <1>4, <2>3, <2>4 DEF TypeOK
<1>5. ASSUME NEW st \in {"send", "wait"},
             Update(e, [NoExchange EXCEPT !.st = st, !.timer = TRUE, !.sock = s]),
             asked' = IF st = "wait" THEN asked \cup {<<e, s>>} ELSE asked,
             inflight' = inflight + 1, UNCHANGED inbox
      PROVE  /\ ex' \in [Ids -> Exchanges] /\ inflight' \in Nat
             /\ inbox' \in [Ids -> Seq(Ids)] /\ asked' \subseteq Ids \X Ids
  <2>1. [NoExchange EXCEPT !.st = st, !.timer = TRUE, !.sock = s] \in Exchanges
    BY ZenonT(30), <1>3 DEF Exchanges, States
  <2>2. ex' \in [Ids -> Exchanges]
    BY <1>5, <2>1 DEF Update, TypeOK
  <2>3. asked' \subseteq Ids \X Ids
    BY <1>1, <1>5 DEF TypeOK
  <2> QED
    BY <1>5, <2>2, <2>3 DEF TypeOK
<1> QED
  BY <1>1, <1>2, <1>4, <1>5 DEF StartUdp

\* What start_upstream does to the exchanges: the new one is over at once, or
\* it owns the socket.
LEMMA StartUdpEffect ==
    ASSUME TypeOK, SocketInv, NEW e \in Ids, ex[e].st = "none", StartUdp(e)
    PROVE  LET s == IF pool = <<>> THEN e ELSE pool[Len(pool)]
           IN  /\ \A f \in Ids : f # e => ex'[f] = ex[f]
               /\ ex'[e].got = 0 /\ ex'[e].tcp = FALSE
               /\ \/ /\ ex'[e].st = "done" /\ ex'[e].sock = 0
                     /\ inflight' = inflight /\ Close(s)
                  \/ /\ ex'[e].st \in {"send", "wait"} /\ ex'[e].sock = s
                     /\ inflight' = inflight + 1 /\ inbox' = inbox
                     /\ asked' = IF ex'[e].st = "wait" THEN asked \cup {<<e, s>>} ELSE asked
<1> DEFINE s == IF pool = <<>> THEN e ELSE pool[Len(pool)]
<1>1. CASE Update(e, [NoExchange EXCEPT !.st = "done"]) /\ Close(s) /\ UNCHANGED inflight
  <2>1. ex'[e] = [NoExchange EXCEPT !.st = "done"] /\ \A f \in Ids : f # e => ex'[f] = ex[f]
    BY <1>1 DEF Update, TypeOK
  <2>2. ex'[e].st = "done" /\ ex'[e].sock = 0 /\ ex'[e].got = 0 /\ ex'[e].tcp = FALSE
    BY <2>1 DEF NoExchange
  <2> QED
    BY <1>1, <2>1, <2>2
<1>2. ASSUME NEW st \in {"send", "wait"},
             Update(e, [NoExchange EXCEPT !.st = st, !.timer = TRUE, !.sock = s])
      PROVE  /\ \A f \in Ids : f # e => ex'[f] = ex[f]
             /\ ex'[e].got = 0 /\ ex'[e].tcp = FALSE /\ ex'[e].st = st /\ ex'[e].sock = s
  <2>1. ex'[e] = [NoExchange EXCEPT !.st = st, !.timer = TRUE, !.sock = s]
    BY <1>2 DEF Update, TypeOK
  <2>2. \A f \in Ids : f # e => ex'[f] = ex[f]
    BY <1>2 DEF Update, TypeOK
  <2> QED
    BY <2>1, <2>2 DEF NoExchange
<1>3. \/ Update(e, [NoExchange EXCEPT !.st = "done"]) /\ Close(s) /\ UNCHANGED inflight
      \/ \E st \in {"send", "wait"} :
            /\ Update(e, [NoExchange EXCEPT !.st = st, !.timer = TRUE, !.sock = s])
            /\ asked' = IF st = "wait" THEN asked \cup {<<e, s>>} ELSE asked
            /\ inflight' = inflight + 1 /\ inbox' = inbox
  BY DEF StartUdp
<1> QED
  BY ZenonT(30), <1>1, <1>2, <1>3

\* A slot is taken exactly when the exchange lives on.
LEMMA StartUdpCounts ==
    ASSUME TypeOK, InflightExact, SocketInv, ~Full, NEW e \in Ids, ex[e].st = "none", StartUdp(e)
    PROVE  InflightExact'
<1>1. e \notin Live /\ \A f \in Ids : f # e => ex'[f] = ex[f]
  BY ZenonT(30), StartUdpEffect DEF Live
<1>2. CASE ex'[e].st = "done" /\ inflight' = inflight
  <2>1. Live' = Live
    BY <1>1, <1>2 DEF Live
  <2> QED
    BY <1>2, <2>1 DEF InflightExact
<1>3. CASE ex'[e].st \in {"send", "wait"} /\ inflight' = inflight + 1
  <2>1. Live' = Live \cup {e}
    BY <1>1, <1>3 DEF Live
  <2>2. Cardinality(Live') = Cardinality(Live) + 1
    BY ZenonT(30), <1>1, <2>1, LiveFinite, FS_AddElement
  <2> QED
    BY <1>3, <2>2, LiveFinite, ProxyAssumption DEF InflightExact, Full, TypeOK
<1> QED
  BY ZenonT(30), <1>2, <1>3, StartUdpEffect

\* The socket of the new exchange has no other owner.
LEMMA StartUdpSockets ==
    ASSUME TypeOK, SocketInv, NEW e \in Ids, ex[e].st = "none", StartUdp(e)
    PROVE  SocketInv'
<1> DEFINE s == IF pool = <<>> THEN e ELSE pool[Len(pool)]
<1>1. /\ s \in Ids /\ (s = e \/ ex[s].st # "none")
      /\ \A f \in Ids : ex[f].sock # s
      /\ \A i \in 1 .. Len(pool') : /\ i \in 1 .. Len(pool) /\ pool'[i] = pool[i]
                                    /\ pool'[i] # s /\ pool'[i] \in Ids
  BY SocketTaken
<1>2. /\ \A f \in Ids : f # e => ex'[f] = ex[f]
      /\ ex'[e].tcp = FALSE /\ ex'[e].st # "none"
      /\ \/ ex'[e].st = "done" /\ ex'[e].sock = 0
         \/ ex'[e].st \notin {"none", "done"} /\ ex'[e].sock = s
  BY ZenonT(30), StartUdpEffect
<1>3. e \notin Live /\ Live' \subseteq Live \cup {e} /\ s # 0 /\ Live \subseteq Ids
  BY <1>1, <1>2 DEF Live, Ids
<1>4. \A f \in Ids : ex[f].sock # 0 => ex[f].sock \in Ids
  BY DEF TypeOK, Exchanges, Ids
<1>5. \A f \in Ids : ex[f].st # "none" => ex'[f].st # "none"
  BY <1>2
<1>6. \A f \in Ids : ex'[f].st \in {"none", "done"} => ex'[f].sock = 0
  BY <1>2 DEF SocketInv
<1>7. \A f \in Live' : ex'[f].sock = 0 <=> ex'[f].tcp
  <2>1. ASSUME e \in Live' PROVE ex'[e].sock # 0
    BY <1>2, <1>3, <2>1 DEF Live
  <2> QED
    BY <1>2, <1>3, <2>1 DEF SocketInv
<1>8. \A f \in Ids : ex'[f].sock # 0 => ex'[ex'[f].sock].st # "none"
  BY <1>1, <1>2, <1>4, <1>5 DEF SocketInv
<1>9. \A i \in 1 .. Len(pool') : ex'[pool'[i]].st # "none"
  BY <1>1, <1>5 DEF SocketInv
<1>10. \A f, g \in Live' : f # g /\ ex'[f].sock # 0 => ex'[f].sock # ex'[g].sock
  BY <1>1, <1>2, <1>3 DEF SocketInv, SocketsOwned
<1>11. \A f \in Live', i \in 1 .. Len(pool') : ex'[f].sock # pool'[i]
  <2>1. \A i \in 1 .. Len(pool') : pool'[i] # 0
    BY <1>1 DEF Ids
  <2> QED
    BY <1>1, <1>2, <1>3, <2>1 DEF SocketInv, SocketsOwned
<1>12. \A i, j \in 1 .. Len(pool') : i # j => pool'[i] # pool'[j]
  BY <1>1 DEF SocketInv, SocketsOwned
<1> QED
  BY <1>6, <1>7, <1>8, <1>9, <1>10, <1>11, <1>12 DEF SocketInv, SocketsOwned

\* A socket without an owner has nothing in its buffer and expects nothing.
LEMMA UnownedIsQuiet ==
    ASSUME AnswerInv, dups = 0, NEW s \in Ids,
           \A q \in Ids : ex[q].st = "wait" => ex[q].sock # s
    PROVE  inbox[s] = <<>> /\ \A q \in Ids : <<q, s>> \notin asked
  BY ZenonT(30) DEF AnswerInv

\* Nothing is on its way to the socket of the new exchange but its own answer.
LEMMA StartUdpAnswers ==
    ASSUME TypeOK, SocketInv, AnswerInv, NEW e \in Ids, ex[e].st = "none", StartUdp(e), dups' = dups
    PROVE  AnswerInv'
<1> SUFFICES ASSUME dups = 0
             PROVE  /\ \A f \in Ids : ex'[f].got \in {0, f}
                    /\ \A q, t \in Ids : <<q, t>> \in asked' =>
                          ex'[q].st = "wait" /\ ex'[q].sock = t /\ inbox'[t] = <<>>
                    /\ \A t \in Ids : inbox'[t] = <<>>
                          \/ \E q \in Ids : /\ inbox'[t] = <<q>>
                                            /\ ex'[q].st = "wait" /\ ex'[q].sock = t
                                            /\ <<q, t>> \notin asked'
  BY ZenonT(30) DEF AnswerInv
<1> DEFINE s == IF pool = <<>> THEN e ELSE pool[Len(pool)]
<1>1. s \in Ids /\ \A f \in Ids : ex[f].sock # s
  BY SocketTaken
<1>2. inbox[s] = <<>> /\ \A q \in Ids : <<q, s>> \notin asked
  BY <1>1, UnownedIsQuiet
<1>3. (\A f \in Ids : f # e => ex'[f] = ex[f]) /\ ex'[e].got = 0
  BY ZenonT(30), StartUdpEffect
<1>4. /\ \A q, t \in Ids : <<q, t>> \in asked =>
            q # e /\ ex'[q].st = "wait" /\ ex'[q].sock = t /\ inbox[t] = <<>>
      /\ \A t \in Ids : inbox[t] = <<>>
            \/ \E q \in Ids : /\ inbox[t] = <<q>> /\ q # e
                              /\ ex'[q].st = "wait" /\ ex'[q].sock = t
                              /\ <<q, t>> \notin asked
  <2>1. \A q \in Ids : ex[q].st = "wait" => q # e /\ ex'[q] = ex[q]
    BY <1>3
  <2>2. \A t \in Ids : inbox[t] = <<>>
            \/ \E q \in Ids : /\ inbox[t] = <<q>>
                              /\ ex[q].st = "wait" /\ ex[q].sock = t
                              /\ <<q, t>> \notin asked
    BY ZenonT(30) DEF AnswerInv
  <2>3. \A q, t \in Ids : <<q, t>> \in asked =>
            ex[q].st = "wait" /\ ex[q].sock = t /\ inbox[t] = <<>>
    BY DEF AnswerInv
  <2>4. ASSUME NEW t \in Ids, inbox[t] # <<>>
        PROVE  \E q \in Ids : /\ inbox[t] = <<q>> /\ q # e
                              /\ ex'[q].st = "wait" /\ ex'[q].sock = t
                              /\ <<q, t>> \notin asked
    <3>1. PICK q \in Ids : /\ inbox[t] = <<q>> /\ ex[q].st = "wait" /\ ex[q].sock = t
                           /\ <<q, t>> \notin asked
      BY ZenonT(30), <2>2, <2>4
    <3> QED
      BY <2>1, <3>1
  <2>5. ASSUME NEW q \in Ids, NEW t \in Ids, <<q, t>> \in asked
        PROVE  q # e /\ ex'[q].st = "wait" /\ ex'[q].sock = t /\ inbox[t] = <<>>
    BY <2>1, <2>3, <2>5
  <2> QED
    BY ZenonT(30), <2>4, <2>5
<1>5. \A f \in Ids : ex'[f].got \in {0, f}
  BY <1>3 DEF AnswerInv
<1>6. CASE Close(s)
  <2>1. inbox'[s] = <<>> /\ \A t \in Ids : t # s => inbox'[t] = inbox[t]
    BY <1>1, <1>6 DEF Close, TypeOK
  <2>2. inbox' = inbox
    BY <1>1, <1>2, <1>6 DEF Close, TypeOK
  <2>3. \A q, t \in Ids : <<q, t>> \in asked' <=> <<q, t>> \in asked
    <3> HIDE DEF s
    <3> QED
      BY <1>2, <1>6 DEF Close
  <2>4. ASSUME NEW t \in Ids, inbox'[t] # <<>>
        PROVE  \E q \in Ids : /\ inbox'[t] = <<q>> /\ ex'[q].st = "wait" /\ ex'[q].sock = t
                              /\ <<q, t>> \notin asked'
    <3>1. PICK q \in Ids : /\ inbox[t] = <<q>> /\ ex'[q].st = "wait" /\ ex'[q].sock = t
                           /\ <<q, t>> \notin asked
      BY ZenonT(30), <1>4, <2>2, <2>4
    <3> QED
      BY <2>2, <2>3, <3>1
  <2>5. ASSUME NEW q \in Ids, NEW t \in Ids, <<q, t>> \in asked'
        PROVE  ex'[q].st = "wait" /\ ex'[q].sock = t /\ inbox'[t] = <<>>
    BY <1>4, <2>2, <2>3, <2>5
  <2> QED
    BY ZenonT(30), <1>5, <2>4, <2>5
<1>7. CASE /\ ex'[e].st = "wait" /\ ex'[e].sock = s /\ inbox' = inbox
           /\ asked' = asked \cup {<<e, s>>}
  <2>1. \A q, t \in Ids : <<q, t>> \in asked' <=> <<q, t>> \in asked \/ (q = e /\ t = s)
    BY <1>7
  <2> QED
    BY ZenonT(30), <1>2, <1>4, <1>5, <1>7, <2>1
<1>8. CASE ex'[e].st = "send" /\ inbox' = inbox /\ asked' = asked
  BY <1>4, <1>5, <1>8
<1> QED
  BY ZenonT(30), <1>6, <1>7, <1>8, StartUdpEffect

\* on_tcp_accept: the connection takes a slot and no UDP socket.
LEMMA AcceptInv ==
    ASSUME TypeOK, InflightExact, SocketInv, AnswerInv, ~Full,
           NEW e \in Ids, ex[e].st = "none",
           Update(e, [NoExchange EXCEPT !.st = "read", !.tcp = TRUE]),
           inflight' = inflight + 1, UNCHANGED netVars, dups' = dups
    PROVE  /\ ex' \in [Ids -> Exchanges] /\ inflight' \in Nat
           /\ InflightExact' /\ SocketInv' /\ AnswerInv'
<1> DEFINE r == [NoExchange EXCEPT !.st = "read", !.tcp = TRUE]
<1>1. r \in Exchanges /\ r.st = "read" /\ r.tcp = TRUE /\ r.sock = 0 /\ r.got = 0
  <2>1. NoExchange \in Exchanges
    BY ProxyAssumption DEF NoExchange, Exchanges, States
  <2>2. r \in Exchanges
    BY ZenonT(30), <2>1 DEF Exchanges, States
  <2>3. r.st = "read" /\ r.sock = 0 /\ r.got = 0
    BY DEF NoExchange
  <2>4. r.tcp = TRUE
    BY DEF NoExchange
  <2> QED
    BY <2>2, <2>3, <2>4
<1> HIDE DEF r
<1>2. ex' \in [Ids -> Exchanges] /\ ex'[e] = r /\ \A f \in Ids : f # e => ex'[f] = ex[f]
  BY <1>1 DEF Update, TypeOK, r
<1>3. e \notin Live /\ Live' = Live \cup {e} /\ Live \subseteq Ids
  BY <1>1, <1>2 DEF Live
<1>4. InflightExact' /\ inflight' \in Nat
  <2>1. Cardinality(Live') = Cardinality(Live) + 1
    BY <1>3, LiveFinite, FS_AddElement
  <2> QED
    BY <2>1, LiveFinite, ProxyAssumption DEF InflightExact, Full, TypeOK
<1>5. SocketInv'
  <2>1. \A f \in Ids : ex'[f].st \in {"none", "done"} => ex'[f].sock = 0
    BY <1>1, <1>2 DEF SocketInv
  <2>2. \A f \in Live' : ex'[f].sock = 0 <=> ex'[f].tcp
    BY <1>1, <1>2, <1>3 DEF SocketInv
  <2>3. \A f \in Ids : ex[f].sock # 0 => ex[f].sock \in Ids
    BY DEF TypeOK, Exchanges, Ids
  <2>4. \A f \in Ids : ex'[f].sock # 0 => ex'[ex'[f].sock].st # "none"
    BY <1>1, <1>2, <2>3 DEF SocketInv
  <2>5. pool' = pool /\ \A i \in 1 .. Len(pool) : pool[i] \in Ids /\ pool[i] # 0
    <3>1. pool' = pool /\ 0 \notin Ids
      BY DEF netVars, Ids
    <3>2. \A i \in 1 .. Len(pool) : pool[i] \in Ids
      BY DEF TypeOK
    <3> QED
      BY <3>1, <3>2
  <2>6. \A i \in 1 .. Len(pool) : ex'[pool[i]].st # "none"
    BY <1>1, <1>2, <2>5 DEF SocketInv
  <2>7. \A f, g \in Live' : f # g /\ ex'[f].sock # 0 => ex'[f].sock # ex'[g].sock
    BY <1>1, <1>2, <1>3 DEF SocketInv, SocketsOwned
  <2>8. \A f \in Live', i \in 1 .. Len(pool) : ex'[f].sock # pool[i]
    BY <1>1, <1>2, <1>3, <2>5 DEF SocketInv, SocketsOwned
  <2> QED
    BY <2>1, <2>2, <2>4, <2>5, <2>6, <2>7, <2>8 DEF SocketInv, SocketsOwned
<1>6. AnswerInv'
  <2>1. inbox' = inbox /\ asked' = asked
    BY DEF netVars
  <2>2. \A q \in Ids : ex[q].st = "wait" => ex'[q] = ex[q]
    BY <1>2
  <2>3. \A f \in Ids : ex'[f].got = ex[f].got \/ ex'[f].got = 0
    BY <1>1, <1>2
  <2> QED
    BY <2>1, <2>2, <2>3 DEF AnswerInv
<1> QED
  BY <1>2, <1>4, <1>5, <1>6

-----------------------------------------------------------------------------
\* An exchange that goes on.

\* A live exchange that changes its state keeps its slot and its socket.
LEMMA MoveInv ==
    ASSUME TypeOK, InflightExact, SocketInv, NEW e \in Live, NEW r \in Exchanges, Update(e, r),
           r.st \notin {"none", "done"}, r.tcp = ex[e].tcp, r.sock = ex[e].sock,
           inflight' = inflight, pool' = pool
    PROVE  /\ e \in Ids /\ ex' \in [Ids -> Exchanges] /\ ex'[e] = r
           /\ \A f \in Ids : f # e => ex'[f] = ex[f]
           /\ InflightExact' /\ SocketInv'
<1>1. e \in Ids /\ Live \subseteq Ids
  BY DEF Live
<1>2. ex' \in [Ids -> Exchanges] /\ ex'[e] = r /\ \A f \in Ids : f # e => ex'[f] = ex[f]
  BY <1>1 DEF Update, TypeOK
<1>3. Live' = Live
  BY <1>1, <1>2 DEF Live
<1>4. \A f \in Ids : /\ ex'[f].sock = ex[f].sock /\ (ex'[f].tcp <=> ex[f].tcp)
                     /\ ex[f].st # "none" => ex'[f].st # "none"
                     /\ ex'[f].st \in {"none", "done"} => ex[f].st \in {"none", "done"}
  BY <1>1, <1>2
<1>5. \A f \in Ids : ex[f].sock # 0 => ex[f].sock \in Ids
  BY SMTT(30) DEF TypeOK, Exchanges, Ids
<1>6. \A i \in 1 .. Len(pool) : pool[i] \in Ids
  BY DEF TypeOK
<1>7. SocketInv'
  <2>1. \A f \in Ids : ex'[f].st \in {"none", "done"} => ex'[f].sock = 0
    BY <1>4 DEF SocketInv
  <2>2. \A f \in Live' : ex'[f].sock = 0 <=> ex'[f].tcp
    BY <1>1, <1>3, <1>4 DEF SocketInv
  <2>3. \A f \in Ids : ex'[f].sock # 0 => ex'[ex'[f].sock].st # "none"
    BY <1>4, <1>5 DEF SocketInv
  <2>4. \A i \in 1 .. Len(pool) : ex'[pool[i]].st # "none"
    BY <1>4, <1>6 DEF SocketInv
  <2>5. SocketsOwned'
    BY <1>1, <1>3, <1>4 DEF SocketInv, SocketsOwned
  <2> QED
    BY <2>1, <2>2, <2>3, <2>4, <2>5 DEF SocketInv
<1>8. InflightExact'
  BY <1>3 DEF InflightExact
<1> QED
  BY <1>1, <1>2, <1>7, <1>8

\* What a TCP exchange receives is its own, and it has no UDP socket.
LEMMA TcpMoveAnswers ==
    ASSUME SocketInv, AnswerInv, NEW e \in Live, ex[e].tcp, ex'[e].got \in {ex[e].got, e},
           \A f \in Ids : f # e => ex'[f] = ex[f],
           inbox' = inbox, asked' = asked, dups' = dups
    PROVE  AnswerInv'
<1>1. e \in Ids /\ ex[e].sock = 0
  BY DEF Live, SocketInv
<1>2. \A q, t \in Ids : ex[q].sock = t => ex'[q] = ex[q]
  BY <1>1 DEF Ids
<1>3. dups = 0 => \A f \in Ids : ex'[f].got \in {0, f}
  BY <1>1 DEF AnswerInv
<1>4. ASSUME dups = 0, NEW q \in Ids, NEW t \in Ids, <<q, t>> \in asked'
      PROVE  ex'[q].st = "wait" /\ ex'[q].sock = t /\ inbox'[t] = <<>>
  BY <1>2, <1>4 DEF AnswerInv
<1>5. ASSUME dups = 0, NEW t \in Ids, inbox'[t] # <<>>
      PROVE  \E q \in Ids : /\ inbox'[t] = <<q>> /\ ex'[q].st = "wait" /\ ex'[q].sock = t
                            /\ <<q, t>> \notin asked'
  <2>1. PICK q \in Ids : /\ inbox[t] = <<q>> /\ ex[q].st = "wait" /\ ex[q].sock = t
                         /\ <<q, t>> \notin asked
    BY ZenonT(30), <1>5 DEF AnswerInv
  <2> QED
    BY <1>2, <2>1
<1> QED
  BY ZenonT(30), <1>3, <1>4, <1>5 DEF AnswerInv

\* A question that has been sent is the only one on its socket.
LEMMA SentAnswers ==
    ASSUME SocketInv, AnswerInv, NEW e \in Live, ex[e].st = "send", ex[e].sock \in Ids,
           ex'[e].st = "wait", ex'[e].sock = ex[e].sock, ex'[e].got = ex[e].got,
           \A f \in Ids : f # e => ex'[f] = ex[f],
           inbox' = inbox, asked' = asked \cup {<<e, ex[e].sock>>}, dups' = dups
    PROVE  AnswerInv'
<1>1. e \in Ids
  BY DEF Live
<1>2. \A q \in Ids : ex[q].st = "wait" => ex'[q] = ex[q] /\ q # e
  BY <1>1
<1>3. \A q \in Ids : ex[q].st = "wait" => ex[q].sock # ex[e].sock
  BY <1>1 DEF SocketInv, SocketsOwned, Live, Ids
<1>4. dups = 0 => inbox[ex[e].sock] = <<>> /\ \A q \in Ids : <<q, ex[e].sock>> \notin asked
  BY <1>3, UnownedIsQuiet
<1>5. dups = 0 => \A f \in Ids : ex'[f].got \in {0, f}
  BY <1>1 DEF AnswerInv
<1>6. ASSUME dups = 0, NEW q \in Ids, NEW t \in Ids, <<q, t>> \in asked'
      PROVE  ex'[q].st = "wait" /\ ex'[q].sock = t /\ inbox'[t] = <<>>
  <2>1. CASE <<q, t>> \in asked
    BY <1>2, <1>6, <2>1 DEF AnswerInv
  <2>2. CASE q = e /\ t = ex[e].sock
    BY <1>4, <1>6, <2>2
  <2> QED
    BY <1>6, <2>1, <2>2
<1>7. ASSUME dups = 0, NEW t \in Ids, inbox'[t] # <<>>
      PROVE  \E q \in Ids : /\ inbox'[t] = <<q>> /\ ex'[q].st = "wait" /\ ex'[q].sock = t
                            /\ <<q, t>> \notin asked'
  <2>1. PICK q \in Ids : /\ inbox[t] = <<q>> /\ ex[q].st = "wait" /\ ex[q].sock = t
                         /\ <<q, t>> \notin asked
    BY <1>7 DEF AnswerInv
  <2>2. <<q, t>> \notin asked'
    BY <1>2, <2>1
  <2> QED
    BY <1>2, <2>1, <2>2
<1> QED
  BY ZenonT(30), <1>5, <1>6, <1>7 DEF AnswerInv

\* An answer arrives: it is the one the owner of the socket waits for.
LEMMA ArrivalInv ==
    ASSUME ProxyInv, NEW q \in Ids, NEW s \in Ids, Answer(q, s)
    PROVE  ProxyInv'
<1>0. TypeOK /\ InflightExact /\ SocketInv /\ AnswerInv
  BY DEF ProxyInv
<1>1. /\ ex' = ex /\ inflight' = inflight /\ pool' = pool /\ dropped' = dropped
      /\ batch' = batch /\ undefined' = undefined
  BY DEF Answer
<1>2. inbox' = [inbox EXCEPT ![s] = Append(inbox[s], q)]
  BY DEF Answer
<1>3. inbox'[s] = Append(inbox[s], q) /\ \A t \in Ids : t # s => inbox'[t] = inbox[t]
  BY <1>0, <1>2 DEF TypeOK
<1>4. TypeOK'
  <2>1. inbox' \in [Ids -> Seq(Ids)]
    BY <1>0, <1>2 DEF TypeOK
  <2>2. asked' \subseteq Ids \X Ids /\ dups' \in 0 .. MaxDups
    BY <1>0, ProxyAssumption DEF Answer, TypeOK
  <2> QED
    BY <1>0, <1>1, <2>1, <2>2 DEF TypeOK
<1>5. Live' = Live /\ InflightExact' /\ SocketInv'
  BY <1>0, <1>1 DEF Live, InflightExact, SocketInv, SocketsOwned
<1>6. ASSUME dups' = 0
      PROVE  dups = 0 /\ asked' = asked \ {<<q, s>>} /\ <<q, s>> \in asked
  BY <1>0, <1>6, ProxyAssumption DEF Answer, TypeOK
<1>7. ASSUME dups' = 0
      PROVE  ex[q].st = "wait" /\ ex[q].sock = s /\ inbox'[s] = <<q>>
  <2>1. ex[q].st = "wait" /\ ex[q].sock = s /\ inbox[s] = <<>>
    BY <1>0, <1>6, <1>7 DEF AnswerInv
  <2> QED
    BY <1>3, <2>1
<1>8. ASSUME dups' = 0, NEW p \in Ids, NEW t \in Ids, <<p, t>> \in asked'
      PROVE  ex'[p].st = "wait" /\ ex'[p].sock = t /\ inbox'[t] = <<>>
  <2>1. ex[p].st = "wait" /\ ex[p].sock = t /\ inbox[t] = <<>> /\ (p # q \/ t # s)
    BY <1>0, <1>6, <1>8 DEF AnswerInv
  <2>2. t # s
    BY <1>0, <1>7, <1>8, <2>1 DEF SocketInv, SocketsOwned, Live, Ids
  <2> QED
    BY <1>1, <1>3, <2>1, <2>2
<1>9. ASSUME dups' = 0, NEW t \in Ids, inbox'[t] # <<>>
      PROVE  \E p \in Ids : /\ inbox'[t] = <<p>> /\ ex'[p].st = "wait" /\ ex'[p].sock = t
                            /\ <<p, t>> \notin asked'
  <2>1. CASE t = s
    BY <1>1, <1>6, <1>7, <1>9, <2>1
  <2>2. CASE t # s
    BY ZenonT(30), <1>0, <1>1, <1>3, <1>6, <1>9, <2>2 DEF AnswerInv
  <2> QED
    BY ZenonT(30), <2>1, <2>2
<1>10. AnswerInv'
  BY <1>0, <1>1, <1>6, <1>8, <1>9 DEF AnswerInv
<1> QED
  BY <1>4, <1>5, <1>10 DEF ProxyInv

-----------------------------------------------------------------------------
\* The loop and its callbacks.

\* mt_loop_run takes one event off the batch and changes nothing itself.
LEMMA TakeType ==
    ASSUME TypeOK, NEW e, NEW k, Take(e, k)
    PROVE  /\ batch' \in Seq((Ids \cup {Listener}) \X Kinds)
           /\ undefined' \in BOOLEAN /\ dups' = dups /\ dups' \in 0 .. MaxDups
           /\ k \in Watched(e)
  BY DEF Take, TypeOK, Kinds

\* A callback that ends its exchange preserves the invariant.
LEMMA FinishInv ==
    ASSUME ProxyInv, NEW e \in Live, NEW k, Take(e, k),
           NEW pooled \in BOOLEAN, NEW timer \in BOOLEAN,
           NEW got \in 0 .. MaxExchanges, NEW left \in Seq(Ids),
           Finish(e, pooled, timer, got, left),
           \/ pooled = FALSE /\ got = ex[e].got
           \/ /\ ex[e].sock # 0 /\ inbox[ex[e].sock] # <<>>
              /\ got = Head(inbox[ex[e].sock]) /\ left = Tail(inbox[ex[e].sock])
    PROVE  ProxyInv'
<1>1. TypeOK /\ InflightExact /\ SocketInv /\ AnswerInv /\ e \in Ids
  BY DEF ProxyInv, Live
<1>2. inflight > 0
  <2>1. Cardinality(Live) # 0
    BY LiveFinite, FS_EmptySet
  <2> QED
    BY <1>1, <2>1, LiveFinite DEF InflightExact
<1>3. TypeOK'
  BY ZenonT(30), <1>1, <1>2, FinishType, TakeType DEF TypeOK, Kinds
<1>4. AnswerInv'
  BY ZenonT(30), <1>1, FinishAnswers, TakeType
<1> QED
  BY <1>1, <1>3, <1>4, FinishCounts, FinishSockets DEF ProxyInv

\* An error or a passed deadline closes the socket.
LEMMA FailInv ==
    ASSUME ProxyInv, NEW e \in Live, NEW k, Take(e, k), NEW timer \in BOOLEAN,
           Finish(e, FALSE, timer, ex[e].got, <<>>)
    PROVE  ProxyInv'
<1>1. ex[e].got \in 0 .. MaxExchanges
  BY DEF ProxyInv, TypeOK, Live, Exchanges
<1>2. <<>> \in Seq(Ids) /\ FALSE \in BOOLEAN
  OBVIOUS
<1> QED
  BY ZenonT(30), <1>1, <1>2, FinishInv

\* What the properties speak of does not change with the batch.
LEMMA QuietInv ==
    ASSUME InflightExact, SocketInv, AnswerInv, ex' = ex, inflight' = inflight, pool' = pool,
           inbox' = inbox, asked' = asked, dups' = dups
    PROVE  InflightExact' /\ SocketInv' /\ AnswerInv'
<1>1. InflightExact' /\ SocketInv'
  BY DEF InflightExact, SocketInv, SocketsOwned, Live
<1>2. AnswerInv'
  BY ZenonT(30) DEF AnswerInv
<1> QED
  BY <1>1, <1>2

\* A callback that finds nothing to do preserves the invariant.
LEMMA StayInv ==
    ASSUME ProxyInv, NEW e, NEW k, Take(e, k), UNCHANGED <<ex, inflight, netVars>>,
           dropped' \in 0 .. MaxDropped
    PROVE  ProxyInv'
<1>1. TypeOK /\ InflightExact /\ SocketInv /\ AnswerInv
  BY DEF ProxyInv
<1>2. ex' = ex /\ inflight' = inflight /\ pool' = pool /\ inbox' = inbox /\ asked' = asked
  BY DEF netVars
<1>3. TypeOK'
  BY <1>1, <1>2, TakeType DEF TypeOK, Kinds
<1>4. dups' = dups
  BY <1>1, TakeType
<1>5. InflightExact' /\ SocketInv' /\ AnswerInv'
  BY <1>1, <1>2, <1>4, QuietInv
<1> QED
  BY <1>3, <1>5 DEF ProxyInv

\* on_udp_readable and on_tcp_accept.
LEMMA ListenInv ==
    ASSUME ProxyInv, OnUdpReadable \/ OnTcpAccept
    PROVE  ProxyInv'
<1>1. TypeOK /\ InflightExact /\ SocketInv /\ AnswerInv
  BY DEF ProxyInv
<1>2. PICK k : Take(Listener, k)
  BY DEF OnUdpReadable, OnTcpAccept
<1>3. dropped \in 0 .. MaxDropped
  BY <1>1 DEF TypeOK
<1>4. CASE Refuse
  <2>1. dropped' \in 0 .. MaxDropped
    BY <1>3, <1>4, ProxyAssumption DEF Refuse
  <2>2. UNCHANGED <<ex, inflight, netVars>>
    BY <1>4 DEF Refuse
  <2> QED
    BY <1>2, <2>1, <2>2, StayInv
<1>5. CASE Stay
  <2>1. UNCHANGED <<ex, inflight, netVars>> /\ dropped' \in 0 .. MaxDropped
    BY <1>3, <1>5 DEF Stay
  <2> QED
    BY <1>2, <2>1, StayInv
<1>6. CASE ~Full /\ (\E e \in Ids : ex[e].st = "none") /\ StartUdp(Fresh) /\ UNCHANGED dropped
  <2>1. Fresh \in Ids /\ ex[Fresh].st = "none"
    BY <1>6, FreshIsNew
  <2>2. TypeOK'
    BY ZenonT(30), <1>1, <1>2, <1>6, <2>1, StartUdpType, TakeType DEF TypeOK, Kinds
  <2>3. AnswerInv'
    BY <1>1, <1>2, <1>6, <2>1, StartUdpAnswers, TakeType
  <2> QED
    BY <1>1, <1>6, <2>1, <2>2, <2>3, StartUdpCounts, StartUdpSockets DEF ProxyInv
<1>7. CASE /\ ~Full /\ (\E e \in Ids : ex[e].st = "none")
           /\ Update(Fresh, [NoExchange EXCEPT !.st = "read", !.tcp = TRUE])
           /\ inflight' = inflight + 1 /\ UNCHANGED <<dropped, netVars>>
  <2>1. Fresh \in Ids /\ ex[Fresh].st = "none"
    BY <1>7, FreshIsNew
  <2>2. /\ ex' \in [Ids -> Exchanges] /\ inflight' \in Nat
        /\ InflightExact' /\ SocketInv' /\ AnswerInv'
    BY <1>1, <1>2, <1>7, <2>1, AcceptInv, TakeType
  <2>3. TypeOK'
    BY <1>1, <1>2, <1>7, <2>2, TakeType DEF TypeOK, Kinds, netVars
  <2> QED
    BY <2>2, <2>3 DEF ProxyInv
<1> QED
  BY <1>4, <1>5, <1>6, <1>7 DEF OnUdpReadable, OnTcpAccept

\* on_tcp_client_read, on_upstream_writable, on_upstream, on_client_writable and
\* on_timeout.
LEMMA CallbackInv ==
    ASSUME ProxyInv, NEW e \in Ids,
           \/ OnTcpClientRead(e) \/ OnUpstreamWritable(e) \/ OnUpstream(e)
           \/ OnClientWritable(e) \/ OnTimeout(e)
    PROVE  ProxyInv'
<1>1. TypeOK /\ InflightExact /\ SocketInv /\ AnswerInv
  BY DEF ProxyInv
<1>2. e \in Live
  BY ZenonT(30) DEF OnTcpClientRead, OnUpstreamWritable, OnUpstream, OnClientWritable, OnTimeout, Live
<1>3. PICK k : Take(e, k)
  BY ZenonT(30) DEF OnTcpClientRead, OnUpstreamWritable, OnUpstream, OnClientWritable, OnTimeout
<1>4. ex[e] \in Exchanges
  BY <1>1 DEF TypeOK
<1>5. CASE Stay
  <2>1. UNCHANGED <<ex, inflight, netVars>> /\ dropped' \in 0 .. MaxDropped
    BY <1>1, <1>5 DEF Stay, TypeOK
  <2> QED
    BY <1>3, <2>1, StayInv
<1>6. CASE Fail(e)
  <2>1. Finish(e, FALSE, FALSE, ex[e].got, <<>>) /\ FALSE \in BOOLEAN
    BY ZenonT(30), <1>6 DEF Fail
  <2> QED
    BY ZenonT(30), <1>2, <1>3, <2>1, FailInv
<1>7. CASE OnTimeout(e)
  <2>1. Finish(e, FALSE, TRUE, ex[e].got, <<>>) /\ TRUE \in BOOLEAN
    BY ZenonT(30), <1>7 DEF OnTimeout
  <2> QED
    BY ZenonT(30), <1>2, <1>3, <2>1, FailInv
<1>8. ASSUME NEW r \in Exchanges, Update(e, r), r.st \notin {"none", "done"},
             r.tcp = ex[e].tcp, r.sock = ex[e].sock, ex[e].tcp, r.got \in {ex[e].got, e},
             UNCHANGED <<inflight, dropped, netVars>>
      PROVE  ProxyInv'
  <2>1. inflight' = inflight /\ dropped' = dropped /\ pool' = pool /\ inbox' = inbox /\ asked' = asked
    BY <1>8 DEF netVars
  <2>2. /\ ex' \in [Ids -> Exchanges] /\ ex'[e] = r /\ \A f \in Ids : f # e => ex'[f] = ex[f]
        /\ InflightExact' /\ SocketInv'
    BY ZenonT(30), <1>1, <1>2, <1>8, <2>1, MoveInv
  <2>3. AnswerInv'
    BY <1>1, <1>2, <1>3, <1>8, <2>1, <2>2, TcpMoveAnswers, TakeType
  <2>4. TypeOK'
    BY <1>1, <1>3, <2>1, <2>2, TakeType DEF TypeOK, Kinds
  <2> QED
    BY <2>2, <2>3, <2>4 DEF ProxyInv
<1>9. CASE OnTcpClientRead(e)
  <2>1. ex[e].tcp
    BY <1>9, <1>2 DEF OnTcpClientRead, Take, Watched, Ids, Listener
  <2>2. CASE Update(e, [ex[e] EXCEPT !.st = "reply"]) /\ UNCHANGED <<inflight, dropped, netVars>>
    <3> DEFINE r == [ex[e] EXCEPT !.st = "reply"]
    <3>1. /\ r \in Exchanges /\ r.st = "reply" /\ r.tcp = ex[e].tcp
          /\ r.sock = ex[e].sock /\ r.got = ex[e].got
      BY <1>4 DEF Exchanges, States
    <3> QED
      BY ZenonT(30), <1>8, <2>1, <2>2, <3>1
  <2>3. CASE /\ Update(e, [ex[e] EXCEPT !.st = "send", !.timer = TRUE])
             /\ UNCHANGED <<inflight, dropped, netVars>>
    <3> DEFINE r == [ex[e] EXCEPT !.st = "send", !.timer = TRUE]
    <3>1. /\ r \in Exchanges /\ r.st = "send" /\ r.tcp = ex[e].tcp
          /\ r.sock = ex[e].sock /\ r.got = ex[e].got
      BY ZenonT(30), <1>4 DEF Exchanges, States
    <3> QED
      BY ZenonT(30), <1>8, <2>1, <2>3, <3>1
  <2> QED
    BY <1>5, <1>6, <1>9, <2>2, <2>3 DEF OnTcpClientRead
<1>10. CASE OnUpstreamWritable(e)
  <2> DEFINE r == [ex[e] EXCEPT !.st = "wait"]
  <2>1. /\ r \in Exchanges /\ r.st = "wait" /\ r.tcp = ex[e].tcp
        /\ r.sock = ex[e].sock /\ r.got = ex[e].got
    BY <1>4 DEF Exchanges, States
  <2> HIDE DEF r
  <2>2. CASE ex[e].tcp /\ Update(e, r) /\ asked' = asked /\ UNCHANGED <<inflight, dropped, pool, inbox>>
    BY ZenonT(30), <1>8, <2>1, <2>2 DEF netVars
  <2>3. CASE /\ ~ex[e].tcp /\ Update(e, r) /\ asked' = asked \cup {<<e, ex[e].sock>>}
             /\ UNCHANGED <<inflight, dropped, pool, inbox>>
    <3>1. ex[e].sock # 0
      BY <1>1, <1>2, <2>3 DEF SocketInv
    <3>2. ex[e].sock \in Ids
      BY SMTT(30), <1>4, <3>1 DEF Exchanges, Ids
    <3>3. /\ ex' \in [Ids -> Exchanges] /\ ex'[e] = r /\ \A f \in Ids : f # e => ex'[f] = ex[f]
          /\ InflightExact' /\ SocketInv'
      BY <1>1, <1>2, <2>1, <2>3, MoveInv
    <3>4. ex[e].st = "send"
      BY SMTT(30), <1>10 DEF OnUpstreamWritable
    <3>5. AnswerInv'
      BY <1>1, <1>2, <1>3, <2>1, <2>3, <3>2, <3>3, <3>4, SentAnswers, TakeType
    <3>6. asked' \subseteq Ids \X Ids
      BY <1>1, <2>3, <3>2 DEF TypeOK
    <3>7. TypeOK'
      BY <1>1, <1>3, <2>3, <3>3, <3>6, TakeType DEF TypeOK, Kinds
    <3> QED
      BY SMTT(30), <3>3, <3>5, <3>7 DEF ProxyInv
  <2> QED
    BY <1>5, <1>6, <1>10, <2>2, <2>3 DEF OnUpstreamWritable, r
<1>11. CASE OnUpstream(e)
  <2>1. CASE /\ ex[e].tcp /\ Update(e, [ex[e] EXCEPT !.st = "reply", !.got = e])
             /\ UNCHANGED <<inflight, dropped, netVars>>
    <3> DEFINE r == [ex[e] EXCEPT !.st = "reply", !.got = e]
    <3>0. e \in 0 .. MaxExchanges
      BY DEF Ids
    <3>1. /\ r \in Exchanges /\ r.st = "reply" /\ r.tcp = ex[e].tcp
          /\ r.sock = ex[e].sock /\ r.got = e
      BY ZenonT(30), <1>4, <3>0 DEF Exchanges, States
    <3> QED
      BY ZenonT(30), <1>8, <2>1, <3>1
  <2>2. CASE /\ ~ex[e].tcp /\ inbox[ex[e].sock] # <<>>
             /\ Finish(e, TRUE, FALSE, Head(inbox[ex[e].sock]), Tail(inbox[ex[e].sock]))
    <3>1. ex[e].sock # 0
      BY <1>1, <1>2, <2>2 DEF SocketInv
    <3>2. ex[e].sock \in Ids
      BY <1>4, <3>1 DEF Exchanges, Ids
    <3>3. inbox[ex[e].sock] \in Seq(Ids)
      BY <1>1, <3>2 DEF TypeOK
    <3>4. Head(inbox[ex[e].sock]) \in Ids /\ Tail(inbox[ex[e].sock]) \in Seq(Ids)
      BY <2>2, <3>3
    <3>5. Head(inbox[ex[e].sock]) \in 0 .. MaxExchanges /\ TRUE \in BOOLEAN /\ FALSE \in BOOLEAN
      BY <3>4 DEF Ids
    <3> QED
      BY ZenonT(30), <1>2, <1>3, <2>2, <3>1, <3>4, <3>5, FinishInv
  <2> QED
    BY ZenonT(30), <1>5, <1>6, <1>11, <2>1, <2>2 DEF OnUpstream
<1>12. CASE OnClientWritable(e)
  BY <1>5, <1>6, <1>12 DEF OnClientWritable
<1> QED
  BY <1>7, <1>9, <1>10, <1>11, <1>12

\* epoll_wait, and a dispatch to a freed watch, touch only the batch.
LEMMA BatchInv ==
    ASSUME ProxyInv, EpollWait \/ DispatchFreed \/ UNCHANGED vars
    PROVE  ProxyInv'
<1>1. TypeOK /\ InflightExact /\ SocketInv /\ AnswerInv
  BY DEF ProxyInv
<1>2. /\ ex' = ex /\ inflight' = inflight /\ dropped' = dropped /\ dups' = dups
      /\ pool' = pool /\ inbox' = inbox /\ asked' = asked
  BY DEF EpollWait, DispatchFreed, vars, netVars
<1> DEFINE W == (Ids \cup {Listener}) \X Kinds
<1>3. batch' \in Seq(W) /\ undefined' \in BOOLEAN
  <2>1. CASE EpollWait
    <3>1. PICK n \in 1 .. MaxBatch : batch' \in [1 .. n -> Ready]
      BY <2>1 DEF EpollWait
    <3>2. Ready \subseteq W
      BY DEF Ready, Live, Kinds, Watched, Listener
    <3>3. n \in Nat /\ batch' \in [1 .. n -> W]
      BY <3>1, <3>2, ProxyAssumption
    <3>4. batch' \in Seq(W)
      BY <3>3
    <3> QED
      BY <1>1, <2>1, <3>4 DEF EpollWait, TypeOK
  <2>2. CASE DispatchFreed
    BY <2>2 DEF DispatchFreed
  <2>3. CASE UNCHANGED vars
    BY <1>1, <2>3 DEF vars, TypeOK, Kinds
  <2> QED
    BY <2>1, <2>2, <2>3
<1>4. TypeOK'
  BY <1>1, <1>2, <1>3 DEF TypeOK, Kinds
<1>5. InflightExact' /\ SocketInv' /\ AnswerInv'
  BY <1>1, <1>2, QuietInv
<1> QED
  BY <1>4, <1>5 DEF ProxyInv

-----------------------------------------------------------------------------
\* The inductive invariant and what follows from it.

\* The proxy starts with no exchange, no socket and nothing to dispatch.
LEMMA InitInv == Init => ProxyInv
<1> SUFFICES ASSUME Init PROVE ProxyInv
  OBVIOUS
<1>1. NoExchange \in Exchanges
  BY ProxyAssumption DEF NoExchange, Exchanges, States
<1>2. \A e \in Ids : ex[e] = NoExchange /\ ex[e].st = "none" /\ ex[e].sock = 0 /\ ex[e].got = 0
  BY DEF Init, NoExchange
<1>3. Live = {}
  BY <1>2 DEF Live
<1>4. /\ pool = <<>> /\ inbox = [s \in Ids |-> <<>>] /\ asked = {} /\ batch = <<>>
      /\ inflight = 0 /\ dropped = 0 /\ dups = 0 /\ undefined = FALSE
  BY DEF Init
<1>5. TypeOK
  <2>1. ex \in [Ids -> Exchanges] /\ inbox \in [Ids -> Seq(Ids)]
    BY <1>1, <1>4 DEF Init
  <2>2. /\ pool \in Seq(Ids) /\ Len(pool) <= MaxIdle /\ inflight \in Nat
        /\ dropped \in 0 .. MaxDropped /\ dups \in 0 .. MaxDups
        /\ batch \in Seq((Ids \cup {Listener}) \X Kinds)
    BY <1>4, ProxyAssumption
  <2> QED
    BY ZenonT(30), <1>4, <2>1, <2>2 DEF TypeOK, Kinds
<1>6. InflightExact
  BY SMTT(30), <1>3, <1>4, FS_EmptySet, ProxyAssumption DEF InflightExact
<1>7. SocketInv
  <2>1. Len(pool) = 0
    BY <1>4
  <2>2. 1 .. Len(pool) = {}
    BY <2>1
  <2> QED
    BY <1>2, <1>3, <2>2 DEF SocketInv, SocketsOwned
<1>8. AnswerInv
  BY <1>2, <1>4 DEF AnswerInv
<1> QED
  BY <1>5, <1>6, <1>7, <1>8 DEF ProxyInv

\* Every step of the loop, its callbacks and the network preserves it.
LEMMA NextInv == ProxyInv /\ [Next]_vars => ProxyInv'
  BY ArrivalInv, ListenInv, CallbackInv, BatchInv DEF Next, Dispatch

\* The inductive invariant holds throughout, for every value of the constants.
THEOREM ProxyInvariant == Spec => []ProxyInv
  BY InitInv, NextInv, PTL DEF Spec

\* The proxy is always well typed; in particular pool_put never lets the pool
\* outgrow max_idle_conns.
THEOREM ProxyTypeCorrect == Spec => []TypeOK
<1>1. ProxyInv => TypeOK
  BY DEF ProxyInv
<1> QED
  BY <1>1, ProxyInvariant, PTL

\* The budget counts the live exchanges exactly and is never exceeded: each of
\* the ways out of an exchange gives its slot back once (exchange_finish).
THEOREM BudgetExact == Spec => []InflightExact
<1>1. ProxyInv => InflightExact
  BY DEF ProxyInv
<1> QED
  BY <1>1, ProxyInvariant, PTL

\* A UDP socket never has two owners (start_upstream, pool_get, pool_put).
THEOREM SocketsExclusive == Spec => []SocketsOwned
<1>1. ProxyInv => SocketsOwned
  BY DEF ProxyInv, SocketInv
<1> QED
  BY <1>1, ProxyInvariant, PTL

\* Although on_upstream does not compare a datagram with the question, an
\* answer reaches the client that asked as long as the network repeats none.
THEOREM AnswersReachTheirClient == Spec => []AnswersMatch
<1>1. ProxyInv => AnswersMatch
  BY DEF ProxyInv, AnswerInv, AnswersMatch
<1> QED
  BY <1>1, ProxyInvariant, PTL
=============================================================================
