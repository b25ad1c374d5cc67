---------------------------- MODULE Link_proofs ----------------------------
(***************************************************************************)
(* Proofs about Link for any number of links and handles and all times: a  *)
(* link uses its own socket, nothing is leaked, a silent peer is given up  *)
(* in time and not before.  The links are those of the passing run: beside *)
(* one that may be a server there are TCP clients only, and a channel is   *)
(* not configured anew once it is released (see LinkLate for what happens  *)
(* otherwise).                                                             *)
(***************************************************************************)
EXTENDS LinkSafe, TLAPS

ServerAlone ==
    /\ ~ Reused
    /\ \A l, m \in Links : l # m /\ "TS" \in Types[l] => Types[m] \subseteq {"TC"}

(* What kind of socket a link has, and what may wait in it.                 *)
Suits(k, s) ==
    /\ k.ste # "idle" => k.rbuf + s.data <= MSGS
    /\ k.ste # "idle" /\ k.type = "TC" => s.st \notin {"listen", "udp", "unbound"}
    /\ k.ste = "connect" /\ k.type = "TS" => s.st = "listen"
    /\ k.pc = "late" => k.ste = "idle" /\ k.type = "TS"

HeldInv == SocketsAreHeld /\ \A l \in Links : Suits(link[l], Mine(link[l]))

(* The seconds of silence against the count, which a client may take from   *)
(* its last connection into the hold-off, and a server into its listening.  *)
StandbyTime(k) ==
    IF k.cnt = 0 THEN k.wait <= HOLD + 1
    ELSE k.wait = 0 \/ (k.wait < k.cnt /\ k.cnt <= HOLD)

ConnectTime(k) ==
    IF Client(k) THEN k.wait <= k.cnt /\ k.cnt <= TMO
    ELSE k.wait = 0 \/ (k.wait <= k.cnt /\ k.cnt <= LONG)

(* What had passed when the count was set last: each keep-alive sets it     *)
(* back, the last chance to 0.                                              *)
Before(k) == IF k.dst = "check" THEN REFRESH + 1 + RETRIES * (KEEP + 1)
                                ELSE k.retry * (KEEP + 1)

ReadyTime(k) ==
    /\ k.cnt <= REFRESH /\ k.cnt <= k.wait
    /\ ~ Client(k) => k.wait <= k.cnt
    /\ Client(k) => k.dst \in {"check", "ready"} /\ k.wait <= k.cnt + Before(k)

Timed(k) ==
    /\ k.ste = "idle"    => k.wait = 0
    /\ k.ste = "standby" => StandbyTime(k)
    /\ k.ste = "connect" => ConnectTime(k)
    /\ k.ste = "ready"   => ReadyTime(k)

Inv == TypeOK /\ HeldInv /\ \A l \in Links : Timed(link[l])

-----------------------------------------------------------------------------
LEMMA Times ==
    /\ TMO \in Nat /\ REFRESH \in Nat /\ HOLD \in Nat /\ LONG \in Nat
    /\ KEEP \in Nat /\ KEEP <= REFRESH /\ RETRIES \in Nat /\ MSGS \in Nat
    /\ Types \in [Links -> SUBSET {"TC", "TS", "UC", "US"}]
    /\ \A n \in Nat : n * (KEEP + 1) \in Nat
    /\ \A n \in 0 .. RETRIES : n * (KEEP + 1) <= RETRIES * (KEEP + 1)
    /\ \A n \in Nat : (n + 1) * (KEEP + 1) = n * (KEEP + 1) + KEEP + 1
  BY LinkAssumption, SocketsAssumption DEF LinkAssumption, SocketsAssumption

LEMMA BeforeType ==
  ASSUME NEW k, k.retry \in Nat
  PROVE  Before(k) \in Nat
<1>1. k.retry * (KEEP + 1) \in Nat /\ RETRIES * (KEEP + 1) \in Nat /\ REFRESH \in Nat
  BY Times
<1> QED
  BY <1>1 DEF Before

LEMMA SocketType ==
  ASSUME NEW s \in States
  PROVE  Socket(s) \in Sockets /\ Socket(s).st = s /\ Socket(s).data = 0
  BY Times DEF Socket, Sockets

LEMMA Entered ==
  ASSUME NEW k \in Links_, NEW s \in {"idle", "standby", "connect", "ready"}
  PROVE  LET n == Enter(k, s) IN
         /\ n \in Links_ /\ n.ste = s /\ n.wait = 0
         /\ n.type = k.type /\ n.pIf = k.pIf /\ n.dst = k.dst /\ n.cnt = k.cnt
         /\ n.retry = k.retry /\ n.rbuf = k.rbuf /\ n.pc = k.pc
  BY DEF Enter, Links_

LEMMA Counted ==
  ASSUME NEW k \in Links_
  PROVE  LET n == Second(k) IN
         /\ n \in Links_ /\ n.cnt = k.cnt + 1 /\ n.wait = k.wait + 1
         /\ n.ste = k.ste /\ n.type = k.type /\ n.pIf = k.pIf /\ n.dst = k.dst
         /\ n.retry = k.retry /\ n.rbuf = k.rbuf /\ n.pc = k.pc
<1> DEFINE n == Second(k)
           F == {"ste", "type", "pIf", "dst", "cnt", "retry", "rbuf", "due", "pc", "wait"}
<1>1. /\ n.cnt = k.cnt + 1 /\ n.wait = k.wait + 1 /\ n.due = FALSE
      /\ n.ste = k.ste /\ n.type = k.type /\ n.pIf = k.pIf /\ n.dst = k.dst
      /\ n.retry = k.retry /\ n.rbuf = k.rbuf /\ n.pc = k.pc
  BY DEF Second, Links_
<1>2. n.due \in BOOLEAN
  BY <1>1, Zenon
<1>3. n = [x \in F |-> n[x]]
  BY DEF Second, Links_
<1> HIDE DEF n
<1>4. n = [ste |-> n.ste, type |-> n.type, pIf |-> n.pIf, dst |-> n.dst, cnt |-> n.cnt,
           retry |-> n.retry, rbuf |-> n.rbuf, due |-> n.due, pc |-> n.pc, wait |-> n.wait]
  BY <1>3
<1>5. n \in Links_
  BY <1>1, <1>2, <1>4 DEF Links_
<1> QED
  BY <1>1, <1>5 DEF n

(* A link in a state and with a socket that fit together.                   *)
Fit(l, k) ==
    /\ k \in Links_ /\ k.type \in Types[l] /\ k.retry <= RETRIES /\ k.rbuf <= MSGS
    /\ Timed(k)

(* One link moves: it alone changes, and of the sockets only its own and    *)
(* what is free.                                                            *)
Held(l) == {h \in Handles : Holds(l) /\ link[l].pIf = h}

Moves(l) ==
    /\ link' = [link EXCEPT ![l] = link'[l]]
    /\ sock' \in [Handles -> Sockets] /\ own' \in [Handles -> Links \union {Nobody}]
    /\ Fit(l, link'[l])
    /\ \A h \in Handles \ (Held(l) \union FreeHandles) : sock'[h] = sock[h] /\ own'[h] = own[h]
    /\ \A h \in Held(l) \union FreeHandles : Open(h)' => h \in Held(l)'
    /\ Holds(l)' => Open(link[l].pIf)' /\ own'[link'[l].pIf] = l
    /\ Suits(link[l], Mine(link[l]))'

LEMMA Sole ==
  ASSUME Inv, NEW l \in Links, NEW m \in Links, Holds(m), l # m
  PROVE  /\ link[m].pIf \in Handles \ (Held(l) \union FreeHandles)
         /\ link[m].pIf \in Handles
  BY DEF Inv, HeldInv, SocketsAreHeld, Held, FreeHandles, Open, Holds

LEMMA MovesKeepInv ==
  ASSUME Inv, NEW l \in Links, Moves(l)
  PROVE  Inv'
<1>1. link' \in [Links -> Links_] /\ \A m \in Links : m # l => link'[m] = link[m]
  BY DEF Inv, TypeOK, Moves, Fit
<1>2. TypeOK'
  BY <1>1 DEF Inv, TypeOK, Moves, Fit
<1>3. \A m \in Links : Timed(link'[m])
  BY <1>1 DEF Inv, Moves, Fit
<1>4. ASSUME NEW m \in Links, m # l, Holds(m)
      PROVE  /\ link'[m].pIf = link[m].pIf /\ link[m].pIf \in Handles
             /\ sock'[link[m].pIf] = sock[link[m].pIf] /\ own'[link[m].pIf] = own[link[m].pIf]
  BY <1>1, <1>4, Sole DEF Moves
<1>5. ASSUME NEW m \in Links, Holds(m)'
      PROVE  Open(link[m].pIf)' /\ own'[link'[m].pIf] = m
  <2>1. CASE m = l
    BY <1>5, <2>1 DEF Moves
  <2>2. CASE m # l
    <3>1. Holds(m)
      BY <1>1, <1>5, <2>2 DEF Holds
    <3> QED
      BY <1>4, <2>2, <3>1 DEF Inv, HeldInv, SocketsAreHeld, Open
  <2> QED
    BY <2>1, <2>2
<1>6. ASSUME NEW h \in Handles, Open(h)'
      PROVE  \E m \in Links : Holds(m)' /\ link'[m].pIf = h
  <2>1. CASE h \in Held(l) \union FreeHandles
    BY <1>6, <2>1 DEF Moves, Held
  <2>2. CASE h \notin Held(l) \union FreeHandles
    <3>1. Open(h)
      BY <2>2 DEF FreeHandles
    <3>2. PICK m \in Links : Holds(m) /\ link[m].pIf = h
      BY <3>1 DEF Inv, HeldInv, SocketsAreHeld
    <3>3. m # l
      BY <2>2, <3>2 DEF Held
    <3> QED
      BY <1>1, <3>2, <3>3 DEF Holds
  <2> QED
    BY <2>1, <2>2
<1>7. ASSUME NEW m \in Links
      PROVE  Suits(link[m], Mine(link[m]))'
  <2>1. CASE m = l
    BY <2>1 DEF Moves
  <2>2. CASE m # l /\ Holds(m)
    BY <1>1, <1>4, <2>2 DEF Inv, HeldInv, Mine
  <2>3. CASE m # l /\ ~ Holds(m)
    BY <1>1, <2>3 DEF Inv, HeldInv, Suits, Holds
  <2> QED
    BY <2>1, <2>2, <2>3
<1>8. HeldInv'
  BY <1>5, <1>6, <1>7 DEF HeldInv, SocketsAreHeld
<1> QED
  BY <1>2, <1>3, <1>8 DEF Inv

-----------------------------------------------------------------------------
(* The kinds of moves.                                                      *)
LEMMA HeldType ==
  ASSUME Inv, NEW l \in Links
  PROVE  /\ link[l] \in Links_ /\ link \in [Links -> Links_] /\ Fit(l, link[l])
         /\ sock \in [Handles -> Sockets] /\ own \in [Handles -> Links \union {Nobody}]
         /\ Suits(link[l], Mine(link[l]))
         /\ Holds(l) => /\ link[l].pIf \in Handles /\ own[link[l].pIf] = l
                        /\ Mine(link[l]) = sock[link[l].pIf] /\ Mine(link[l]) \in Sockets
                        /\ Mine(link[l]).st # "free"
  BY DEF Inv, TypeOK, HeldInv, SocketsAreHeld, Fit, Mine, Open

LEMMA Stays ==
  ASSUME Inv, NEW l \in Links, Holds(l), NEW k, Fit(l, k), k.ste # "idle", k.pIf = link[l].pIf,
         NEW s \in Sockets, s.st # "free", Suits(k, s),
         Put(l, k), Keep(k, s)
  PROVE  Moves(l)
<1>1. link' = [link EXCEPT ![l] = k] /\ link'[l] = k
  BY HeldType DEF Put
<1>2. /\ sock' = [sock EXCEPT ![k.pIf] = s] /\ own' = own /\ k.pIf \in Handles
      /\ sock'[k.pIf] = s
  BY HeldType DEF Keep
<1>3. Mine(link[l])' = s
  BY <1>1, <1>2 DEF Mine
<1> QED
  BY <1>1, <1>2, <1>3, HeldType DEF Moves, Held, Holds, FreeHandles, Open

LEMMA StaysSame ==
  ASSUME Inv, NEW l \in Links, Holds(l), NEW k, Fit(l, k), k.ste # "idle", k.pIf = link[l].pIf,
         Suits(k, Mine(link[l])), Put(l, k), UNCHANGED <<sock, own>>
  PROVE  Moves(l)
<1>1. Keep(k, Mine(link[l]))
  BY HeldType DEF Keep
<1> QED
  BY <1>1, HeldType, Stays

LEMMA Rests ==
  ASSUME Inv, NEW l \in Links, ~ Holds(l), NEW k, Fit(l, k), k.ste = "idle",
         k.pc = "late" => k.type = "TS", Put(l, k), UNCHANGED <<sock, own>>
  PROVE  Moves(l)
<1>1. link' = [link EXCEPT ![l] = k] /\ link'[l] = k
  BY HeldType DEF Put
<1>2. Suits(link[l], Mine(link[l]))'
  BY <1>1 DEF Suits
<1> QED
  BY <1>1, <1>2, HeldType DEF Moves, Held, Holds, FreeHandles, Open

LEMMA Releases ==
  ASSUME Inv, NEW l \in Links, Holds(l), NEW k \in Links_, k.pIf = link[l].pIf,
         k.type \in Types[l], k.retry <= RETRIES, k.rbuf <= MSGS,
         k.pc = "late" => k.type = "TS", Release(l, k)
  PROVE  Moves(l) /\ link'[l] = Enter(k, "idle")
<1>1. Open(k.pIf)
  BY HeldType DEF Open
<1>2. Put(l, Enter(k, "idle")) /\ Keep(k, Closed)
  BY <1>1 DEF Release
<1>3. link' = [link EXCEPT ![l] = Enter(k, "idle")] /\ link'[l] = Enter(k, "idle")
  BY <1>2, HeldType DEF Put
<1>4. /\ Enter(k, "idle") \in Links_ /\ Enter(k, "idle").ste = "idle" /\ Enter(k, "idle").wait = 0
      /\ Enter(k, "idle").pc = k.pc /\ Enter(k, "idle").type = k.type
      /\ Enter(k, "idle").retry = k.retry /\ Enter(k, "idle").rbuf = k.rbuf
  BY DEF Enter, Links_
<1>5. Fit(l, link'[l])
  BY <1>3, <1>4 DEF Fit, Timed
<1>6. Suits(link[l], Mine(link[l]))'
  BY <1>3, <1>4 DEF Suits
<1>7. Closed \in Sockets /\ Closed.st = "free"
  BY SocketType DEF Closed, States
<1>8. /\ sock' = [sock EXCEPT ![k.pIf] = Closed] /\ own' = own /\ k.pIf \in Handles
      /\ sock'[k.pIf] = Closed
  BY <1>2, HeldType DEF Keep
<1> QED
  BY <1>3, <1>4, <1>5, <1>6, <1>7, <1>8, HeldType DEF Moves, Held, Holds, FreeHandles, Open

LEMMA Takes ==
  ASSUME Inv, NEW l \in Links, NEW k, Fit(l, k), k.ste # "idle", NEW h \in Handles, k.pIf = h,
         Lowest(h), NEW s \in Sockets, s.st # "free", Suits(k, s), Put(l, k),
         own' = [own EXCEPT ![h] = l],
         \/ ~ Holds(l) /\ sock' = [sock EXCEPT ![h] = s]
         \/ Holds(l) /\ sock' = [sock EXCEPT ![link[l].pIf] = Closed, ![h] = s]
  PROVE  Moves(l)
<1>1. link' = [link EXCEPT ![l] = k] /\ link'[l] = k
  BY HeldType DEF Put
<1>2. Closed \in Sockets /\ Closed.st = "free"
  BY SocketType DEF Closed, States
<1>3. h \in FreeHandles /\ (Holds(l) => link[l].pIf \in Handles /\ link[l].pIf # h)
  BY HeldType DEF Lowest, FreeHandles, Open
<1>4. /\ sock' \in [Handles -> Sockets] /\ own' \in [Handles -> Links \union {Nobody}]
      /\ sock'[h] = s /\ own'[h] = l
      /\ Holds(l) => sock'[link[l].pIf] = Closed
      /\ \A g \in Handles : g # h /\ ~ (Holds(l) /\ g = link[l].pIf) => sock'[g] = sock[g] /\ own'[g] = own[g]
  BY <1>2, <1>3, HeldType
<1>5. Mine(link[l])' = s
  BY <1>1, <1>4 DEF Mine
<1>6. Holds(l)' /\ Open(link[l].pIf)' /\ own'[link'[l].pIf] = l /\ h \in Held(l)'
  BY <1>1, <1>4 DEF Holds, Open, Held
<1>7. \A g \in Handles \ (Held(l) \union FreeHandles) : sock'[g] = sock[g] /\ own'[g] = own[g]
  BY <1>3, <1>4 DEF Held
<1>8. \A g \in Held(l) \union FreeHandles : Open(g)' => g \in Held(l)'
  BY <1>2, <1>3, <1>4, <1>6 DEF Held, FreeHandles, Open
<1> QED
  BY <1>1, <1>4, <1>5, <1>6, <1>7, <1>8 DEF Moves

-----------------------------------------------------------------------------
(* The actions.                                                             *)
LEMMA BindMoves ==
  ASSUME Inv, NEW l \in Links, Bind(l)
  PROVE  Moves(l)
<1> DEFINE k == [link[l] EXCEPT !.dst = "idle"]
           s == Socket(CASE k.type = "UC" -> "unbound" [] k.type = "US" -> "udp" [] OTHER -> "new")
<1>1. ~ Holds(l) /\ link[l].pc = "top" /\ link[l].ste = "idle" /\ link[l].wait = 0
  BY HeldType DEF Bind, At, Holds, Fit, Timed
<1>2. CASE Put(l, k) /\ UNCHANGED <<sock, own>>
  <2>1. Fit(l, k) /\ k.ste = "idle" /\ k.pc = "top"
    BY <1>1, HeldType DEF Fit, Links_, Timed
  <2> QED
    BY <1>1, <1>2, <2>1, Rests
<1>3. ASSUME NEW h \in Handles, Lowest(h), Put(l, Enter([k EXCEPT !.pIf = h], "standby")),
             sock' = [sock EXCEPT ![h] = s], own' = [own EXCEPT ![h] = l]
      PROVE  Moves(l)
  <2> DEFINE m == [k EXCEPT !.pIf = h]
             n == Enter(m, "standby")
  <2>1. /\ m \in Links_ /\ m.pIf = h /\ m.pc = "top" /\ m.type = link[l].type
        /\ m.rbuf = link[l].rbuf /\ m.cnt = link[l].cnt /\ m.retry = link[l].retry
        /\ k.type = link[l].type
    <3>1. /\ k \in Links_ /\ k.pc = "top" /\ k.type = link[l].type
          /\ k.rbuf = link[l].rbuf /\ k.cnt = link[l].cnt /\ k.retry = link[l].retry
      BY <1>1, HeldType DEF Links_
    <3> HIDE DEF k
    <3> QED
      BY <3>1 DEF Links_
  <2>2. /\ s \in Sockets /\ s.st \in {"unbound", "udp", "new"} /\ s.data = 0
        /\ k.type \notin {"UC", "US"} => s.st = "new"
    BY SocketType DEF States
  <2> HIDE DEF m, s, k
  <2>3. /\ n \in Links_ /\ n.ste = "standby" /\ n.wait = 0 /\ n.pIf = h /\ n.pc = "top"
        /\ n.type = link[l].type /\ n.rbuf = link[l].rbuf /\ n.cnt = link[l].cnt
        /\ n.retry = link[l].retry
    BY <2>1, Entered
  <2> HIDE DEF n
  <2>4. Fit(l, n)
    BY <2>3, HeldType, Times DEF Fit, Timed, StandbyTime, Links_
  <2>5. Suits(n, s)
    BY <2>1, <2>2, <2>3, <2>4, Times DEF Suits, Fit, Links_
  <2>6. Put(l, n)
    BY <1>3 DEF n, m
  <2> QED
    BY <1>1, <1>3, <2>2, <2>3, <2>4, <2>5, <2>6, Takes
<1> QED
  BY <1>2, <1>3 DEF Bind

LEMMA ConnectMoves ==
  ASSUME Inv, NEW l \in Links, Connect(l)
  PROVE  Moves(l)
<1> DEFINE k == link[l]
           n == Enter(k, "connect")
           s == CASE Mine(k).st = "new" -> Socket("syn") [] Mine(k).st = "unbound" -> Socket("udp")
                  [] OTHER -> Mine(k)
<1>1. /\ Holds(l) /\ k.pc = "top" /\ k.ste = "standby" /\ Client(k) /\ k.cnt = 0
      /\ Put(l, n) /\ Keep(k, s)
  BY DEF Connect, At, Holds
<1>2. /\ n \in Links_ /\ n.ste = "connect" /\ n.wait = 0 /\ n.pIf = k.pIf /\ n.pc = "top"
      /\ n.type = k.type /\ n.rbuf = k.rbuf /\ n.cnt = 0 /\ n.retry = k.retry
  BY <1>1, HeldType, Entered
<1>3. /\ s \in Sockets /\ s.st # "free" /\ s.data <= Mine(k).data
      /\ Mine(k).st \notin {"listen", "udp", "unbound"} => s.st \notin {"listen", "udp", "unbound"}
  <2>1. Mine(k) \in Sockets /\ Mine(k).st # "free" /\ Mine(k).data \in Nat
    BY <1>1, HeldType DEF Sockets
  <2> QED
    BY <2>1, SocketType DEF States
<1>4. Keep(n, s)
  BY <1>1, <1>2 DEF Keep
<1> HIDE DEF n, s
<1>5. Fit(l, n)
  BY <1>1, <1>2, HeldType, Times DEF Fit, Timed, ConnectTime, Client
<1>6. Suits(n, s)
  <2>1. k.rbuf \in Nat /\ s.data \in Nat /\ Mine(k).data \in Nat
    BY <1>1, <1>3, HeldType DEF Links_, Sockets
  <2> QED
    BY <1>1, <1>2, <1>3, <2>1, HeldType, Times DEF Suits, Client
<1> QED
  BY <1>1, <1>2, <1>3, <1>4, <1>5, <1>6, Stays

LEMMA HoldOffMoves ==
  ASSUME Inv, NEW l \in Links, HoldOff(l)
  PROVE  Moves(l)
<1> DEFINE k == Second(link[l])
           n == IF k.cnt > HOLD THEN [k EXCEPT !.cnt = 0] ELSE k
<1>1. /\ Holds(l) /\ link[l].pc = "top" /\ link[l].ste = "standby" /\ link[l].cnt # 0
      /\ Put(l, n) /\ UNCHANGED <<sock, own>>
  BY DEF HoldOff, At, Holds
<1>2. /\ k \in Links_ /\ k.cnt = link[l].cnt + 1 /\ k.wait = link[l].wait + 1
      /\ k.ste = "standby" /\ k.type = link[l].type /\ k.pIf = link[l].pIf
      /\ k.retry = link[l].retry /\ k.rbuf = link[l].rbuf /\ k.pc = "top"
  BY <1>1, HeldType, Counted
<1> HIDE DEF k
<1>3. /\ n \in Links_ /\ n.cnt = (IF k.cnt > HOLD THEN 0 ELSE k.cnt) /\ n.wait = k.wait
      /\ n.ste = "standby" /\ n.type = k.type /\ n.pIf = k.pIf
      /\ n.retry = k.retry /\ n.rbuf = k.rbuf /\ n.pc = "top"
  BY <1>2 DEF Links_
<1> HIDE DEF n
<1>4. Fit(l, n)
  <2>1. StandbyTime(link[l]) /\ link[l].cnt \in Nat /\ link[l].wait \in Nat
    BY <1>1, HeldType DEF Fit, Timed, Links_
  <2>2. StandbyTime(n)
    BY <1>1, <1>2, <1>3, <2>1, Times DEF StandbyTime
  <2> QED
    BY <1>2, <1>3, <2>2, HeldType DEF Fit, Timed
<1>5. Suits(n, Mine(link[l]))
  BY <1>1, <1>2, <1>3, HeldType DEF Suits
<1> QED
  BY <1>1, <1>2, <1>3, <1>4, <1>5, StaysSame

LEMMA ListenMoves ==
  ASSUME Inv, NEW l \in Links, Listen(l)
  PROVE  Moves(l)
<1> DEFINE k == link[l]
           n == Enter(k, "connect")
<1>1. /\ Holds(l) /\ k.pc = "top" /\ k.ste = "standby" /\ k.type = "TS"
      /\ Put(l, n) /\ Keep(k, Socket("listen"))
  BY DEF Listen, At, Holds
<1>2. /\ n \in Links_ /\ n.ste = "connect" /\ n.wait = 0 /\ n.pIf = k.pIf /\ n.pc = "top"
      /\ n.type = "TS" /\ n.rbuf = k.rbuf /\ n.cnt = k.cnt /\ n.retry = k.retry
  BY <1>1, HeldType, Entered
<1>3. Socket("listen") \in Sockets /\ Socket("listen").st = "listen" /\ Socket("listen").data = 0
  BY SocketType DEF States
<1>4. Keep(n, Socket("listen"))
  BY <1>1, <1>2 DEF Keep
<1> HIDE DEF n
<1>5. Fit(l, n)
  BY <1>1, <1>2, HeldType DEF Fit, Timed, ConnectTime, Client
<1>6. Suits(n, Socket("listen"))
  BY <1>2, <1>3, <1>5, Times DEF Suits, Fit, Links_
<1> QED
  BY <1>1, <1>2, <1>3, <1>4, <1>5, <1>6, Stays

(* What a test of a connection says, and leaves of the socket.              *)
LEMMA Probed ==
  ASSUME NEW s \in Sockets, NEW a \in Probe(s)
  PROVE  /\ a[2] \in Sockets /\ a[2].data <= s.data /\ a[2].data \in Nat
         /\ a[2].st = s.st \/ (s.st = "fin" /\ a[2].st = "shut")
         /\ s.st = "est" => a[1]
<1>1. s.data \in Nat /\ s.st \in States
  BY DEF Sockets
<1>2. CASE s.st = "est"
  <2>1. a = <<TRUE, s>>
    BY <1>2, Zenon DEF Probe
  <2>2. a[2] = s /\ a[1]
    BY <2>1, Zenon
  <2> QED
    BY <1>1, <1>2, <2>2
<1>3. CASE s.st = "fin"
  <2>1. a = <<TRUE, IF s.data > 0 THEN s ELSE [s EXCEPT !.st = "shut"]>>
    BY <1>3, Zenon DEF Probe
  <2>2. a[2] = IF s.data > 0 THEN s ELSE [s EXCEPT !.st = "shut"]
    BY <2>1, Zenon
  <2> QED
    BY <1>1, <1>3, <2>2 DEF Sockets, States
<1>4. CASE s.st = "reset"
  <2>1. a = <<TRUE, s>> \/ a = <<FALSE, s>>
    BY <1>4, Zenon DEF Probe
  <2>2. ASSUME a = <<TRUE, s>> PROVE a[2] = s
    BY <2>2, Zenon
  <2>3. ASSUME a = <<FALSE, s>> PROVE a[2] = s
    BY <2>3, Zenon
  <2>4. a[2] = s
    BY <2>1, <2>2, <2>3, Zenon
  <2> QED
    BY <1>1, <1>4, <2>4
<1>5. CASE s.st = "udp" /\ s.data > 0
  <2>1. a = <<TRUE, [s EXCEPT !.data = @ - 1]>>
    BY <1>5, Zenon DEF Probe
  <2>2. a[2] = [s EXCEPT !.data = @ - 1]
    BY <2>1, Zenon
  <2>3. /\ [s EXCEPT !.data = @ - 1] \in Sockets
        /\ [s EXCEPT !.data = @ - 1].data = s.data - 1
        /\ [s EXCEPT !.data = @ - 1].st = s.st
    BY <1>1, <1>5, Times DEF Sockets
  <2> QED
    BY <1>1, <1>5, <2>2, <2>3
<1>6. CASE s.st \notin {"est", "fin", "reset"} /\ ~ (s.st = "udp" /\ s.data > 0)
  <2>1. a = <<FALSE, s>>
    BY <1>6, Zenon DEF Probe
  <2>2. a[2] = s
    BY <2>1, Zenon
  <2> QED
    BY <1>1, <1>6, <2>2
<1> QED
  BY <1>2, <1>3, <1>4, <1>5, <1>6

LEMMA ProbedSuits ==
  ASSUME Inv, NEW l \in Links, Holds(l), NEW a \in Probe(Mine(link[l])),
         NEW k \in Links_, k.rbuf = link[l].rbuf, k.type = link[l].type, k.pc # "late",
         k.ste # "connect" \/ k.type # "TS"
  PROVE  a[2] \in Sockets /\ a[2].st # "free" /\ Suits(k, a[2])
<1>1. Mine(link[l]) \in Sockets /\ Mine(link[l]).st # "free" /\ Mine(link[l]).data \in Nat
  BY HeldType DEF Sockets
<1>2. /\ a[2] \in Sockets /\ a[2].data <= Mine(link[l]).data /\ a[2].data \in Nat
      /\ a[2].st = Mine(link[l]).st \/ a[2].st = "shut"
  BY <1>1, Probed
<1>3. Suits(link[l], Mine(link[l])) /\ link[l].rbuf \in Nat
  BY HeldType DEF Links_
<1> QED
  BY <1>1, <1>2, <1>3, Times DEF Suits, Holds

LEMMA ConnectingMoves ==
  ASSUME Inv, NEW l \in Links, Connecting(l)
  PROVE  Moves(l)
<1> DEFINE k == Second(link[l])
           m == [k EXCEPT !.cnt = 0, !.dst = "check"]
           n == Enter(m, "ready")
<1>1. /\ Holds(l) /\ link[l].pc = "top" /\ link[l].ste = "connect" /\ Client(k)
      /\ \E a \in Probe(Mine(k)) :
            \/ Keep(k, a[2]) /\ Put(l, n)
            \/ k.cnt <= TMO /\ Put(l, k) /\ Keep(k, a[2])
            \/ Release(l, k)
  BY DEF Connecting, At, Holds
<1>2. /\ k \in Links_ /\ k.cnt = link[l].cnt + 1 /\ k.wait = link[l].wait + 1
      /\ k.ste = "connect" /\ k.type = link[l].type /\ k.pIf = link[l].pIf
      /\ k.retry = link[l].retry /\ k.rbuf = link[l].rbuf /\ k.pc = "top"
  BY <1>1, HeldType, Counted
<1> HIDE DEF k
<1>3. /\ m \in Links_ /\ m.cnt = 0 /\ m.dst = "check" /\ m.type = k.type /\ m.pIf = k.pIf
      /\ m.retry = k.retry /\ m.rbuf = k.rbuf /\ m.pc = "top"
  BY <1>2 DEF Links_
<1> HIDE DEF m
<1>4. /\ n \in Links_ /\ n.ste = "ready" /\ n.wait = 0 /\ n.cnt = 0 /\ n.dst = "check"
      /\ n.type = k.type /\ n.pIf = k.pIf
      /\ n.retry = k.retry /\ n.rbuf = k.rbuf /\ n.pc = "top"
  BY <1>3, Entered
<1> HIDE DEF n
<1>5. Mine(k) = Mine(link[l]) /\ Client(link[l]) /\ k.type # "TS"
  BY <1>1, <1>2 DEF Mine, Client
<1>6. PICK a \in Probe(Mine(link[l])) :
            \/ Keep(k, a[2]) /\ Put(l, n)
            \/ k.cnt <= TMO /\ Put(l, k) /\ Keep(k, a[2])
            \/ Release(l, k)
  BY <1>1, <1>5
<1>7. CASE Keep(k, a[2]) /\ Put(l, n)
  <2>1. Fit(l, n)
    <3>1. Before(n) \in Nat
      BY <1>4, Times DEF Before
    <3>2. ReadyTime(n)
      BY <1>1, <1>4, <3>1, Times DEF ReadyTime, Client
    <3> QED
      BY <1>2, <1>4, <3>2, HeldType DEF Fit, Timed
  <2>2. a[2] \in Sockets /\ a[2].st # "free" /\ Suits(n, a[2])
    BY <1>1, <1>2, <1>4, ProbedSuits
  <2>3. Keep(n, a[2])
    BY <1>4, <1>7 DEF Keep
  <2> QED
    BY <1>1, <1>2, <1>4, <1>7, <2>1, <2>2, <2>3, Stays
<1>8. CASE k.cnt <= TMO /\ Put(l, k) /\ Keep(k, a[2])
  <2>1. Fit(l, k)
    <3>1. ConnectTime(link[l]) /\ link[l].cnt \in Nat /\ link[l].wait \in Nat
      BY <1>1, HeldType DEF Fit, Timed, Links_
    <3>2. ConnectTime(k)
      BY <1>1, <1>2, <1>5, <1>8, <3>1, Times DEF ConnectTime
    <3> QED
      BY <1>2, <3>2, HeldType DEF Fit, Timed
  <2>2. a[2] \in Sockets /\ a[2].st # "free" /\ Suits(k, a[2])
    BY <1>1, <1>2, <1>5, ProbedSuits
  <2> QED
    BY <1>1, <1>2, <1>8, <2>1, <2>2, Stays
<1>9. CASE Release(l, k)
  BY <1>1, <1>2, <1>9, HeldType, Releases DEF Fit
<1> QED
  BY <1>6, <1>7, <1>8, <1>9

(* A listening server is asked for a caller.                                *)
LEMMA AcceptsMoves ==
  ASSUME Inv, NEW l \in Links, link[l].ste = "connect", link[l].type = "TS", link[l].pc = "top",
         NEW k \in Links_, k.ste = "connect", k.type = "TS", k.pIf = link[l].pIf, k.pc = "top",
         k.retry = link[l].retry, k.rbuf = link[l].rbuf, ConnectTime(k), Accepts(l, k)
  PROVE  Moves(l)
<1> DEFINE s == Mine(k)
           t == [s EXCEPT !.data = @ - 1]
<1>1. Holds(l) /\ ~ Client(k)
  BY DEF Holds, Client
<1>2. /\ s = Mine(link[l]) /\ s \in Sockets /\ s.st = "listen" /\ s.data \in Nat
      /\ link[l].rbuf \in Nat /\ link[l].rbuf + s.data <= MSGS
  BY <1>1, HeldType DEF Mine, Suits, Sockets, Links_, Holds
<1> HIDE DEF s
<1>3. Fit(l, k)
  BY HeldType DEF Fit, Timed
<1>4. CASE s.data > 0 /\ Put(l, k) /\ Keep(k, t)
  <2>1. t \in Sockets /\ t.st = "listen" /\ t.data = s.data - 1
    <3>1. s.data \in 0 .. MSGS /\ MSGS \in Nat /\ s.data > 0
      BY <1>2, <1>4, Times DEF Sockets
    <3>2. s.data - 1 \in 0 .. MSGS
      BY <3>1
    <3> QED
      BY <1>2, <3>2 DEF Sockets
  <2> HIDE DEF t
  <2>2. Suits(k, t)
    BY <1>2, <1>4, <2>1, Times DEF Suits
  <2> QED
    BY <1>1, <1>3, <1>4, <2>1, <2>2, Stays
<1>5. CASE Put(l, k) /\ UNCHANGED <<sock, own>>
  <2>1. Suits(k, Mine(link[l]))
    BY <1>2 DEF Suits
  <2> QED
    BY <1>1, <1>3, <1>5, <2>1, StaysSame
<1>6. ASSUME NEW h \in Handles, Lowest(h),
             sock' = [sock EXCEPT ![k.pIf] = Closed, ![h] = Socket("est")],
             own' = [own EXCEPT ![h] = l],
             Put(l, Enter([k EXCEPT !.cnt = 0, !.pIf = h], "ready"))
      PROVE  Moves(l)
  <2> DEFINE m == [k EXCEPT !.cnt = 0, !.pIf = h]
             n == Enter(m, "ready")
  <2>1. /\ m \in Links_ /\ m.cnt = 0 /\ m.type = "TS" /\ m.pIf = h
        /\ m.retry = k.retry /\ m.rbuf = k.rbuf /\ m.pc = "top"
    BY DEF Links_
  <2> HIDE DEF m
  <2>2. /\ n \in Links_ /\ n.ste = "ready" /\ n.wait = 0 /\ n.cnt = 0 /\ n.type = "TS"
        /\ n.pIf = h /\ n.retry = k.retry /\ n.rbuf = k.rbuf /\ n.pc = "top"
    BY <2>1, Entered
  <2>3. Put(l, n)
    BY <1>6 DEF m
  <2> HIDE DEF n
  <2>4. Fit(l, n)
    BY <1>3, <2>2, HeldType, Times DEF Fit, Timed, ReadyTime, Client
  <2>5. Socket("est") \in Sockets /\ Socket("est").st = "est" /\ Socket("est").data = 0
    BY SocketType DEF States
  <2>6. Suits(n, Socket("est"))
    BY <1>2, <2>2, <2>5, Times DEF Suits
  <2> QED
    BY <1>1, <1>6, <2>2, <2>3, <2>4, <2>5, <2>6, Takes
<1> QED
  BY <1>2, <1>4, <1>5, <1>6 DEF Accepts, s

LEMMA AcceptingMoves ==
  ASSUME Inv, NEW l \in Links, Accepting(l)
  PROVE  Moves(l)
<1> DEFINE k == Second(link[l])
<1>1. /\ link[l].pc = "top" /\ link[l].ste = "connect" /\ k.type = "TS" /\ k.cnt <= LONG
      /\ Accepts(l, k)
  BY DEF Accepting, At
<1>2. /\ k \in Links_ /\ k.cnt = link[l].cnt + 1 /\ k.wait = link[l].wait + 1
      /\ k.ste = "connect" /\ k.type = link[l].type /\ k.pIf = link[l].pIf
      /\ k.retry = link[l].retry /\ k.rbuf = link[l].rbuf /\ k.pc = "top"
  BY <1>1, HeldType, Counted
<1> HIDE DEF k
<1>3. ConnectTime(link[l]) /\ link[l].cnt \in Nat /\ link[l].wait \in Nat
  BY <1>1, HeldType DEF Fit, Timed, Links_
<1>4. ConnectTime(k)
  BY <1>1, <1>2, <1>3, Times DEF ConnectTime, Client
<1> QED
  BY <1>1, <1>2, <1>4, AcceptsMoves

LEMMA ExpireMoves ==
  ASSUME Inv, NEW l \in Links, Expire(l)
  PROVE  Moves(l)
<1> DEFINE k == Second(link[l])
           m == [k EXCEPT !.cnt = 0, !.pc = "late"]
<1>1. Holds(l) /\ k.type = "TS" /\ Release(l, m)
  BY DEF Expire, At, Holds
<1>2. /\ k \in Links_ /\ k.type = link[l].type /\ k.pIf = link[l].pIf
      /\ k.retry = link[l].retry /\ k.rbuf = link[l].rbuf
  BY HeldType, Counted
<1> HIDE DEF k
<1>3. /\ m \in Links_ /\ m.type = k.type /\ m.pIf = k.pIf /\ m.retry = k.retry /\ m.rbuf = k.rbuf
  BY <1>2 DEF Links_
<1> HIDE DEF m
<1> QED
  BY <1>1, <1>2, <1>3, HeldType, Releases DEF Fit

(* ... and a server that has been released asks in vain: the handle it has  *)
(* kept is closed, or belongs to a TCP client.                              *)
LEMMA LateMoves ==
  ASSUME ServerAlone, Inv, NEW l \in Links, Late(l)
  PROVE  Moves(l)
<1> DEFINE k == [link[l] EXCEPT !.pc = "top"]
<1>1. link[l].pc = "late" /\ Accepts(l, k)
  BY DEF Late
<1>2. /\ link[l].ste = "idle" /\ link[l].type = "TS" /\ "TS" \in Types[l] /\ link[l].wait = 0
      /\ ~ Holds(l)
  BY <1>1, HeldType DEF Suits, Fit, Timed, Holds
<1>3. /\ k \in Links_ /\ k.ste = "idle" /\ k.type = "TS" /\ k.pIf = link[l].pIf
      /\ k.wait = 0 /\ k.retry = link[l].retry /\ k.rbuf = link[l].rbuf /\ k.pc = "top"
  BY <1>2, HeldType DEF Links_
<1> HIDE DEF k
<1>4. Mine(k).st \notin {"listen", "udp"}
  <2>1. CASE Open(k.pIf)
    <3>1. PICK m \in Links : Holds(m) /\ link[m].pIf = k.pIf
      BY <2>1 DEF Inv, HeldInv, SocketsAreHeld, Open
    <3>2. l # m /\ link[m].type = "TC"
      BY <1>2, <3>1, HeldType DEF ServerAlone, Fit
    <3>3. Mine(link[m]).st \notin {"listen", "udp"}
      BY <3>1, <3>2, HeldType DEF Suits, Holds
    <3> QED
      BY <3>1, <3>3 DEF Mine
  <2>2. CASE ~ Open(k.pIf)
    <3>1. Closed.st = "free"
      BY SocketType DEF Closed, States
    <3> QED
      BY <2>2, <3>1 DEF Open, Mine
  <2> QED
    BY <2>1, <2>2
<1>5. Put(l, k) /\ UNCHANGED <<sock, own>>
  BY <1>1, <1>4 DEF Accepts
<1>6. Fit(l, k)
  BY <1>2, <1>3, HeldType DEF Fit, Timed
<1> QED
  BY <1>2, <1>3, <1>5, <1>6, Rests

(* A keep-alive sets the count back by what the seconds of silence gain on  *)
(* it.                                                                      *)
LEMMA KeepAliveType ==
  ASSUME NEW k \in Links_
  PROVE  LET n == KeepAlive(k) IN
         /\ n \in Links_ /\ n.ste = k.ste /\ n.type = k.type /\ n.pIf = k.pIf
         /\ n.rbuf = k.rbuf /\ n.pc = k.pc /\ n.wait = k.wait
         /\ k.dst = "ready" /\ k.retry < RETRIES =>
               n.dst = "ready" /\ n.retry = k.retry + 1 /\ n.cnt = REFRESH - KEEP
         /\ k.dst = "ready" /\ ~ k.retry < RETRIES =>
               n.dst = "check" /\ n.retry = k.retry /\ n.cnt = 0
         /\ k.dst # "ready" => n.dst = k.dst /\ n.retry = k.retry /\ n.cnt = 0
<1>1. REFRESH - KEEP \in Nat
  BY Times
<1>2. CASE k.dst # "ready"
  BY <1>2 DEF KeepAlive, Links_
<1>3. CASE k.dst = "ready" /\ k.retry < RETRIES
  <2> DEFINE r == k.retry + 1
             c == REFRESH - KEEP
             m == [k EXCEPT !.retry = r, !.cnt = c]
  <2>1. KeepAlive(k) = m
    BY <1>3 DEF KeepAlive
  <2>2. r \in Nat /\ c \in Nat
    BY <1>1 DEF Links_
  <2> HIDE DEF r, c
  <2>3. /\ m \in Links_ /\ m.ste = k.ste /\ m.type = k.type /\ m.pIf = k.pIf
        /\ m.rbuf = k.rbuf /\ m.pc = k.pc /\ m.wait = k.wait
        /\ m.dst = k.dst /\ m.retry = r /\ m.cnt = c
    BY <2>2 DEF Links_
  <2> HIDE DEF m
  <2> QED
    BY <1>3, <2>1, <2>3 DEF r, c
<1>4. CASE k.dst = "ready" /\ ~ k.retry < RETRIES
  BY <1>4 DEF KeepAlive, Links_
<1> QED
  BY <1>2, <1>3, <1>4

LEMMA CheckMoves ==
  ASSUME Inv, NEW l \in Links, Check(l)
  PROVE  Moves(l)
<1> DEFINE j == Second(link[l])
           k == [j EXCEPT !.pc = "analyze"]
<1>1. Holds(l) /\ link[l].ste = "ready" /\ (CheckFails(l, k) \/ CheckHolds(l, k))
  BY DEF Check, At, Holds
<1>2. /\ j \in Links_ /\ j.cnt = link[l].cnt + 1 /\ j.wait = link[l].wait + 1
      /\ j.ste = "ready" /\ j.type = link[l].type /\ j.pIf = link[l].pIf /\ j.dst = link[l].dst
      /\ j.retry = link[l].retry /\ j.rbuf = link[l].rbuf
  BY <1>1, HeldType, Counted
<1> HIDE DEF j
<1>3. /\ k \in Links_ /\ k.cnt = link[l].cnt + 1 /\ k.wait = link[l].wait + 1
      /\ k.ste = "ready" /\ k.type = link[l].type /\ k.pIf = link[l].pIf /\ k.dst = link[l].dst
      /\ k.retry = link[l].retry /\ k.rbuf = link[l].rbuf /\ k.pc = "analyze"
  BY <1>2 DEF Links_
<1> HIDE DEF k
<1>4. Mine(k) = Mine(link[l])
  BY <1>3 DEF Mine
<1>5. CASE CheckFails(l, k)
  <2> DEFINE m == [k EXCEPT !.cnt = 0]
  <2>1. Release(l, m) \/ Release(l, k)
    BY <1>5 DEF CheckFails
  <2>2. /\ m \in Links_ /\ m.type = k.type /\ m.pIf = k.pIf /\ m.retry = k.retry
        /\ m.rbuf = k.rbuf /\ m.pc = "analyze"
    BY <1>3 DEF Links_
  <2> HIDE DEF m
  <2>3. CASE Release(l, m)
    BY <1>1, <1>3, <2>2, <2>3, HeldType, Releases DEF Fit
  <2>4. CASE Release(l, k)
    BY <1>1, <1>3, <2>4, HeldType, Releases DEF Fit
  <2> QED
    BY <2>1, <2>3, <2>4
<1>6. CASE CheckHolds(l, k)
  <2> DEFINE n == IF Silent(k) THEN KeepAlive(k) ELSE k
  <2>1. PICK a \in Alive(k) :
             (Silent(k) => Client(k) /\ k.dst # "check") /\ Put(l, n) /\ Keep(k, a[2])
    BY <1>6 DEF CheckHolds
  <2>2. /\ n \in Links_ /\ n.ste = "ready" /\ n.type = k.type /\ n.pIf = k.pIf
        /\ n.rbuf = k.rbuf /\ n.pc = "analyze" /\ n.wait = k.wait
        /\ ~ Silent(k) => n = k
        /\ Silent(k) => n = KeepAlive(k)
    BY <1>3, KeepAliveType
  <2> HIDE DEF n
  <2>3. a[2] \in Sockets /\ a[2].st # "free" /\ Suits(n, a[2])
    <3>1. CASE k.type = "TS"
      <4>1. a = <<HasPeer(Mine(k)), Mine(k)>>
        BY <3>1, Zenon DEF Alive
      <4>2. a[2] = Mine(link[l])
        BY <1>4, <4>1, Zenon
      <4> QED
        BY <1>1, <1>3, <2>2, <3>1, <4>2, HeldType DEF Suits
    <3>2. CASE k.type # "TS"
      BY <1>1, <1>3, <1>4, <2>2, <3>2, ProbedSuits DEF Alive
    <3> QED
      BY <3>1, <3>2
  <2>4. /\ ReadyTime(link[l]) /\ link[l].cnt \in Nat /\ link[l].wait \in Nat
        /\ link[l].retry \in Nat /\ link[l].retry <= RETRIES
    BY <1>1, HeldType DEF Fit, Timed, Links_
  <2>5. n.retry <= RETRIES /\ ReadyTime(n)
    <3>1. Before(link[l]) = Before(k) /\ Before(k) \in Nat
      <4>1. k.dst = link[l].dst /\ k.retry = link[l].retry /\ k.retry \in Nat
        BY <1>3, <2>4
      <4>2. Before(link[l]) = Before(k)
        BY <4>1, Zenon DEF Before
      <4> QED
        BY <4>1, <4>2, BeforeType
    <3>2. CASE ~ Silent(k)
      <4>1. n = k /\ k.cnt <= REFRESH
        BY <1>3, <2>2, <2>4, <3>2, LinkAssumption DEF Silent, LinkAssumption
      <4>2. ReadyTime(k)
        BY <1>3, <2>4, <3>1, <4>1 DEF ReadyTime, Client
      <4> QED
        BY <1>3, <2>4, <4>1, <4>2
    <3>3. CASE Silent(k)
      <4>1. Client(k) /\ Client(n) /\ Client(link[l]) /\ k.dst = "ready" /\ k.cnt = REFRESH + 1
        BY <1>3, <2>1, <2>2, <2>4, <3>3, Times DEF Client, Silent, ReadyTime
      <4> DEFINE b == k.retry * (KEEP + 1)
      <4>2. b \in Nat /\ k.wait <= REFRESH + 1 + b
        BY <1>3, <2>4, <4>1, Times DEF ReadyTime, Before
      <4>3. CASE k.retry < RETRIES
        <5>1. n.dst = "ready" /\ n.retry = k.retry + 1 /\ n.cnt = REFRESH - KEEP
          BY <1>3, <2>2, <3>3, <4>1, <4>3, KeepAliveType
        <5>2. Before(n) = b + KEEP + 1
          BY <1>3, <2>4, <5>1, Times DEF Before
        <5> HIDE DEF b
        <5> QED
          BY <1>3, <2>2, <2>4, <4>1, <4>2, <4>3, <5>1, <5>2, Times DEF ReadyTime
      <4>4. CASE ~ k.retry < RETRIES
        <5>1. n.dst = "check" /\ n.retry = k.retry /\ n.cnt = 0
          BY <1>3, <2>2, <3>3, <4>1, <4>4, KeepAliveType
        <5>2. k.retry = RETRIES
          BY <1>3, <2>4, <4>4, LinkAssumption DEF LinkAssumption
        <5>3. Before(n) = REFRESH + 1 + b
          BY <5>1, <5>2 DEF Before
        <5> HIDE DEF b
        <5> QED
          BY <1>3, <2>2, <2>4, <4>1, <4>2, <5>1, <5>3, Times DEF ReadyTime
      <4> QED
        BY <4>3, <4>4
    <3> QED
      BY <3>2, <3>3
  <2>6. Fit(l, n)
    BY <1>3, <2>2, <2>5, HeldType DEF Fit, Timed
  <2>7. Keep(n, a[2])
    BY <2>1, <2>2 DEF Keep
  <2> QED
    BY <1>1, <1>3, <2>1, <2>2, <2>3, <2>6, <2>7, Stays
<1> QED
  BY <1>1, <1>5, <1>6

LEMMA MessageFits ==
  ASSUME NEW l \in Links, NEW k, Fit(l, k), NEW n \in Nat, n <= MSGS, k.rbuf <= n
  PROVE  LET m == Message(k, n) IN
         /\ Fit(l, m) /\ m.ste = k.ste /\ m.type = k.type /\ m.pIf = k.pIf
         /\ m.pc = "top" /\ m.rbuf <= n /\ m.rbuf \in Nat
<1> DEFINE m == Message(k, n)
<1>1. CASE n = 0
  <2>1. /\ m \in Links_ /\ m.ste = k.ste /\ m.type = k.type /\ m.pIf = k.pIf /\ m.pc = "top"
        /\ m.rbuf = k.rbuf /\ m.cnt = k.cnt /\ m.retry = k.retry /\ m.dst = k.dst /\ m.wait = k.wait
    BY <1>1 DEF Message, Links_, Fit
  <2> HIDE DEF m
  <2>2. Timed(m)
    BY <2>1 DEF Fit, Timed, StandbyTime, ConnectTime, ReadyTime, Before, Client
  <2> QED
    BY <1>1, <2>1, <2>2 DEF Fit, Links_, m
<1>2. CASE n # 0
  <2> DEFINE b == n - 1
             w == [k EXCEPT !.pc = "top", !.rbuf = b, !.cnt = 0, !.retry = 0, !.dst = "ready", !.wait = 0]
  <2>4. m = w
    BY <1>2 DEF Message
  <2>5. b \in Nat
    BY <1>2
  <2> HIDE DEF m, b
  <2>1. /\ m \in Links_ /\ m.ste = k.ste /\ m.type = k.type /\ m.pIf = k.pIf /\ m.pc = "top"
        /\ m.rbuf = b /\ m.cnt = 0 /\ m.retry = 0 /\ m.dst = "ready" /\ m.wait = 0
    BY <2>4, <2>5 DEF Links_, Fit
  <2>2. Before(m) \in Nat
    BY <2>1, Times DEF Before
  <2>3. Timed(m)
    BY <2>1, <2>2, Times DEF Timed, StandbyTime, ConnectTime, ReadyTime
  <2> QED
    BY <1>2, <2>1, <2>3, <2>5, Times DEF Fit, m, b
<1> QED
  BY <1>1, <1>2

LEMMA AnalyzeMoves ==
  ASSUME Inv, NEW l \in Links, Analyze(l)
  PROVE  Moves(l)
<1> DEFINE k == link[l]
           s == Mine(k)
           t == [st |-> IF s.st = "fin" THEN "shut" ELSE s.st, data |-> 0]
<1>1. k \in Links_ /\ Fit(l, k) /\ k.rbuf \in Nat /\ k.rbuf <= MSGS /\ Suits(k, s)
  BY HeldType DEF Fit, Links_
<1>2. CASE k.ste = "ready"
  <2>1. Holds(l) /\ s \in Sockets /\ s.data \in Nat /\ s.st # "free" /\ k.rbuf + s.data <= MSGS
    BY <1>1, <1>2, HeldType DEF Holds, Suits, Sockets
  <2>2. PICK n \in 0 .. s.data : Put(l, Message(k, k.rbuf + n)) /\ Keep(k, t)
    BY <1>2, <2>1 DEF Analyze
  <2>3. k.rbuf + n \in Nat /\ k.rbuf + n <= MSGS /\ k.rbuf <= k.rbuf + n
    BY <1>1, <2>1, <2>2, Times
  <2> DEFINE m == Message(k, k.rbuf + n)
  <2>4. /\ Fit(l, m) /\ m.ste = "ready" /\ m.type = k.type /\ m.pIf = k.pIf
        /\ m.pc = "top" /\ m.rbuf \in Nat /\ m.rbuf <= MSGS
    BY <1>1, <1>2, <2>3, MessageFits, Times
  <2> HIDE DEF m
  <2>5. t \in Sockets /\ t.st # "free" /\ t.data = 0 /\ (t.st = s.st \/ t.st = "shut")
    BY <2>1, Times DEF Sockets, States
  <2> HIDE DEF t
  <2>6. Suits(m, t)
    BY <1>1, <1>2, <2>4, <2>5 DEF Suits
  <2>7. Put(l, m) /\ Keep(m, t)
    BY <2>2, <2>4 DEF Keep, m
  <2> QED
    BY <2>1, <2>4, <2>5, <2>6, <2>7, Stays
<1>3. CASE k.ste # "ready"
  <2> DEFINE m == Message(k, k.rbuf)
  <2>1. Put(l, m) /\ UNCHANGED <<sock, own>>
    BY <1>3 DEF Analyze, At
  <2>2. /\ Fit(l, m) /\ m.ste = k.ste /\ m.type = k.type /\ m.pIf = k.pIf
        /\ m.pc = "top" /\ m.rbuf \in Nat /\ m.rbuf <= k.rbuf
    BY <1>1, MessageFits
  <2> HIDE DEF m
  <2>3. CASE Holds(l)
    <3>1. s.data \in Nat
      BY <2>3, HeldType DEF Sockets
    <3>2. Suits(m, s)
      BY <1>1, <2>2, <3>1, Times DEF Suits
    <3> QED
      BY <2>1, <2>2, <2>3, <3>2, StaysSame DEF Holds
  <2>4. CASE ~ Holds(l)
    BY <2>1, <2>2, <2>4, Rests DEF Holds
  <2> QED
    BY <2>3, <2>4
<1> QED
  BY <1>2, <1>3

LEMMA SetChlMoves ==
  ASSUME ServerAlone, Inv, NEW l \in Links, NEW ty \in Types[l], SetChl(l, ty)
  PROVE  Moves(l)
<1> DEFINE k == [link[l] EXCEPT !.type = ty]
<1>1. link[l].pc = "top" /\ Release(l, k)
  BY DEF SetChl
<1>5. ty \in {"TC", "TS", "UC", "US"}
  BY Times
<1>2. /\ k \in Links_ /\ k.type = ty /\ k.ste = link[l].ste /\ k.pIf = link[l].pIf /\ k.pc = "top"
      /\ k.retry = link[l].retry /\ k.rbuf = link[l].rbuf /\ k.wait = link[l].wait
  BY <1>1, <1>5, HeldType DEF Links_
<1> HIDE DEF k
<1>3. CASE Holds(l)
  BY <1>1, <1>2, <1>3, HeldType, Releases DEF Fit
<1>4. CASE ~ Holds(l)
  <2>1. link[l].ste = "idle" /\ link[l].pIf = -1
    BY <1>4 DEF SetChl, ServerAlone, Holds, NoHandle
  <2>2. ~ Open(k.pIf)
    BY <1>2, <2>1, SocketsAssumption DEF Open, Handles, SocketsAssumption
  <2>3. Put(l, k) /\ UNCHANGED <<sock, own>>
    BY <1>1, <2>2 DEF Release
  <2>4. Fit(l, k)
    BY <1>2, <2>1, HeldType DEF Fit, Timed
  <2> QED
    BY <1>2, <1>4, <2>1, <2>3, <2>4, Rests
<1> QED
  BY <1>3, <1>4

-----------------------------------------------------------------------------
(* What the network does to a socket keeps it open and of its kind, and no  *)
(* more than MSGS messages wait in it and in the buffer of its link.        *)
LEMMA NetworkKeepsInv ==
  ASSUME Inv, NEW h \in Handles, Network(h)
  PROVE  Inv'
<1>1. sock[h] \in Sockets /\ sock[h].data \in Nat
  BY DEF Inv, TypeOK, Sockets
<1> DEFINE Can(s) ==
         /\ sock' = [sock EXCEPT ![h] = s]
         /\ s.st # "free" /\ sock[h].st # "free"
         /\ s.st = sock[h].st \/ s.st \in {"est", "reset", "fin"}
         /\ sock[h].st = "listen" => s.st = "listen"
         /\ s.data <= sock[h].data \/ (s.data = sock[h].data + 1 /\ Waiting(h))
<1>2. \E s \in Sockets : Can(s)
  <2>1. CASE Established(h)
    <3> DEFINE s == Socket("est")
    <3>1. s \in Sockets /\ s.st = "est" /\ s.data = 0
      BY SocketType DEF States
    <3>2. sock' = [sock EXCEPT ![h] = s] /\ sock[h].st = "syn"
      BY <2>1 DEF Established, Becomes
    <3> HIDE DEF s
    <3>3. Can(s)
      BY <1>1, <3>1, <3>2
    <3> QED
      BY <3>1, <3>3
  <2>2. CASE Refused(h)
    <3> DEFINE s == Socket("reset")
    <3>1. s \in Sockets /\ s.st = "reset" /\ s.data = 0
      BY SocketType DEF States
    <3>2. sock' = [sock EXCEPT ![h] = s] /\ sock[h].st = "syn"
      BY <2>2 DEF Refused, Becomes
    <3> HIDE DEF s
    <3>3. Can(s)
      BY <1>1, <3>1, <3>2
    <3> QED
      BY <3>1, <3>3
  <2>3. CASE PeerCloses(h)
    <3> DEFINE s == [sock[h] EXCEPT !.st = "fin"]
    <3>1. s \in Sockets /\ s.st = "fin" /\ s.data = sock[h].data
      BY <1>1 DEF Sockets, States
    <3>2. sock' = [sock EXCEPT ![h] = s] /\ sock[h].st = "est"
      BY <2>3 DEF PeerCloses, Becomes
    <3> HIDE DEF s
    <3>3. Can(s)
      BY <1>1, <3>1, <3>2
    <3> QED
      BY <3>1, <3>3
  <2>4. CASE PeerResets(h)
    <3> DEFINE s == Socket("reset")
    <3>1. s \in Sockets /\ s.st = "reset" /\ s.data = 0
      BY SocketType DEF States
    <3>2. sock' = [sock EXCEPT ![h] = s] /\ sock[h].st \in {"est", "fin", "shut"}
      BY <2>4 DEF PeerResets, Becomes
    <3> HIDE DEF s
    <3>3. Can(s)
      BY <1>1, <3>1, <3>2
    <3> QED
      BY <3>1, <3>3
  <2>5. CASE Waiting(h) /\ Arrives(h)
    <3> DEFINE s == [sock[h] EXCEPT !.data = @ + 1]
    <3>4. sock[h].data + 1 \in 0 .. MSGS
      BY <1>1, <2>5, SocketsAssumption DEF Arrives, SocketsAssumption
    <3>1. s \in Sockets /\ s.st = sock[h].st /\ s.data = sock[h].data + 1
      BY <1>1, <3>4 DEF Sockets
    <3>2. sock' = [sock EXCEPT ![h] = s] /\ sock[h].st # "free"
      BY <2>5 DEF Arrives, Becomes
    <3> HIDE DEF s
    <3>3. Can(s)
      BY <1>1, <2>5, <3>1, <3>2
    <3> QED
      BY <3>1, <3>3
  <2> HIDE DEF Can
  <2> QED
    BY <2>1, <2>2, <2>3, <2>4, <2>5 DEF Network
<1>3. link' = link /\ own' = own
  BY DEF Network, Established, Refused, PeerCloses, PeerResets, Arrives, Becomes
<1>4. PICK s \in Sockets : Can(s)
  BY <1>2
<1>5. TypeOK'
  BY <1>3, <1>4 DEF Inv, TypeOK
<1>6. sock'[h] = s /\ \A g \in Handles : (g # h => sock'[g] = sock[g]) /\ (Open(g)' <=> Open(g))
  BY <1>4 DEF Inv, TypeOK, Open
<1>7. SocketsAreHeld'
  BY <1>3, <1>6 DEF Inv, HeldInv, SocketsAreHeld, Holds, Open
<1>8. ASSUME NEW l \in Links
      PROVE  Suits(link[l], Mine(link[l]))'
  <2>1. CASE ~ Holds(l)
    BY <1>3, <2>1 DEF Inv, HeldInv, Suits, Holds
  <2>2. CASE Holds(l) /\ link[l].pIf # h
    <3>1. Mine(link[l])' = Mine(link[l])
      BY <1>3, <1>6, <2>2 DEF Mine
    <3> QED
      BY <1>3, <3>1 DEF Inv, HeldInv
  <2>3. CASE Holds(l) /\ link[l].pIf = h
    <3>1. Mine(link[l]) = sock[h] /\ Mine(link[l])' = s
      BY <1>3, <1>6, <2>3 DEF Mine
    <3>2. Suits(link[l], sock[h]) /\ link[l].rbuf \in Nat /\ s.data \in Nat
      BY <3>1, HeldType DEF Links_, Sockets
    <3>3. link[l].rbuf + s.data <= MSGS
      BY <1>1, <1>4, <2>3, <3>2, Times DEF Waiting, Suits, Holds
    <3>4. Suits(link[l], s)
      BY <1>4, <3>2, <3>3 DEF Suits
    <3> QED
      BY <1>3, <3>1, <3>4
  <2> QED
    BY <2>1, <2>2, <2>3
<1>9. \A l \in Links : Timed(link'[l])
  BY <1>3 DEF Inv
<1> QED
  BY <1>5, <1>7, <1>8, <1>9 DEF Inv, HeldInv

LEMMA TickKeepsInv ==
  ASSUME Inv, Tick
  PROVE  Inv'
<1> DEFINE k(l) == [link[l] EXCEPT !.due = TRUE]
           F == {"ste", "type", "pIf", "dst", "cnt", "retry", "rbuf", "due", "pc", "wait"}
<1>1. link' = [l \in Links |-> k(l)] /\ sock' = sock /\ own' = own
  BY DEF Tick
<1>2. ASSUME NEW l \in Links
      PROVE  /\ link'[l] \in Links_
             /\ link'[l].ste = link[l].ste /\ link'[l].type = link[l].type
             /\ link'[l].pIf = link[l].pIf /\ link'[l].dst = link[l].dst
             /\ link'[l].cnt = link[l].cnt /\ link'[l].retry = link[l].retry
             /\ link'[l].rbuf = link[l].rbuf /\ link'[l].pc = link[l].pc
             /\ link'[l].wait = link[l].wait
  <2> DEFINE n == k(l)
  <2>1. /\ n.ste = link[l].ste /\ n.type = link[l].type
        /\ n.pIf = link[l].pIf /\ n.dst = link[l].dst
        /\ n.cnt = link[l].cnt /\ n.retry = link[l].retry
        /\ n.rbuf = link[l].rbuf /\ n.pc = link[l].pc
        /\ n.wait = link[l].wait /\ n.due = TRUE
    BY HeldType DEF Links_
  <2>2. n.due \in BOOLEAN
    BY <2>1, Zenon
  <2>3. n = [x \in F |-> n[x]]
    BY HeldType DEF Links_
  <2>4. link'[l] = n
    BY <1>1
  <2> HIDE DEF n
  <2>5. n = [ste |-> n.ste, type |-> n.type, pIf |-> n.pIf, dst |-> n.dst, cnt |-> n.cnt,
             retry |-> n.retry, rbuf |-> n.rbuf, due |-> n.due, pc |-> n.pc, wait |-> n.wait]
    BY <2>3
  <2>6. n \in Links_
    BY <2>1, <2>2, <2>5, HeldType DEF Links_
  <2> QED
    BY <2>1, <2>4, <2>6
<1>3. link' \in [Links -> Links_]
  BY <1>1, <1>2
<1> HIDE DEF k
<1>4. TypeOK'
  BY <1>1, <1>2, <1>3 DEF Inv, TypeOK
<1>5. HeldInv'
  BY <1>1, <1>2 DEF Inv, HeldInv, SocketsAreHeld, Suits, Mine, Holds, Open
<1>6. \A l \in Links : Timed(link'[l])
  BY <1>2 DEF Inv, Timed, StandbyTime, ConnectTime, ReadyTime, Before, Client
<1> QED
  BY <1>4, <1>5, <1>6 DEF Inv

LEMMA InvInit == Init => Inv
<1> SUFFICES ASSUME Init PROVE Inv
  OBVIOUS
<1>1. sock = [h \in Handles |-> Closed] /\ own = [h \in Handles |-> Nobody]
  BY DEF Init, TableInit
<1>2. Closed \in Sockets /\ Closed.st = "free"
  BY SocketType DEF Closed, States
<1>3. ASSUME NEW l \in Links
      PROVE  /\ link[l] \in Links_ /\ link[l].type \in Types[l]
             /\ link[l].ste = "idle" /\ link[l].pc = "top" /\ link[l].wait = 0
             /\ link[l].retry = 0 /\ link[l].rbuf = 0
  <2>1. link[l].type \in Types[l] /\ \E m \in Links : \E ty \in Types[m] : link[l] = Unbound(ty)
    BY DEF Init
  <2>5. PICK m \in Links : \E ty \in Types[m] : link[l] = Unbound(ty)
    BY <2>1
  <2>2. PICK ty \in Types[m] : link[l] = Unbound(ty)
    BY <2>5
  <2>3. ty \in {"TC", "TS", "UC", "US"}
    BY Times
  <2>4. Unbound(ty) \in Links_
    BY <2>3 DEF Unbound, Links_, NoHandle
  <2> QED
    BY <2>1, <2>2, <2>4 DEF Unbound
<1>4. link \in [Links -> Links_]
  BY <1>3 DEF Init
<1>5. TypeOK
  BY <1>1, <1>2, <1>3, <1>4, Times DEF TypeOK
<1>6. HeldInv
  BY <1>1, <1>2, <1>3 DEF HeldInv, SocketsAreHeld, Holds, Open, Suits
<1>7. \A l \in Links : Timed(link[l])
  BY <1>3 DEF Timed
<1> QED
  BY <1>5, <1>6, <1>7 DEF Inv

LEMMA InvStep == ServerAlone /\ Inv /\ [Next]_vars => Inv'
<1> SUFFICES ASSUME ServerAlone, Inv, [Next]_vars PROVE Inv'
  OBVIOUS
<1>1. ASSUME NEW l \in Links, Handler(l)
      PROVE  Inv'
  <2>1. Moves(l)
    BY <1>1, BindMoves, ConnectMoves, HoldOffMoves, ListenMoves, ConnectingMoves, AcceptingMoves,
       ExpireMoves, LateMoves, CheckMoves, AnalyzeMoves DEF Handler
  <2> QED
    BY <2>1, MovesKeepInv
<1>2. ASSUME NEW l \in Links, NEW ty \in Types[l], SetChl(l, ty)
      PROVE  Inv'
  BY <1>2, SetChlMoves, MovesKeepInv
<1>3. ASSUME NEW h \in Handles, Network(h)
      PROVE  Inv'
  BY <1>3, NetworkKeepsInv
<1>4. CASE Tick
  BY <1>4, TickKeepsInv
<1>5. CASE UNCHANGED vars
  <2>1. sock' = sock /\ own' = own /\ link' = link
    BY <1>5 DEF vars
  <2> QED
    BY <2>1 DEF Inv, TypeOK, HeldInv, SocketsAreHeld, Holds, Open, Mine
<1> QED
  BY <1>1, <1>2, <1>3, <1>4, <1>5 DEF Next

-----------------------------------------------------------------------------
(* The inductive invariant holds.                                           *)
THEOREM Invariant ==
  ASSUME ServerAlone
  PROVE  Spec => []Inv
<1>1. Init => Inv
  BY InvInit
<1>2. Inv /\ [Next]_vars => Inv'
  BY InvStep
<1> QED
  BY <1>1, <1>2, PTL DEF Spec

(* The links and sockets keep their types: no count passes its limit, and   *)
(* no more messages are read into a buffer than its socket may hold.        *)
THEOREM LinkTyped ==
  ASSUME ServerAlone
  PROVE  Spec => []TypeOK
<1>1. Inv => TypeOK
  BY DEF Inv
<1> QED
  BY <1>1, Invariant, PTL

(* Whatever the links do, and however handles are used again: an open       *)
(* socket is that of one link, which has opened it (chl_Bind, accept and    *)
(* chl_Release through dlrcp_Handler).                                      *)
THEOREM LinkHolds ==
  ASSUME ServerAlone
  PROVE  Spec => []SocketsAreHeld
<1>1. Inv => SocketsAreHeld
  BY DEF Inv, HeldInv
<1> QED
  BY <1>1, Invariant, PTL

(* For all time-outs: no link spends more seconds in a state without        *)
(* hearing anything than the state allows, although the states share one    *)
(* count (dlrcp_Handler).                                                   *)
THEOREM LinkGivesUp ==
  ASSUME ServerAlone
  PROVE  Spec => []GivesUp
<1>1. Inv => GivesUp
  <2> SUFFICES ASSUME Inv, NEW l \in Links PROVE link[l].wait <= Limit(link[l])
    BY DEF GivesUp
  <2> DEFINE k == link[l]
             b == RETRIES * (KEEP + 1)
  <2>1. k \in Links_ /\ Timed(k) /\ k.retry <= RETRIES
    BY HeldType DEF Fit
  <2>2. k.ste \in {"idle", "standby", "connect", "ready"} /\ k.wait \in Nat /\ k.cnt \in Nat /\ k.retry \in 0 .. RETRIES
    BY <2>1, Times DEF Links_
  <2>3. b \in Nat
    BY Times
  <2> HIDE DEF k
  <2>4. ASSUME k.ste = "idle" PROVE k.wait <= Limit(k)
    BY <2>1, <2>4 DEF Limit, Timed
  <2>5. ASSUME k.ste = "standby" PROVE k.wait <= Limit(k)
    BY <2>1, <2>2, <2>5, LinkAssumption DEF Limit, Timed, StandbyTime, LinkAssumption
  <2>6. ASSUME k.ste = "connect" PROVE k.wait <= Limit(k)
    BY <2>1, <2>2, <2>6, LinkAssumption DEF Limit, Timed, ConnectTime, LinkAssumption
  <2>7. ASSUME k.ste = "ready" /\ Client(k) PROVE k.wait <= Limit(k)
    <3>1. Before(k) \in Nat /\ Before(k) <= REFRESH + 1 + b
      BY <2>2, <2>3, Times DEF Before
    <3>2. k.wait <= k.cnt + Before(k) /\ k.cnt <= REFRESH
      BY <2>1, <2>7 DEF Timed, ReadyTime
    <3>3. Limit(k) = 2 * REFRESH + 1 + b
      BY <2>7 DEF Limit
    <3> HIDE DEF b
    <3> QED
      BY <2>2, <2>3, <3>1, <3>2, <3>3, LinkAssumption DEF LinkAssumption
  <2>8. ASSUME k.ste = "ready" /\ ~ Client(k) PROVE k.wait <= Limit(k)
    BY <2>1, <2>2, <2>8, LinkAssumption DEF Limit, Timed, ReadyTime, LinkAssumption
  <2> QED
    BY <2>2, <2>4, <2>5, <2>6, <2>7, <2>8 DEF k
<1> QED
  BY <1>1, Invariant, PTL

(* ... and dlrcp_Handler gives no established connection up before REFRESH  *)
(* silent seconds, nor a client one before its keep-alives are used up.     *)
THEOREM LinkWaits ==
  ASSUME ServerAlone
  PROVE  Spec => NotTooEarly
<1>1. Inv /\ [Next]_vars =>
        [\A l \in Links :
            Handler(l) /\ link[l].ste = "ready" /\ link'[l].ste = "idle" =>
                \/ sock[link[l].pIf].st # "est"
                \/ /\ link[l].wait >= REFRESH
                   /\ Client(link[l]) => link[l].dst = "check"]_vars
  <2> SUFFICES ASSUME Inv, NEW l \in Links, Handler(l), link[l].ste = "ready", link'[l].ste = "idle",
                      sock[link[l].pIf].st = "est"
               PROVE  link[l].wait >= REFRESH /\ (Client(link[l]) => link[l].dst = "check")
    OBVIOUS
  <2>1. /\ link[l] \in Links_ /\ Holds(l) /\ ReadyTime(link[l]) /\ link[l].pc # "late"
        /\ link[l].cnt \in Nat /\ link[l].wait \in Nat /\ link[l].rbuf \in Nat
        /\ Mine(link[l]) = sock[link[l].pIf] /\ Mine(link[l]) \in Sockets
    BY HeldType DEF Fit, Timed, Suits, Links_, Holds
  <2>2. Check(l) \/ Analyze(l)
    BY <2>1 DEF Handler, Bind, Connect, HoldOff, Listen, Connecting, Accepting, Expire, Late, At
  <2>3. CASE Analyze(l)
    <3>1. \E n \in 0 .. Mine(link[l]).data : Put(l, Message(link[l], link[l].rbuf + n))
      BY <2>1, <2>3 DEF Analyze, Sockets
    <3>2. PICK n \in 0 .. Mine(link[l]).data : link'[l] = Message(link[l], link[l].rbuf + n)
      BY <3>1, HeldType DEF Put
    <3>3. Message(link[l], link[l].rbuf + n).ste = link[l].ste
      BY <2>1 DEF Message, Links_
    <3> QED
      BY <3>2, <3>3
  <2>4. CASE Check(l)
    <3> DEFINE j == Second(link[l])
               k == [j EXCEPT !.pc = "analyze"]
    <3>1. CheckFails(l, k) \/ CheckHolds(l, k)
      BY <2>4 DEF Check
    <3>2. j \in Links_ /\ j.cnt = link[l].cnt + 1 /\ j.ste = "ready" /\ j.type = link[l].type
          /\ j.pIf = link[l].pIf /\ j.dst = link[l].dst
      BY <2>1, Counted
    <3> HIDE DEF j
    <3>3. k \in Links_ /\ k.cnt = link[l].cnt + 1 /\ k.ste = "ready" /\ k.type = link[l].type
          /\ k.pIf = link[l].pIf /\ k.dst = link[l].dst
      BY <3>2 DEF Links_
    <3> HIDE DEF k
    <3>4. Mine(k) = Mine(link[l])
      BY <3>3 DEF Mine
    <3>5. CASE CheckHolds(l, k)
      <4>1. PICK n : Put(l, n) /\ (n = KeepAlive(k) \/ n = k)
        BY <3>5 DEF CheckHolds
      <4>2. link'[l].ste = "ready"
        BY <3>3, <4>1, HeldType, KeepAliveType DEF Put
      <4> QED
        BY <4>2
    <3>6. CASE CheckFails(l, k)
      <4>1. PICK a \in Alive(k) : ~ a[1] \/ (Silent(k) /\ (~ Client(k) \/ k.dst = "check"))
        BY <3>6 DEF CheckFails
      <4>2. a[1]
        <5>1. CASE k.type = "TS"
          <6>1. a = <<HasPeer(Mine(k)), Mine(k)>>
            BY <5>1, Zenon DEF Alive
          <6>2. a[1] = HasPeer(Mine(k))
            BY <6>1, Zenon
          <6>3. HasPeer(Mine(k))
            BY <2>1, <3>4 DEF HasPeer
          <6> QED
            BY <6>2, <6>3, Zenon
        <5>2. CASE k.type # "TS"
          <6>1. a \in Probe(Mine(k))
            BY <5>2, Zenon DEF Alive
          <6> QED
            BY <2>1, <3>4, <6>1, Probed
        <5> QED
          BY <5>1, <5>2
      <4>3. Silent(k) /\ (Client(k) => k.dst = "check")
        BY <4>1, <4>2
      <4> QED
        BY <2>1, <3>3, <4>3, LinkAssumption DEF Silent, Client, ReadyTime, LinkAssumption
    <3> QED
      BY <3>1, <3>5, <3>6
  <2> QED
    BY <2>2, <2>3, <2>4
<1> QED
  BY <1>1, Invariant, PTL DEF Spec, NotTooEarly
=============================================================================
