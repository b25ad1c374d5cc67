-------------------------------- MODULE Link --------------------------------
(***************************************************************************)
(* The links of the remote protocols: cp/dlrcp.c over chl/chl.c and        *)
(* chl/sockchl.c.  Each link has a thread that calls dlrcp_Handler in a    *)
(* loop; the links share the socket table.  A call of the handler does one *)
(* thing for the state its channel is in: bind, connect or listen, wait    *)
(* for the connection, or check the connection once a second and analyse   *)
(* what has arrived.  The waits are counted in seconds, by noticing that   *)
(* the clock shows another one.                                            *)
(*                                                                         *)
(* Channels: TC, TS (TCP, client and server), UC, US (UDP).  A US channel  *)
(* stays in STANDBY: listen fails for a UDP socket.                        *)
(***************************************************************************)
EXTENDS Sockets

CONSTANTS
    Types,      \* Types[l]: the channel types link l is ever given
    TMO,        \* DLRCP_TCP_CONNECT_TMO
    REFRESH,    \* p->refresh
    HOLD,       \* p->refresh >> 3
    KEEP,       \* the 20 seconds between two keep-alives
    RETRIES,    \* keep-alives before the last chance
    LONG,       \* the 900 seconds a server waits for a caller
    Reused      \* whether dlrcp_SetChl is called on a link that is released

ASSUME LinkAssumption ==
    /\ Types \in [Links -> SUBSET {"TC", "TS", "UC", "US"}] /\ \A l \in Links : Types[l] # {}
    /\ TMO \in Nat /\ REFRESH \in Nat /\ HOLD \in 0 .. REFRESH /\ LONG \in Nat
    /\ KEEP \in 0 .. REFRESH /\ RETRIES \in Nat /\ Reused \in BOOLEAN

VARIABLE link   \* link[l]: struct dlrcp with its chl

vars == <<sock, own, link>>

NoHandle == -1

(* due: p->time is not the current second.  pc: where in dlrcp_Handler.     *)
(* wait: history, seconds counted since the state or the last message.      *)
Links_ == [ste : {"idle", "standby", "connect", "ready"}, type : {"TC", "TS", "UC", "US"},
           pIf : Handles \union {NoHandle}, dst : {"idle", "check", "ready"},
           cnt : Nat, retry : Nat, rbuf : Nat, due : BOOLEAN,
           pc : {"top", "late", "analyze"}, wait : Nat]

Unbound(ty) == [ste |-> "idle", type |-> ty, pIf |-> NoHandle, dst |-> "idle", cnt |-> 0,
                retry |-> 0, rbuf |-> 0, due |-> TRUE, pc |-> "top", wait |-> 0]

Init ==
    /\ TableInit
    /\ link \in [Links -> {Unbound(ty) : ty \in UNION {Types[l] : l \in Links}}]
    /\ \A l \in Links : link[l].type \in Types[l]

Mine(k)   == IF k.pIf \in Handles THEN sock[k.pIf] ELSE Closed
Client(k) == k.type \in {"TC", "UC"}

Put(l, k)     == link' = [link EXCEPT ![l] = k]
Enter(k, s)   == [k EXCEPT !.ste = s, !.wait = 0]
Second(k)     == [k EXCEPT !.due = FALSE, !.cnt = @ + 1, !.wait = @ + 1]
Keep(k, s)    == sock' = [sock EXCEPT ![k.pIf] = s] /\ UNCHANGED own

(* Mutant of Release: the channel is idle whatever closesocket says.        *)
ReleaseAlways(l, k) ==
    /\ Put(l, Enter(k, "idle"))
    /\ sock' = [h \in Handles |-> IF h = k.pIf /\ k.ste = "ready" THEN Closed ELSE sock[h]]
    /\ UNCHANGED own

(* chl_Release: close the socket; when that fails the state remains.  The   *)
(* handle remains in any case.                                              *)
Release(l, k) ==
    \/ /\ Open(k.pIf)
       /\ Put(l, Enter(k, "idle")) /\ Keep(k, Closed)
    \/ /\ ~ Open(k.pIf)
       /\ Put(l, k) /\ UNCHANGED <<sock, own>>

At(l, s) == link[l].ste = s /\ link[l].pc = "top"

-----------------------------------------------------------------------------
(* CHL_S_IDLE: chl_Bind.  There may be no socket left, and a server's port  *)
(* may be in use.                                                           *)
Bind(l) ==
    LET k == [link[l] EXCEPT !.dst = "idle"]
        s == Socket(CASE k.type = "UC" -> "unbound" [] k.type = "US" -> "udp" [] OTHER -> "new")
    IN  /\ At(l, "idle")
        /\ \/ \E h \in Handles :
                 /\ Lowest(h)
                 /\ Put(l, Enter([k EXCEPT !.pIf = h], "standby"))
                 /\ sock' = [sock EXCEPT ![h] = s] /\ own' = [own EXCEPT ![h] = l]
           \/ /\ FreeHandles = {} \/ ~ Client(k)
              /\ Put(l, k) /\ UNCHANGED <<sock, own>>

(* CHL_S_STANDBY.  connect() does not wait; what it answers is ignored.     *)
Connect(l) ==
    LET k == link[l] IN
    /\ At(l, "standby") /\ Client(k) /\ k.cnt = 0
    /\ Put(l, Enter(k, "connect"))
    /\ Keep(k, CASE Mine(k).st = "new" -> Socket("syn") [] Mine(k).st = "unbound" -> Socket("udp")
                 [] OTHER -> Mine(k))

(* Mutant of HoldOff: the count goes on.                                    *)
HoldOffForEver(l) ==
    /\ At(l, "standby") /\ Client(link[l]) /\ link[l].cnt # 0 /\ link[l].due
    /\ Put(l, Second(link[l])) /\ UNCHANGED <<sock, own>>

HoldOff(l) ==
    LET k == Second(link[l]) IN
    /\ At(l, "standby") /\ Client(k) /\ link[l].cnt # 0 /\ link[l].due
    /\ Put(l, IF k.cnt > HOLD THEN [k EXCEPT !.cnt = 0] ELSE k)
    /\ UNCHANGED <<sock, own>>

Listen(l) ==
    LET k == link[l] IN
    /\ At(l, "standby") /\ k.type = "TS" /\ Mine(k).st = "new"
    /\ Put(l, Enter(k, "connect")) /\ Keep(k, Socket("listen"))

(* CHL_S_CONNECT, a client: chl_soc_IsConnect asks for 0 bytes.             *)
Connecting(l) ==
    LET k == Second(link[l]) IN
    /\ At(l, "connect") /\ Client(k) /\ link[l].due
    /\ \E a \in Probe(Mine(k)) :
          \/ /\ a[1] /\ Keep(k, a[2])
             /\ Put(l, Enter([k EXCEPT !.cnt = 0, !.dst = "check"], "ready"))
          \/ ~ a[1] /\ k.cnt <= TMO /\ Put(l, k) /\ Keep(k, a[2])
          \/ ~ a[1] /\ k.cnt > TMO  /\ Release(l, k)

(* Mutant of Accepts: the listening socket stays open.                      *)
AcceptsBeside(l, k) ==
    \/ \E h \in Handles :
       /\ Mine(k).st = "listen" /\ Mine(k).data > 0 /\ Lowest(h)
       /\ sock' = [sock EXCEPT ![h] = Socket("est")] /\ own' = [own EXCEPT ![h] = l]
       /\ Put(l, Enter([k EXCEPT !.cnt = 0, !.pIf = h], "ready"))
    \/ /\ Mine(k).st # "listen" \/ Mine(k).data = 0
       /\ Put(l, k) /\ UNCHANGED <<sock, own>>

(* CHL_S_CONNECT, a server: chl_soc_IsConnect accepts a caller in a new     *)
(* socket and closes the listening one.  With no free handle, or when the   *)
(* caller is gone already, the call comes to nothing.  For a UDP socket,    *)
(* that of another link, accept answers with an error number, which is      *)
(* taken for a handle: the socket is closed.                                *)
Accepts(l, k) ==
    LET s == Mine(k) IN
    \/ \E h \in Handles :
       /\ s.st = "listen" /\ s.data > 0 /\ Lowest(h)
       /\ sock' = [sock EXCEPT ![k.pIf] = Closed, ![h] = Socket("est")]
       /\ own'  = [own EXCEPT ![h] = l]
       /\ Put(l, Enter([k EXCEPT !.cnt = 0, !.pIf = h], "ready"))
    \/ /\ s.st = "listen" /\ s.data > 0
       /\ Put(l, k) /\ Keep(k, [s EXCEPT !.data = @ - 1])
    \/ /\ s.st = "udp" /\ s.data > 0
       /\ Put(l, Enter([k EXCEPT !.cnt = 0, !.pIf = NoHandle], "ready")) /\ Keep(k, Closed)
    \/ /\ s.st \notin {"listen", "udp"} \/ s.data = 0
       /\ Put(l, k) /\ UNCHANGED <<sock, own>>

Accepting(l) ==
    LET k == Second(link[l]) IN
    /\ At(l, "connect") /\ k.type = "TS" /\ link[l].due /\ k.cnt <= LONG
    /\ Accepts(l, k)

(* When nobody has called for long the channel is released - and then asked *)
(* for a caller all the same.                                               *)
Expire(l) ==
    LET k == Second(link[l]) IN
    /\ At(l, "connect") /\ k.type = "TS" /\ link[l].due /\ k.cnt > LONG
    /\ Release(l, [k EXCEPT !.cnt = 0, !.pc = "late"])

Late(l) == link[l].pc = "late" /\ Accepts(l, [link[l] EXCEPT !.pc = "top"])

-----------------------------------------------------------------------------
(* CHL_S_READY: once a second, whether to give the channel up.  A client    *)
(* sends keep-alives to a peer that has been silent for REFRESH seconds,    *)
(* then waits REFRESH seconds more.                                         *)
Silent(k) == k.cnt > REFRESH

Alive(k) ==
    IF k.type = "TS" THEN {<<HasPeer(Mine(k)), Mine(k)>>} ELSE Probe(Mine(k))

CheckFails(l, k) ==
    \E a \in Alive(k) :
        /\ ~ a[1] \/ (Silent(k) /\ (~ Client(k) \/ k.dst = "check"))
        /\ Release(l, IF a[1] /\ Client(k) THEN [k EXCEPT !.cnt = 0] ELSE k)

(* Mutant of KeepAlive: one keep-alive too many.                            *)
KeepAliveOnceMore(k) ==
    IF k.dst # "ready" THEN [k EXCEPT !.cnt = 0]
    ELSE IF k.retry <= RETRIES THEN [k EXCEPT !.retry = @ + 1, !.cnt = REFRESH - KEEP]
    ELSE [k EXCEPT !.dst = "check", !.cnt = 0]

KeepAlive(k) ==
    IF k.dst # "ready" THEN [k EXCEPT !.cnt = 0]
    ELSE IF k.retry < RETRIES THEN [k EXCEPT !.retry = @ + 1, !.cnt = REFRESH - KEEP]
    ELSE [k EXCEPT !.dst = "check", !.cnt = 0]

CheckHolds(l, k) ==
    \E a \in Alive(k) :
        /\ a[1] /\ (Silent(k) => Client(k) /\ k.dst # "check")
        /\ Put(l, IF Silent(k) THEN KeepAlive(k) ELSE k)
        /\ Keep(k, a[2])

Check(l) ==
    LET k == [Second(link[l]) EXCEPT !.pc = "analyze"] IN
    /\ At(l, "ready") /\ link[l].due
    /\ CheckFails(l, k) \/ CheckHolds(l, k)

(* Mutant of Message: the seconds go on.                                    *)
MessageKeepsCount(k, n) ==
    IF n = 0 THEN [k EXCEPT !.pc = "top"]
    ELSE [k EXCEPT !.pc = "top", !.rbuf = n - 1, !.retry = 0, !.dst = "ready", !.wait = 0]

(* ... then, in the same call and even if it has just been given up: read   *)
(* what there is (a datagram of more than 64 bytes is cut) and take one     *)
(* message.  What is read stays in rbuf until a later call.                 *)
Message(k, n) ==
    IF n = 0 THEN [k EXCEPT !.pc = "top"]
    ELSE [k EXCEPT !.pc = "top", !.rbuf = n - 1, !.cnt = 0, !.retry = 0, !.dst = "ready", !.wait = 0]

Analyze(l) ==
    LET k == link[l] s == Mine(k) IN
    /\ k.pc = "analyze" \/ (At(l, "ready") /\ ~ k.due)
    /\ \/ /\ k.ste = "ready"
          /\ \E n \in (IF s.st = "udp" THEN 0 ELSE s.data) .. s.data : Put(l, Message(k, k.rbuf + n))
          /\ Keep(k, [st |-> IF s.st = "fin" THEN "shut" ELSE s.st, data |-> 0])
       \/ k.ste # "ready" /\ Put(l, Message(k, k.rbuf)) /\ UNCHANGED <<sock, own>>

(* dlrcp_SetChl with another type or other parameters, between two calls of *)
(* the handler: the new type decides how the channel is released.           *)
SetChl(l, ty) ==
    LET k == link[l] IN
    /\ k.pc = "top"
    /\ k.ste = "idle" /\ k.pIf # NoHandle => Reused
    /\ Release(l, [k EXCEPT !.type = ty])

-----------------------------------------------------------------------------
Handler(l) ==
    \/ Bind(l) \/ Connect(l) \/ HoldOff(l) \/ Listen(l) \/ Connecting(l)
    \/ Accepting(l) \/ Expire(l) \/ Late(l) \/ Check(l) \/ Analyze(l)

(* The clock shows another second (from 256 seconds in which a handler does *)
(* not run, the code might notice none).                                    *)
Tick == link' = [l \in Links |-> [link[l] EXCEPT !.due = TRUE]] /\ UNCHANGED <<sock, own>>

(* Bound: at most MSGS messages wait for a link.                            *)
Waiting(h) == \A l \in Links : link[l].pIf = h => link[l].rbuf + sock[h].data < MSGS

Network(h) ==
    /\ UNCHANGED link
    /\ \/ Established(h) \/ Refused(h) \/ PeerCloses(h) \/ PeerResets(h)
       \/ Waiting(h) /\ Arrives(h)

Next ==
    \/ \E l \in Links : Handler(l) \/ \E ty \in Types[l] : SetChl(l, ty)
    \/ \E h \in Handles : Network(h)
    \/ Tick

Spec == Init /\ [][Next]_vars

GetsThrough(l) ==
    link[l].ste = "connect" /\ UNCHANGED link /\ \E h \in Handles : h = link[l].pIf /\ Established(h)

(* Every thread runs again and again and the clock goes on; a link that     *)
(* tries again and again gets through within the time-out now and then.     *)
Fairness ==
    /\ WF_vars(Tick)
    /\ \A l \in Links : WF_vars(Handler(l))
    /\ \A l \in Links : SF_vars(GetsThrough(l))

FairSpec == Spec /\ Fairness
=============================================================================
