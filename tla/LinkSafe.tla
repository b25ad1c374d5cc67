------------------------------ MODULE LinkSafe ------------------------------
(***************************************************************************)
(* What is expected of the links.                                          *)
(***************************************************************************)
EXTENDS Link

(* The type invariant; the counters are bounded by what they are compared   *)
(* with, whatever happened to the link before.                              *)
TypeOK ==
    /\ sock \in [Handles -> Sockets] /\ own \in [Handles -> Links \union {Nobody}]
    /\ link \in [Links -> Links_]
    /\ \A l \in Links : link[l].type \in Types[l] /\ link[l].retry <= RETRIES
    /\ \A l \in Links : link[l].rbuf <= MSGS

Holds(l) == link[l].ste # "idle"

(* The sockets that are open are those of the links that are not released,  *)
(* and each link has one that it has opened itself: nothing is leaked when  *)
(* an attempt fails or a caller is accepted, and nobody reads or closes the *)
(* socket of another link although the handles are used again.              *)
SocketsAreHeld ==
    /\ \A l \in Links : Holds(l) => Open(link[l].pIf) /\ own[link[l].pIf] = l
    /\ \A h \in Handles : Open(h) => \E l \in Links : Holds(l) /\ link[l].pIf = h

(* The seconds a link may spend in one state without hearing anything.      *)
Limit(k) ==
    CASE k.ste = "idle"    -> 0
      [] k.ste = "standby" -> HOLD + 1
      [] k.ste = "connect" -> IF Client(k) THEN TMO ELSE LONG
      [] k.ste = "ready" /\ Client(k) -> 2 * REFRESH + 1 + RETRIES * (KEEP + 1)
      [] OTHER             -> REFRESH

(* A peer that is gone is given up in time, on every path: cnt and retry    *)
(* are shared by the states and not reset on each way into one.             *)
GivesUp == \A l \in Links : link[l].wait <= Limit(link[l])

(* ... and not before its time: the handler releases an established         *)
(* connection only after REFRESH silent seconds, and a client one that has  *)
(* been heard only when its keep-alives are used up.                        *)
NotTooEarly ==
    [][\A l \in Links :
          Handler(l) /\ link[l].ste = "ready" /\ link'[l].ste = "idle" =>
              \/ sock[link[l].pIf].st # "est"
              \/ /\ link[l].wait >= REFRESH
                 /\ Client(link[l]) => link[l].dst = "check"]_vars

(* When from some time on connections are neither refused nor ended by the  *)
(* peer and nobody reconfigures, a TCP client is connected again and again, *)
(* though its peer may be silent: no way through the states, and no count   *)
(* left over from an earlier one, leads to a state that is not left.        *)
Trouble ==
    \/ \E h \in Handles : (Refused(h) \/ PeerCloses(h) \/ PeerResets(h)) /\ UNCHANGED link
    \/ \E l \in Links : \E ty \in Types[l] : SetChl(l, ty)

Connected(l) == link[l].ste = "ready" /\ sock[link[l].pIf].st = "est"

Reconnects ==
    \A l \in Links : Types[l] = {"TC"} =>
        (<>[][~ Trouble]_vars => []<>Connected(l))
=============================================================================
