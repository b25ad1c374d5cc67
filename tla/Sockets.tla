------------------------------ MODULE Sockets ------------------------------
(***************************************************************************)
(* The socket table of net/lwip/api/sockets.c, as chl/sockchl.c uses it.   *)
(*                                                                         *)
(* A handle is an index into the table; alloc_socket hands out the lowest  *)
(* free one, so that a handle that has been closed soon means another      *)
(* socket.  A socket is its state and the number of complete messages (of  *)
(* a listening socket: of callers) that wait to be read.                   *)
(***************************************************************************)
EXTENDS Integers

CONSTANTS
    NSOCK,      \* NUM_SOCKETS
    Links,      \* the links (struct dlrcp) that share the table
    MSGS        \* bound: messages that wait in one socket

ASSUME SocketsAssumption == NSOCK \in Nat \ {0} /\ MSGS \in Nat \ {0}

VARIABLES
    sock,       \* the table
    own         \* history: the link that opened the socket

Handles == 0 .. NSOCK - 1
Nobody  == "nobody"

(* fin: the peer has closed; shut: and a recv has seen that.  unbound: a    *)
(* UDP socket without a port.                                               *)
States  == {"free", "new", "syn", "listen", "est", "fin", "shut", "reset", "unbound", "udp"}
Sockets == [st : States, data : 0 .. MSGS]

Socket(s) == [st |-> s, data |-> 0]
Closed    == Socket("free")
Open(h)   == h \in Handles /\ sock[h].st # "free"      \* get_socket
FreeHandles == {h \in Handles : ~ Open(h)}

(* The handle that alloc_socket returns.                                    *)
Lowest(h) == h \in FreeHandles /\ \A g \in FreeHandles : h <= g

TableInit == sock = [h \in Handles |-> Closed] /\ own = [h \in Handles |-> Nobody]

(* recv(h, NULL, 0, MSG_DONTWAIT): whether it returns 0, and what becomes   *)
(* of the socket.  An established connection answers 0 at once, one closed  *)
(* by the peer answers 0 until that is read.  After a reset the pcb pointer *)
(* the code follows is NULL: either answer.  A datagram is dropped.         *)
Probe(k) ==
    CASE k.st = "est"   -> {<<TRUE, k>>}
      [] k.st = "fin"   -> {<<TRUE, IF k.data > 0 THEN k ELSE [k EXCEPT !.st = "shut"]>>}
      [] k.st = "reset" -> {<<TRUE, k>>, <<FALSE, k>>}
      [] k.st = "udp" /\ k.data > 0 -> {<<TRUE, [k EXCEPT !.data = @ - 1]>>}
      [] OTHER          -> {<<FALSE, k>>}

(* getpeername: there is a remote port as long as there is a pcb.           *)
HasPeer(k) == k.st \in {"est", "fin", "shut"}

-----------------------------------------------------------------------------
(* What the network does to a socket.                                       *)
Becomes(h, k) == sock' = [sock EXCEPT ![h] = k] /\ UNCHANGED own

Established(h) == sock[h].st = "syn" /\ Becomes(h, Socket("est"))

Refused(h) == sock[h].st = "syn" /\ Becomes(h, Socket("reset"))

(* A message arrives, or a caller at a listening socket.                    *)
Arrives(h) ==
    /\ sock[h].st \in {"est", "udp", "listen"} /\ sock[h].data < MSGS
    /\ Becomes(h, [sock[h] EXCEPT !.data = @ + 1])

PeerCloses(h) == sock[h].st = "est" /\ Becomes(h, [sock[h] EXCEPT !.st = "fin"])

(* What has not been read yet is lost.                                      *)
PeerResets(h) == sock[h].st \in {"est", "fin", "shut"} /\ Becomes(h, Socket("reset"))
=============================================================================
