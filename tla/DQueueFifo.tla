----------------------------- MODULE DQueueFifo -----------------------------
(***************************************************************************)
(* The block pool of lib/dqueue.c implements one queue per channel.        *)
(* The queue of a channel is read off its chain; while an operation that   *)
(* holds the semaphore has taken the head away and not yet named the next  *)
(* one, the chain goes on at the block the operation remembers.            *)
(***************************************************************************)
EXTENDS DQueue

(* The characters of a block that are still to be read.                     *)
Unread(b) == [i \in 1 .. in[b] - out[b] |-> data[b][out[b] + i - 1]]

(* The characters of the chains of n blocks at most, by the first block.    *)
Chain[n \in Nat] ==
    IF n = 0 THEN [b \in Blocks \union {NULL} |-> <<>>]
    ELSE [b \in Blocks \union {NULL} |->
            IF b = NULL THEN <<>> ELSE Unread(b) \o Chain[n - 1][next[b]]]

ChainFrom(p) == Chain[QTY][p]

ReleasingHead(t) == op[t] # "clear" /\ pc[t] \in {"rehead1", "rel1"}
HeadTakenAway(t) == op[t] # "clear" /\ pc[t] \in {"rel2", "rehead"}
Clearing(t)      == op[t] = "clear" /\ pc[t] \in {"clr", "rel1", "rel2"}

Start(c) ==
    LET insiders == {t \in Actors : Inside(t) /\ arg[t] = c} IN
    CASE \E t \in insiders : Clearing(t) -> NULL
      [] \E t \in insiders : ReleasingHead(t) ->
            cur[CHOOSE t \in insiders : ReleasingHead(t)]
      [] \E t \in insiders : HeadTakenAway(t) ->
            aux[CHOOSE t \in insiders : HeadTakenAway(t)]
      [] OTHER -> CHOOSE p \in Blocks \union {NULL} : IsFirst(p, c)

Fifo == INSTANCE ChannelFifo WITH
            fifo <- [c \in Channels |-> ChainFrom(Start(c))],
            rcvd <- rcvd,
            Lossy <- {c \in Channels : \E t \in Threads :
                                         {<<"clear", c>>, <<"pop2buf", c>>} \cap Uses[t] # {}},
            Chars <- UNION {{c} \X (1 .. Quota[c]) : c \in Channels}

(* Every step of the pool is a step of one channel's queue or of none: what *)
(* a reader gets is a prefix of what was put in, other channels keep theirs.*)
ImplementsFifo == Fifo!Spec

(* A length measured by the only reader of a channel, while nobody clears   *)
(* it, is never more than what the reader can then pop, and never negative: *)
(* uart_RecLen reads it without the lock, compares it as an unsigned number *)
(* and pops after that.                                                     *)
SoleReader(t, c) ==
    /\ c \notin IsrChannels
    /\ \A s \in Threads \ {t} : \A o \in Ops \ {"len"} : <<o, c>> \notin Uses[s]

LengthIsThere ==
    \A t \in Threads : pc[t] = "lret" /\ SoleReader(t, arg[t]) =>
        0 <= len[t] /\ len[t] <= Len(ChainFrom(Start(arg[t])))
=============================================================================
