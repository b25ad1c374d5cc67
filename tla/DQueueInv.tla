----------------------------- MODULE DQueueInv -----------------------------
(***************************************************************************)
(* The inductive invariant behind the theorems of DQueue_proofs, for a     *)
(* pool that no interrupt pops (IsrChannels = {}).                         *)
(*                                                                         *)
(* That a chain has no cycle and no foreign block is a statement about     *)
(* everything reachable from a head.  The invariant says it locally: the   *)
(* characters of a block all belong to one channel (Own), their serial     *)
(* numbers order the blocks of a channel, `next' leads to the next block   *)
(* in that order, the head is its first block and a block without `next'   *)
(* its last.                                                               *)
(***************************************************************************)
EXTENDS DQueue

Used(b)   == in[b] > 0
Own(b)    == data[b][0][1]
Ser(b, k) == data[b][k][2]
Before(a, b) == \A k \in 0 .. in[a] - 1, l \in 0 .. in[b] - 1 : Ser(a, k) < Ser(b, l)

(* What an insider has in hand: the block it is about to release, the one   *)
(* it has half released, the one it has filled and not linked, the channel  *)
(* it has left without a head.                                              *)
Victim(t)   == IF pc[t] \in {"rehead1", "rel1"} THEN cur[t] ELSE NULL
Gutted(t)   == IF pc[t] = "rel2" THEN cur[t] ELSE NULL
Fresh(t)    == IF pc[t] = "link" THEN cur[t] ELSE NULL
Headless(t) == IF \/ pc[t] \in {"rel2", "rehead", "clr"}
                  \/ pc[t] = "rel1" /\ op[t] = "clear"
                  \/ pc[t] = "link" /\ aux[t] = NULL
               THEN arg[t] ELSE NoChl

FreeOK(gut) ==
    \A b \in Blocks : ~ Used(b) =>
        /\ chl[b] = NoChl
        /\ b # gut => out[b] = 0 /\ next[b] = NULL

ReadOK(vic) ==
    \A b \in Blocks : Used(b) => out[b] <= in[b] /\ (b # vic => out[b] < BLK)

CharsOK ==
    \A b \in Blocks : Used(b) =>
        /\ Own(b) \in Channels
        /\ \A k \in 0 .. in[b] - 1 : data[b][k][1] = Own(b) /\ Ser(b, k) <= posted[Own(b)]
        /\ \A k, l \in 0 .. in[b] - 1 : k < l => Ser(b, k) < Ser(b, l)

LinkOK(gut) ==
    /\ \A b \in Blocks : next[b] # NULL =>
          /\ Used(next[b]) /\ Own(next[b]) = Own(b)
          /\ chl[next[b]] = NoChl \/ in[b] = 0 \/ out[b] >= BLK
          /\ b # gut => in[b] = BLK /\ Before(b, next[b])
    /\ \A a, b \in Blocks : next[a] = next[b] /\ next[a] # NULL => a = b

HeadOK(vic) ==
    \A b \in Blocks : chl[b] # NoChl =>
        /\ Own(b) = chl[b]
        /\ \A a \in Blocks \ {b} : Used(a) /\ Own(a) = Own(b) => Before(b, a) \/ a = vic

OrderOK ==
    /\ \A a, b \in Blocks : a # b /\ Used(a) /\ Used(b) /\ Own(a) = Own(b) =>
          Before(a, b) \/ Before(b, a)
    /\ \A a, b \in Blocks :
          /\ Used(a) /\ next[a] # NULL
          /\ Used(b) /\ Own(a) = Own(b) /\ b # a /\ b # next[a]
          => Before(b, a) \/ Before(next[a], b)

TailOK(fresh) ==
    \A a, b \in Blocks :
        /\ a # b /\ Used(a) /\ Used(b) /\ Own(a) = Own(b)
        /\ next[a] = NULL /\ b # fresh
        => Before(b, a)

ReachOK(fc) ==
    \A b \in Blocks : Used(b) => Own(b) = fc \/ \E a \in Blocks : chl[a] = Own(b)

PoolOK(vic, gut, fresh, fc) ==
    /\ FreeOK(gut) /\ ReadOK(vic) /\ LinkOK(gut) /\ HeadOK(vic)
    /\ TailOK(fresh) /\ ReachOK(fc)

-----------------------------------------------------------------------------
(* What the insider knows about the blocks it holds.                        *)
IsLeast(p, c) ==
    /\ p # NULL => /\ Used(p) /\ Own(p) = c
                   /\ \A b \in Blocks \ {p} : Used(b) /\ Own(b) = c => Before(p, b)
    /\ p = NULL => \A b \in Blocks : Used(b) => Own(b) # c

NoOtherHead(p, c) == \A b \in Blocks : chl[b] = c => b = p

Holds(t) ==
    LET p == cur[t] n == aux[t] c == arg[t] IN
    /\ pc[t] = "take" /\ p # NULL => chl[p] = c
    /\ pc[t] = "rehead1" => p # NULL /\ chl[p] = c /\ n = next[p] /\ out[p] = BLK
    /\ pc[t] = "rel1"    => p # NULL /\ Used(p) /\ Own(p) = c /\ n = next[p]
    /\ pc[t] = "rel1" /\ op[t] # "clear" => out[p] = BLK /\ chl[p] = c
    /\ pc[t] = "rel1" /\ op[t] = "popchar" /\ n # NULL => chl[n] = c
    /\ pc[t] = "rel1" /\ op[t] # "popchar" => NoOtherHead(p, c)
    /\ pc[t] = "rel1" /\ op[t] = "clear"   => IsLeast(p, c)
    /\ pc[t] = "rel2"    => p # NULL /\ ~ Used(p) /\ n = next[p] /\ IsLeast(n, c)
    /\ pc[t] = "rel2" /\ op[t] = "popchar" /\ n # NULL => chl[n] = c
    /\ pc[t] = "rel2" /\ op[t] # "popchar" => NoOtherHead(NULL, c)
    /\ pc[t] = "rehead"  => IsLeast(n, c) /\ NoOtherHead(NULL, c)
                            /\ (n # NULL => \A b \in Blocks : next[b] # n)
    /\ pc[t] = "clr"     => IsLeast(p, c) /\ NoOtherHead(p, c)
    /\ pc[t] = "tail"    => /\ p # NULL => Used(p) /\ Own(p) = c
                            /\ p = NULL => \A b \in Blocks : Used(b) => Own(b) # c
    /\ pc[t] = "alloc"   => /\ n # NULL => Used(n) /\ Own(n) = c /\ next[n] = NULL /\ in[n] = BLK
                            /\ n = NULL => \A b \in Blocks : Used(b) => Own(b) # c
    /\ pc[t] = "link"    =>
          /\ p # NULL /\ p # n /\ in[p] = 1 /\ out[p] = 0 /\ Own(p) = c
          /\ next[p] = NULL /\ chl[p] = NoChl /\ \A b \in Blocks : next[b] # p
          /\ n # NULL => Used(n) /\ Own(n) = c /\ next[n] = NULL /\ in[n] = BLK
          /\ n = NULL => \A b \in Blocks \ {p} : Used(b) => Own(b) # c

(* The pool is whole up to what the insider has in hand.                    *)
PoolAt(t) == PoolOK(Victim(t), Gutted(t), Fresh(t), Headless(t)) /\ Holds(t)

PoolInv ==
    /\ CharsOK /\ OrderOK
    /\ (\A t \in Actors : ~ Inside(t)) => PoolOK(NULL, NULL, NULL, NoChl)
    /\ \A t \in Actors : Inside(t) => PoolAt(t)

(* Between two locked operations the pool is a set of disjoint chains, one  *)
(* per channel that holds characters, each in the order of posting, and all *)
(* other blocks are blank: no call leaves a block half released, without a  *)
(* head, or in two chains, for lib/dqueue.c never looks for such a block.   *)
WholePool ==
    (\A t \in Actors : ~ Inside(t)) => CharsOK /\ OrderOK /\ PoolOK(NULL, NULL, NULL, NoChl)

-----------------------------------------------------------------------------
(* The semaphore and the list of suspended threads.                         *)
LockInv ==
    /\ \A i, j \in 1 .. Len(waitq) : waitq[i] = waitq[j] => i = j
    /\ \A i \in 1 .. Len(waitq) : pc[waitq[i]] = "first"
    /\ sem = 1 => waitq = <<>> /\ \A t \in Actors : pc[t] \notin InCS
    /\ MutualExclusion

(* Which call goes with which place in the code.                            *)
CallInv ==
    \A t \in Actors :
        /\ pc[t] \in InCS \union {"lock"} => arg[t] \in Channels /\ op[t] \in DOMAIN Entry
        /\ op[t] = "push" => t = Io /\ arg[t] = ch[1]
        /\ pc[t] \in {"take", "rehead", "rehead1"} => op[t] \in {"pop", "pop2buf", "popchar"}
        /\ pc[t] = "rehead1" => op[t] = "popchar"
        /\ pc[t] = "rehead"  => op[t] # "popchar"
        /\ pc[t] \in {"rel1", "rel2"} => op[t] # "push"
        /\ pc[t] = "clr" => op[t] = "clear"
        /\ pc[t] \in {"tail", "alloc", "link"} => op[t] = "push"
        /\ pc[t] \in {"lin", "lout", "lnext"} => cur[t] # NULL

-----------------------------------------------------------------------------
(* A character moves from the mailbox through DqueIo and a block to a       *)
(* reader, and at any time those further on were posted earlier.            *)
Pending == op[Io] = "push" /\ pc[Io] \in {"lock", "first", "tail", "alloc"}

MailOK ==
    /\ \A i \in 1 .. Len(mb) : mb[i][1] \in Channels /\ mb[i][2] <= posted[mb[i][1]]
    /\ \A i, j \in 1 .. Len(mb) : i < j /\ mb[i][1] = mb[j][1] => mb[i][2] < mb[j][2]

HandOK ==
    op[Io] = "push" =>
        /\ ch[1] \in Channels /\ ch[2] <= posted[ch[1]]
        /\ \A i \in 1 .. Len(mb) : mb[i][1] = ch[1] => ch[2] < mb[i][2]

(* Serial number s of channel c is earlier than all that is still to be     *)
(* stored of that channel.                                                  *)
Earlier(s, c) ==
    /\ s <= posted[c]
    /\ \A i \in 1 .. Len(mb) : mb[i][1] = c => s < mb[i][2]
    /\ Pending /\ ch[1] = c => s < ch[2]

StoredOK == \A b \in Blocks : \A k \in 0 .. in[b] - 1 : Earlier(Ser(b, k), Own(b))

RcvdOK ==
    \A c \in Channels : \A j \in 1 .. Len(rcvd[c]) :
        /\ Earlier(rcvd[c][j][2], c)
        /\ \A b \in Blocks : Used(b) /\ Own(b) = c =>
              \A k \in out[b] .. in[b] - 1 : rcvd[c][j][2] < Ser(b, k)

SerialInv == MailOK /\ HandOK /\ StoredOK /\ RcvdOK

IInv == TypeOK /\ LockInv /\ CallInv /\ PoolInv /\ SerialInv
=============================================================================
