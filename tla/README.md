# A verification of libl

libl is a C library for meters, terminals and data concentrators: an operating
system layer, drivers, character queues, small file stores and the protocols
that talk to a master station. A product includes `src/libl.c`, which includes
the parts its configuration enables; everything runs on one processor, in the
threads of a small real-time kernel (RT-Thread here) and in interrupts.

This directory holds TLA+ models of the parts whose state is shared, survives a
power failure or depends on time, what TLC finds about them on small instances,
and theorems about most of them that hold for instances of every size.

## 1. The system

"State" is what outlives a call. Components in bold are modelled, the others
have their reason in section 8.

| Component | State | Operations | Hard because | Correct when |
|---|---|---|---|---|
| **Character queues** `lib/dqueue.c` | pool of blocks, mailbox, semaphore | `dque_Push`, `dque_Wait`, `dque_Pop`, `dque_Pop2Buf`, `dque_PopChar`, `dque_Clear`, `dque_GetLen` | interrupts, one writer and many reader threads share the pool; the length is read without the lock | each channel is a FIFO of its own; no block is lost or in two channels; calls return |
| **Record store** `fs/sfs/sfs.c` | flash blocks used as a ring of logs | `sfs_Init`, `sfs_Write`, `sfs_Read`, `sfs_Find`, `sfs_Delete` | power fails between any two flash operations; records move while they are replaced | it is a table by identity; a failed call harms its own record only |
| **Links** `cp/dlrcp.c`, `chl/` | channel state, handle, counters; socket table of lwIP | `dlrcp_Handler`, `dlrcp_SetChl`, `chl_Bind`, `chl_Release`, `chl_RecData` | time-outs that share one counter, peers that vanish, handles that are used again by other threads | a link uses its own socket, gives up a dead peer in time, reconnects |
| *Serial ports* `sys/uart.c` | owner, parameters, idle counter | `uart_Open`, `uart_Send`, `uart_Recive`, `uart_RecLen`, `uart_Maintian` | transmit interrupt against sender and periodic thread | nothing that was sent stalls; nothing that is being received is cleared |
| Device ownership `sys/dev.c` | one state per device | `dev_Open`, `dev_Close` | tests and sets without a lock | one owner at a time |
| **Flash cache** `mtd/flash.c` | one sector, its address, a dirty time | `intf_Write`, `spif_Write`, `spif_SecWrite`, `flash_Flush` | delayed flush, a clock that is set, failing operations whose result nobody looks at, power failure | what was written is read, and is in the flash some time later; a failure harms no sector but its own |
| **Log** `dbg/log.c` | ring of records and two indices in a record store | `log_Write`, `log_Read`, `log_Read2*` | power failure between and inside the writes of entry, index and mark | the last entries are held; each is read, in order |
| File transfer `cp/gdfts.c` | received blocks and marks in a record store | `gdfts_Init`, `gdfts_Handler` | repeated and lost requests, restarts | an image counts as complete only when all its blocks are there |
| **Modem** `drivers/modem.c` | power and dial state, back-off | `modem_Run`, `modem_linkStatusCB`, `modem_Refresh`, `modem_Config` | three threads share the state and its counter without a lock | no start without power, no session across a power cycle, it comes back on line, a live link is left alone |
| Software UART `drivers/swuart.c` | bit counters | timer and edge interrupt, `swuart_TxStart` | start of a transmission against the end of the last | no character is cut or stays |
| Power line `cp/lcp/plc.c` | synchronisation with a carrier module | `plc_Handler`, `plc_RealRead` | retries, pauses, reports that arrive unasked | an answer belongs to the question |
| Remote protocols `cp/gw3761.c` ... | message counters | one `*_Handler` each | framing of a byte stream | a frame is answered once |

How they interact: receive interrupts post characters to the mailbox of
`dqueue`; the thread `DqueIo` (`sys/system.c`) moves them into the pool;
protocol threads pop them through `uart`; `uart_Send` posts the other way and
the transmit interrupt pops. Every remote protocol owns one `struct dlrcp` and
calls `dlrcp_Handler` from its thread, which calls the link's `linkcheck` and
`analyze` back; below it a channel is either a serial port or a handle of the
lwIP socket table all links share. `log`, `gdfts` and the flash cache keep their
records in stores of `sfs`, which programs the flash through `mtd/flash.c`.
`sys_Maintian` calls `flash_Flush` and `modem_Run` in one thread; PPP of lwIP
calls `modem_linkStatusCB` in its own, and every link calls `modem_Refresh` for
a frame it has received.

## 2. The modules

```
DQueue ---- DQueueFifo (refines ChannelFifo) --+
   |                                           +-- MCDQueue
   +------- DQueueInv -------------------------+
                |
                +-- DQueue_proofs <- DQueueOrder_proofs <- DQueueChain_proofs

Sfs ------- SfsKv (refines KvStore) ----------- MCSfs
                |
                +-- SfsInv -- Sfs_proofs

KvStore <-- Log ------ LogSafe -- Log_proofs

FlashBuf -- FlashSafe (refines Memory) -------- MCFlash
                |
                +-- FlashBuf_proofs

Sockets --- Link --- LinkSafe ----------------- MCLink
                         |
                         +-- Link_proofs

Modem ----- ModemSafe -- Modem_proofs
```

### DQueue: the pool of character blocks

| TLA+ | C |
|---|---|
| `next`, `chl`, `in`, `out`, `data` | the fields of `struct dque_mb`, by block |
| `sem`, `waitq` | `dq_sem` with the list of suspended threads (`os/rtt/ipc.c`) |
| `mb` | `dq_mb` |
| `pc`, `op`, `arg`, `lim`, `cur`, `aux`, `len` | per actor: place in the code and the locals of the call |
| `txie` | which UARTs have their transmit interrupt enabled |
| `posted`, `rcvd` | history: serial numbers posted, what readers got |

The grain of an action is what another actor can tell apart. Threads exclude
each other by the semaphore, but `dque_GetLen` and the transmit interrupt do
not, so the locked operations are cut where those two could see a difference:
`dque_Release` in two (`ReleaseIn`, `ReleaseOut`), renaming the head apart from
releasing the old one (`RenameNext` before, in `_dque_PopChar`; `Rehead` after,
in `_dque_Pop` and `_dque_Pop2Buf`), filling a block apart from linking it
(`PushAlloc`, `PushLink`), and each read of `dque_GetLen` on its own. The
semaphore is RT-Thread's: a release hands it to the first suspended thread and
only counts up when there is none. `buf_Push` may fail, and `_dque_Pop2Buf`
ignores that.

`IsrPopChar` is one step: nothing runs during an interrupt. It does not wait;
`rt_sem_take` in an interrupt suspends the interrupted thread, cannot switch,
and returns success.

`ChannelFifo` is the abstract specification: per channel a sequence to which
`Put` appends and from which `Take` removes a prefix. `DQueueFifo` reads the
sequence off the chain of the channel and, while an insider has taken the head
away, off the block it remembers.

### Sfs: the record store

A block has the state of its first word (`ste`) and its records in order
(`log`) with place and size in units of one header. `sfs_Lock` admits one call,
so `pc` and the locals `old` (nAdrOld), `act` (nAct), `src`, `qty` (nQty) exist
once. Every erase and every program operation is an action; `Cut` ends the call
between any two of them, which stands for a power failure and for the early
return after a failing flash operation alike: both leave the flash as it is and
forget the locals. Reading is the operator `Read`, since nothing is cached.

`KvStore` is what the users rely on: a table by identity. A write replaces one
record; a refused write may have lost the old one; when a call is cut only its
own record is in doubt, a cut format may have emptied any part of the table.
`SfsKv` maps the table to what `sfs_Read` finds between calls and to what it
found before the call (`before`) during one.

### Sockets and Link: the links of the remote protocols

`Sockets` is the table of `net/lwip/api/sockets.c`: `alloc_socket` hands out the
lowest free handle, so that a closed handle soon means another socket. A socket
is its state and the number of messages that wait. `Probe` is the answer of
`recv(h, NULL, 0, MSG_DONTWAIT)`, by which `chl_soc_IsConnect` tests a
connection. It takes the local change of lwIP at `sockets.c:576` into account.
The network connects, refuses, delivers, closes and resets as it likes.

`Link` has one record per `struct dlrcp`: `ste`, `type`, `pIf` of the channel,
`dst` (the link's own `ste`), `cnt`, `retry`, the complete messages in `rbuf`,
and whether the clock shows another second than `time` (`due`). An action is one
call of `dlrcp_Handler` up to the point where another thread's step could matter:
`Check` and `Analyze` are two, as are `Expire` and `Late`. `wait` is history:
seconds counted since the state was entered or a message arrived.

### FlashBuf: the buffer before the flash

| TLA+ | C |
|---|---|
| `flash` | the sectors of the internal and of the serial flash |
| `sec`, `fbuf` | the address and contents of `flash_buf` |
| `dirty`, `age` | `p->dirty`, taken apart: whether it is other than 0, and how far it lies behind the clock (negative when the clock was set back) |
| `zero` | the clock shows 0, so that a time noted now reads as clean |
| `pc`, `todo` | place in the code; the pieces, by sector, that the call has yet to write |
| `look` | ticks since `sys_Maintian` last called `flash_Flush(60)` |
| `reset` | `sys_Reset` has called `flash_Flush(0)` |
| `spoiled`, `unstamped`, `quiet` | history: the sector in the buffer, if saving it failed; that sector, if it was written while the clock showed 0; ticks since the last write or setting of the clock |

`flash_Lock` admits one call, so the steps are those between which something can
fail: each piece that goes into the buffer (`Copy`), the flush of another sector
before it (`Evict`), the erase and the program of `_flash_Flush`, and the erase
at once of `spif_SecWrite` (`SecErase`). The code looks at no result, so each of
the three operations may fail (`EraseFails`, `ProgramFails`, `SecEraseFails`).
`Restart` is a power failure, a watchdog or the end of `sys_Reset`; in the middle
of an operation it may leave its sector broken. `Mishaps` says which of the
things that the code loses data by may happen at all: a failing operation, a
clock that shows 0, an image of which only the last word is set.

There are three accounts of what the callers get. `ReadsAsWritten` is the memory
they expect: until power fails a sector reads as it was last written. The code
keeps it only without `Mishaps`; `flash_zero` shows how a clock at 0 breaks it,
and `{"failure"}` or `{"lastword"}` in the place of `{"clock0"}` in its
configuration shows the other two. `OnlyMishapsLose` says which sector a mishap
takes and when (`Lost`), and that every other reads as written at every step.
`Memory` adds power failures, and is the memory the callers have: `open` sectors
are written and not safe yet, and `FlashSafe` maps it to what the three read
functions return (`Reading`). In it, one sector at most is open for writing; a
power failure harms that one, or the one being erased, and no other; the next
sector's coming into the buffer loses the one before it, if its saving failed
(`spoiled`) or it was written at clock 0 (`missed`); an erase at once may fail,
or take the last word.

### Log over the record store

`Log` takes `KvStore` as its record store. `Sfs` keeps `KvStore` under
`CleanRestarts` (section 6): not when power fails among the copies of a turn of
the ring. What `Log` shows is what `log.c` does over a store that keeps its
promises. A call of `log.c` reads what it needs at its beginning and has then a
`plan`, the `sfs_Write`s it will make; `Issue`, `Stored`, `Fails` and `PowerFails`
carry them out, and the calls go on after any of these.

A record that power failed in is as before, as written, gone or without its data,
and each of the three kinds has its own history. *An entry* the store did not
take is counted all the same: `entries`, what the index counts, has `None` in its
place. *The index* gone or without its data is the loss of all entries:
`log_Init` empties the store, or counting goes on behind 0xFFFFFFFF; `entries`
starts anew, and `lost` says that the mark still belongs to the log before. *The
mark* is what reading goes on at (`next`): where it was, where it was to be, at
0, or, when the record reads 0xFFFFFFFF, at the end, since `log_Read` corrects a
mark beyond the index to the index.

The indices are unsigned and wrap modulo `MOD`; a record without data reads as
all ones, a missing one leaves the variable 0 (`Value`).

### Modem: three threads without a lock

`Maintain` is `modem_Run`, cut where the others store what it reads or stores.
The counting `p->cnt += 1` is a load (`Load`, which puts the value in `read`) and
a store with the choice of the case (`Count`); the case of a state tests the
count, as it was stored or as another thread has set it since (`Seen`); and
where a link is given up the store of the state is another step (`GiveUp`), which
overwrites what the call-back may have stored after the test. `CallBack` is
`modem_linkStatusCB`, its two or three assignments one by one; `RefreshTest` and
`Refresh` are `modem_Refresh`. `ppp`, `cb` and `mode` stand for PPP and the line,
`heard` for a frame on its way to `modem_Refresh`, and `quiet`, history, counts
the seconds since the link came up or was heard. `Load` waits until a call-back or refresh that began before
has ended: `modem_Run` is called once a second, the others are a few
assignments, and their threads do run during that second.

## 3. What is checked

Runs that must pass:

| Run | Properties | What it shows |
|---|---|---|
| `dqueue_pool` | `TypeOK` `MutualExclusion` `NoLeak` `WholePool` `InOrder` | whole chains, no lost block, one insider, order, in every interleaving of a push with pops and clears on three blocks |
| `dqueue_fifo` | `ImplementsFifo` `LengthIsThere` | the pool is one FIFO per channel; only channels that are cleared or read into a buffer may drop what they hold; the length read without the lock is never negative and never more than its reader can fetch |
| `dqueue_live` | `SemaphoreKept` `CallsReturn` `MailboxDrains` `SentLeaves` | every call ends, nothing waits in the mailbox or in a transmit queue for ever, though the pool runs dry, a transmit interrupt uses the semaphore, and `uart_Send` enables that interrupt before the characters are stored; the semaphore is neither lost nor doubled by all that |
| `sfs_kv` | `TypeOK` `Fits` `OldIsThere` `OneValid` `ImplementsKv` | the store is a table; a failure anywhere harms the record of its call only, and writing may go on after one that leaves no duplicate |
| `link_two` | `TypeOK` `SocketsAreHeld` `GivesUp` `NotTooEarly` `Reconnects` | a TCP client and a link of any other type, with reused handles: bounded counters, no leak, nobody touches the socket of another, a peer is given up in time and not before, and the client comes back, again and again, once the network is quiet |
| `flash` | `TypeOK` `InTime` `FlushedForReset` `ImplementsMemory` `OnlyMishapsLose` | with all three `Mishaps`: no sector is harmed but those `Memory` and `Lost` name; what is written is saved within the delay and two periods wherever the clock is set, and a reset finds it saved, but for a sector written at clock 0 and one whose saving failed |
| `log` | `TypeOK` `Held` `RightEntry` | all but the oldest counted entry of the ring are held, but after a failure inside the write of the index; `log_Read` delivers the next one, and skips entries only after a failure inside the write of the mark or a loss of the index |
| `modem` | `TypeOK` `HungUp` `Powered` `Patient` `ComesBack` `Watched` | no session outlives a power cycle, no start misses its power, no link is given up within its time of what was heard while `modem_Run` slept, no dead one is kept, and the modem comes back on line |

Runs that must find a violation, because the code does not do what its own
comments or assertions say (quoted in `PROJECT.json`, "findings"):

| Run | What happens |
|---|---|
| `dqueue_isr` | a transmit interrupt pops while a thread is inside the lock (`RT_DEBUG_IN_THREAD_CONTEXT` of `rt_sem_take` says it must not) |
| `sfs_recover` | a failure in the middle of copying leaves a record twice, and a later successful `sfs_Delete` deletes one of them |
| `link_late` | after 900 seconds a server releases its handle and then accepts on it |
| `flash_zero` | a call across two sectors at clock 0: the first looks clean and is lost when the second takes the buffer |

The models leave the faulty behaviour in, also where no line of the code says
otherwise: with `Tears = TRUE` a failure in the middle of one copied record
leaves a copy without data in front of the original, and
the last round of the ring (`sfs.c:250`) answers full after making room, which
`KvStore` allows. The passing runs say under which
condition the property still holds: `IsrChannels = {}` (no interrupt pops),
`WriteAfter` without the steps at which a duplicate exists, `Tears = FALSE` (one
record is copied whole), `Reused = FALSE` (`dlrcp_SetChl` is not called on a
released link), and in `link_two` a second link that is only ever a TCP client,
so that `Late` finds no caller of another. So `SocketsAreHeld` passes where the
handles are used again by links that bind and release. A link uses a handle after
its release in two ways: `link_late` is one, and `Reused = TRUE` the other, in
which a link that is configured anew closes the socket that another has by now.

Some properties permit a loss, because the code has it and no line of it
promises otherwise; their comments name it. `Held` permits that a failure inside
the write of the index loses all entries, `RightEntry` that one inside the write
of the mark skips what was not read, `InTime` and `FlushedForReset` leave out
sectors written at clock 0 or not taken by the flash, `Patient` does not see what
is heard while `modem_Run` counts or decides, `LengthIsThere` is for the sole
reader of a channel. What each says is that nothing beyond this happens.

Every property of a passing run has a mutant: a definition of the model with a
plausible bug (a forgotten reset, one round too many, a socket not closed) under
which the same run finds the property violated. The mutants stand beside the
definitions they change.

## 4. Bounds

* **DQueue**: two or three blocks of two characters, two channels, two readers
  (one in `dqueue_live`), a mailbox of one. A chain of three blocks has a head, a middle and a tail, and
  with two blocks a channel that grows meets a pool that is empty: no statement
  of the code looks further than one block ahead. `Quota` bounds the posts per
  channel (four fill two blocks), `MaxLen` the length asked of `dque_Pop`. The
  theorems of section 6 have no bounds. `dqueue_live` posts three characters to
  one channel and two to the other, which is more than its two blocks hold: the
  chain is renamed, grows and starts again while the interrupt pops, and the
  pool runs dry. A larger instance (four and two posts) passes too. As
  `dqueue_isr` shows, an interrupt may lose a character; `SentLeaves` speaks of
  what is in a chain.
* **Sfs**: three blocks, the least with an active block, a target and a source
  that differ; room for two or three records; three identities (two where a
  counterexample is sought), records of two sizes. The logs are finite, so the
  number of calls is not bounded. Permuting the identities is a symmetry: the
  code compares them only. With two blocks every turn of the ring answers full.
  `WriteAfter` names the steps after whose failure calls that write follow; after
  a failure at another step the store is only read, so the run ends there
  (`CHECK_DEADLOCK FALSE`).
* **Link**: every time is a second or none, which is enough to be within it once
  and beyond it once; the keep-alive interval is below refresh, as in the code,
  and there is one keep-alive before the last chance. Beside the TCP client is one
  link that is a server, a UDP client or a UDP server, and becomes another; what a
  second TCP client would do to the first, taking a socket of the table, these do
  too. `MSGS` bounds the messages waiting, `NSOCK` is 2, so that the table is full
  at times and every handle is used again. The counters need no bound:
  `GivesUp` is what bounds them.
* **FlashBuf**: two neighbouring sectors of two words, so that a piece lies in
  both, changes a part of a sector or all of it, and an image may have data in
  its last word alone. The code compares no values but with erased flash, so one
  other value is enough, and it never looks at more than the sector in the
  buffer and the one it is asked for. `DELAY` 2 and `PERIOD` 1 keep 60 and 32
  seconds in their order; the clock is set back by `AHEAD` or forward past the
  delay. There is no bound on the number of calls.
* **Log**: a ring of three records (the record being overwritten, the oldest and
  the newest differ), four entries, so that the ring turns; `MOD` is larger than
  what is written and small enough that minus one is met. `MaxWrites` bounds the
  entries; failures and reads have no bound, and calls go on after each.
* **Modem**: the times of `modem.c` reduced, in their order (`PowerAt` < `BootTime`,
  `SmsAt` within the time a link may be silent; three times the longest of `Spans`
  wraps), the time off up to a cap that the third failure meets; all counters
  modulo 16. Time itself is not bounded: the counters wrap.

## 5. Fairness

* `DQueue`: weak fairness of `IoRecv` and of each actor's steps inside a call.
  RT-Thread runs threads of one priority in turn, and the threads above sleep a
  tick in each of their loops. Nobody is made to call or to post. An interrupt
  that is enabled is served (`IsrPopChar`), and `uart_Maintian`, which is called
  in the loop of a system thread, enables it again while its queue has something
  (`TxEnable`).
* `Link`: weak fairness of the clock and of each thread's handler, for the same
  reason. `GetsThrough` has strong fairness: a link that tries again and again
  now and then gets its answer before the time-out. That is an assumption about
  the network; without it no client could promise anything. `Reconnects` assumes
  besides that the network stops refusing and resetting at some time.
* `Modem`: weak fairness of `modem_Run`, of the call-back and of
  `modem_Refresh`, which are pieces of threads that run. That a modem which is
  started again and again passes its commands now and then (strong fairness of
  `InitDials`), and that of the links dialled again and again one comes up while
  `modem_Run` waits for it (`ALinkComesUp`), are assumptions about the modem and
  the network. No fairness makes the peer send frames.
* `FlashBuf` has no fairness: `InTime` is safety, because `Tick` assumes that the
  periodic thread is not late (`look < PERIOD`). `modem_Run` runs in that same
  thread and may hold it up for minutes when the modem does not answer; what is
  written in that time waits as much longer.
* `Sfs` and `Log` have no liveness: a call of `sfs` is a loop over at most N - 1
  blocks, which the bound of `qty` in `TypeOK` shows, and one of `log` makes at
  most two writes.

## 6. What is proved

### The queues

For every number and size of blocks, every set of channels and threads and every
use they make of the calls:

| Theorem | States | For |
|---|---|---|
| `TypeCorrect` (DQueue_proofs) | `Spec => []TypeOK` | any transmit interrupts |
| `SemaphoreCounts` (DQueue_proofs) | `Spec => []SemaphoreKept` | any transmit interrupts |
| `Exclusion` (DQueue_proofs) | `Spec => []MutualExclusion` | `IsrChannels = {}` |
| `ChainsWhole` (DQueueOrder_proofs) | `Spec => []WholePool` | `IsrChannels = {}` |
| `ReadersInOrder` (DQueueOrder_proofs) | `Spec => InOrder` | `IsrChannels = {}` |
| `NoBlockLost` (DQueueChain_proofs) | `Spec => []NoLeak` | `IsrChannels = {}` |
| `PoolIsFifo` (DQueueChain_proofs) | `Spec => ImplementsFifo` | `IsrChannels = {}` |
| `LengthHolds` (DQueueChain_proofs) | `Spec => []LengthIsThere` | `IsrChannels = {}` |

`dqueue_isr` shows why the others need `IsrChannels = {}`: with a transmit
interrupt somebody changes the pool beside the one who holds the semaphore.

They rest on `DQueueAssumption` alone. The inductive invariant is `IInv` of
`DQueueInv`.

*The semaphore.* An interrupt that waits for it puts whoever was interrupted into
its list, perhaps one who did not ask for it, and goes on; its release then takes
the first out of the list, perhaps another. What survives is the count
(`SemInv`): as many are behind `dque_Lock` as hold the semaphore or are in the
list. So whoever is behind `dque_Lock` finds the semaphore taken or somebody in
the list (`Guarded`), and it never counts above one; with `CallInv` that is all
the types need.

*The lock.* `MutualExclusion` is not inductive: it needs that the list of
suspended threads has no duplicate, that those in it stand behind the call of
`rt_sem_take`, and that the semaphore is free only when nobody is inside
(`LockInv`), and which call goes with which place in the code (`CallInv`).

*The pool.* "No cycle, no foreign block, no block in two chains" is about
everything reachable from a head, and no single step changes what is reachable in
a way that can be seen locally. The serial numbers of the characters make it
local: the characters of a block
belong to one channel (`Own`) and those of two blocks of a channel are ordered
(`Before`); `next` leads to the next block in this order, the head is the first,
a block without `next` the last, every channel with characters has a head.
`PoolOK` says that up to what the insider has in hand: the block it is about to
release (`Victim`) or has half released (`Gutted`), the one it has filled and
not linked (`Fresh`), the channel it has left without a head (`Headless`).
`Holds` says what the insider knows of `p`, `pn` and `last` at each place. One
lemma per action of an insider (`DQueue_proofs`) shows that it keeps this;
everybody else leaves the pool alone (`PoolFrame`).

*The order.* `Before` of an appended character needs that it is later than what
the block holds, so the invariant follows a character from the mailbox
(`MailOK`) through DqueIo (`HandOK`) and a block (`StoredOK`) to a reader
(`RcvdOK`). `InOrder` then follows from the step `TakeSome` and the invariant
before it.

*The chains.* `NoLeak`, `ImplementsFifo` and `LengthIsThere` speak of whole
chains. `Behind(b)`, the number of blocks of the channel that are `b` or come
after it in the order, is a number that falls along `next`; so a chain ends
within QTY blocks, the bound of `Chain` suffices, and the characters of a chain
are those of its first block and then those of the chain behind it (`Unfold`).
What is said of all blocks of a chain is then proved by the least
counterexample in this number (`NatMin`): the chains of blocks that stay as
they are stay (`ChainsSame`), and those that lead to one that has grown have
grown by the same characters (`ChainsGrow`). For `NoLeak`, every block but a
head has a predecessor, the last block before it (`HasPredecessor`), so that all
are reached, and none from two heads.

*The queues.* `Holding(c)` is what channel c holds. Every step outside the locked
operations leaves each channel as it is (`OutsideKept`), one of an insider all but
its own (`OthersKept`). In its own, DqueIo adds the character it stores at the end
or nothing (`PushGrows`), and a reader takes a prefix or nothing (`ReadsOwn`):
taking the head away, renaming and releasing it show nothing, for the chain goes
on where `Start` says. Besides `IInv` this needs that threads make the calls
they are declared to make (`UsesInv`), that the character in hand was posted
(`SerialFromOne`), and that the block DqueIo has filled and not linked holds it
(`FreshHolds`); together they are `CInv`. `StepOfQueues` sums up what a step
does to all queues, and `FifoStep` maps it to `Put`, `Take`, `Drop` or a stutter.

*The length.* `LenInv` says, for each read of `dque_GetLen`, what has been added up
relative to what the channel holds and what the chain from the block it looks at
still holds: their difference is what it has passed. While the only reader of a
channel measures, nobody but DqueIo is at work on it, and what DqueIo adds makes
both longer by the same (`GrownKeepsMeasured`). Between the read of `in` and the
read of `out` the sum may be too large by what has been read of the block, but
never by more.

### The flash

For every number and size of sectors, every arrangement of neighbours, any
values, delay, period and setting of the clock (`FlashAssumption`), and any
`Mishaps` where none are excluded:

| Theorem (FlashBuf_proofs) | States | For |
|---|---|---|
| `FlashTyped` | `Spec => []TypeOK` | any `Mishaps` |
| `SavedInTime` | `Spec => []InTime` | any `Mishaps` |
| `SavedForReset` | `Spec => []FlushedForReset` | any `Mishaps` |
| `FlashIsMemory` | `Spec => ImplementsMemory` | any `Mishaps` |
| `MishapsLose` | `Spec => OnlyMishapsLose` | any `Mishaps` |
| `CalmReads` | `Spec => ReadsAsWritten` | `Mishaps = {}` |
| `CalmReset` | at a reset every sector is in the flash as it reads | `Mishaps = {}` |

The first five say what may be lost and that nothing else is; the last two, that
without `Mishaps` nothing is lost at all, so that the three of them are the only
reasons.

The inductive invariant adds to the types what the flash holds beside the buffer
(`Copied`: a clean buffer is a copy of its sector, a sector is blank between its
erase and its program, where nothing failed), the pieces of the call in progress
(`PieceInv`), that nothing is dirty between the flush of `sys_Reset` and the
next write (`ResetInv`), and how the silence is bounded by the age and by the
look of the periodic thread (`TimeInv`). `InTime` alone is not inductive: a
sector that seems written in the future is saved at the next look, one whose
age runs may need the delay and a look after it, and the clock may change one
into the other. The refinement has one lemma per kind of step (`AskStep`,
`EraseStep`, `CopyStep`, `AttemptStep`, `SaveStep`, `PowerStep`), each of which
shows that the step is one of `Memory` or none. For the reads `Blanked`
adds that a sector is erased at once only if it was to be blank up to its last
word, and for the last two theorems `Kept` that without `Mishaps` nothing is
ever `spoiled` or `unstamped` and such a sector was to be blank altogether.

### The record store

| Theorem (Sfs_proofs) | States | For |
|---|---|---|
| `SfsTyped` | `Spec => []TypeOK` | every ring, any failures |
| `SfsFits` | `Spec => []Fits` | every ring, any failures |
| `SfsOldIsThere` | `Spec => []OldIsThere` | `CleanRestarts` |
| `SfsOneValid` | `Spec => []OneValid` | `CleanRestarts` |
| `SfsIsKv` | `Spec => ImplementsKv` | `CleanRestarts` |

The first two rest on `SfsAssumption` alone: also with torn copies and with
writing after a failure anywhere, no record reaches into the next block.
`CleanRestarts` is a ring of three or more blocks, no torn copy, and no writing
after a failure among the copies or inside a format. Without it the others are
false: `sfs_recover` shows what a failure among the copies leaves; a format that
is cut behind an interrupted turn leaves the active block followed by a full one,
which the next turn erases although its records are still read; and with two blocks the block after the target is the active
one itself, so that after a failure between `MarkNext` and the first copy the
search for the active block takes the empty one.

The inductive invariants are in `SfsInv`. *Where records lie* (`PlaceInv`): they
follow one another inside a block, which place goes with which call, which
blocks are active at each place, and that room is kept for what is still to be
written. A turn of the ring asks for no room before it copies; the copies fit
because each goes to the place of its original or below (`RoomInv`), which holds
only as the target was empty when the first was copied. *What they are* (`StoreInv`, under
`CleanRestarts`): the active block is followed by an empty one (`RingInv`);
valid records differ in their identities, and while the ring turns the target
holds copies of exactly what has been passed in the source (`OnceInv`); the
address to replace is that of a valid record not passed yet, or there is none
left to replace (`OldInv`); and every other record still shows what it showed
when the call began (`KeptInv`). `OldIsThere` needs that a copy of the record to
replace clears the address, `OneValid` that the source is erased before the
record is stored. One lemma per action shows that it keeps each of the two.

For the refinement the table is a function of what is on the flash (`Shows`).
Every step of a call but the last leaves `before`, and the last is one step of
`KvStore`: `KvWritten`, `KvRefused` (the ring was full, the old record may be
gone), `KvFormatted` and `KvCut` (what a failure leaves).

### The log

For a ring of any size above one, over any record store that keeps `KvStore`, as
long as the u32 index does not come round (`LogAssumption`). That the store is
`Sfs` is not composed with it: `SfsIsKv` needs `CleanRestarts`, so that after a
power failure among the copies of a turn nothing is claimed of the log.

| Theorem (Log_proofs) | States |
|---|---|
| `LogTyped` | `Spec => []TypeOK` |
| `LogHeld` | `Spec => []Held` |
| `LogReadsNext` | `Spec => RightEntry` |

`Held` is not inductive: between its two writes a call has an entry in the ring
that is not counted, and a failure may leave the index gone, old or new.
`PlanInv` lists where a call may stand, with the records it has yet to write
named by their role (`Entry`, `Index`, `First`, `Mark`); `StoreInv` says what the
store holds at each: the index counts the entries or is lost, and then there are
none (`IndexHeld`); those counted are in their records (`RingHeld`), and the one
about to be counted is, unless the store refused it (`EntryHeld`); the mark lies
beyond the index only when one of the two was lost (`MarkHeld`). That the entry
overwrites none of those held is arithmetic (`Apart`: numbers less than a round
apart are in different records). One lemma per kind of record says what its end,
written or failed in any way, leaves.

### The links

For every number of links, sockets, messages and keep-alives and all times
(`LinkAssumption`), under `ServerAlone`: a channel is not configured anew once
released, and a link that is ever a server has only TCP clients beside it.
Without these the theorems are false (`link_late`; `Reused = TRUE`).

| Theorem (Link_proofs) | States |
|---|---|
| `LinkTyped` | `Spec => []TypeOK` |
| `LinkHolds` | `Spec => []SocketsAreHeld` |
| `LinkGivesUp` | `Spec => []GivesUp` |
| `LinkWaits` | `Spec => NotTooEarly` |

`SocketsAreHeld` needs to know which kind of socket goes with which state
(`Suits`): above all that a client never holds a listening socket, and that a
server which released its channel finds no caller on the handle when it looks
at it once more in the same call. `GivesUp` and `NotTooEarly` need how the time
that has passed (`wait`) relates to the one counter that stands for it (`Timed`):
a client may take a count from its last connection into the hold-off, a keep-alive
sets the count back, the last chance sets it to 0.

### The modem

For all times in the order the code gives them (`ModemAssumption`), whatever the
call-backs, refreshes and frames do:

| Theorem (Modem_proofs) | States |
|---|---|
| `ModemTyped` | `Spec => []TypeOK` |
| `ModemHungUp` | `Spec => []HungUp` |
| `ModemPowered` | `Spec => []Powered` |
| `ModemPatient` | `Spec => Patient` |

The invariant says which sessions live (`SessionInv`: one that is not dead was
dialled, but while messages are read), that a start which has counted to
`PowerAt`, or has loaded such a count, has given power (`PowerInv`), and that no
counter runs ahead of the silence it stands for, not even one that is loaded and
not stored yet (`SilenceInv`).

## 7. What is only model-checked

Liveness (`CallsReturn`, `MailboxDrains`, `SentLeaves`, `Reconnects`,
`ComesBack`, `Watched`), which the provers do not reach, and what `dqueue_isr`
and the other violated runs show. Every invariant and action
property and every refinement that a passing run checks is proved.

## 8. What is not modelled, and why

Within the modelled parts:

* `DQueue`: the build with one pool per queue (`DQUE_OBJECT_ENABLE`), whose
  operations are the same with one channel. Kernels other than RT-Thread.
* `Sfs`: a header torn after its first halfword, a block erased in part, and
  what a stale address spoils in the erased rest of a block. Writing after a
  format that was cut behind an interrupted turn of the ring is in no run.
* `Link`: serial and infrared channels, `TC_RECON`, the TCP stack inside the
  modem (`MODEM_TCP_ENABLE`), `chl_Send`; parts of a message in `rbuf`
  (`analyze` waits for the rest and gives up after seconds); `dlrcp_SetChl` from
  another thread than the handler's; a handler that does not run for a multiple
  of 256 seconds, the width of `time`. A connect that fails at once is the same
  to the code as one that is never answered.

* `FlashBuf`: the protection copy of a sector (`SPIF_PROTECT_ENABLE`), which does
  not compile; addresses outside the internal flash.
* `Modem`: the TCP stack inside the modem (`MODEM_TCP_ENABLE`) and the variant for
  the Keil stack; the reset, DTR and activation pins; flow control
  (`MODEM_FLOWCTL_ENABLE`), which does not compile; the texts of commands.
* `Log`: `log_Decode` and `dbg.c`, which format text; the length of a record that is
  gone (`log.c:151`: -1 less the header, as a `size_t`) and what a caller does with it.

Other parts:

* *Serial ports and devices.* `dev_Open` tests and sets without a lock, so two
  threads may both own a port; the idle counter of `uart.c` clears a queue that
  was not empty at a hundred looks; `arch_UartTxIEnable` runs the code of the
  interrupt in the thread, where another thread's pop may come between. There is
  no promise the code keeps here, and none that a comment makes. These are listed
  under hazards; what does hold, that queued characters leave, is `SentLeaves`.
* *`chl_Send`*: its busy flag is tested and set without a lock, and the time it
  is held is that of the send window inside lwIP.
* *File transfer.* `gdfts.c` does not compile: `sfs_Read` takes four arguments and
  is called with three (lines 131 and 172). The boot loader that reads its store
  is not in the repository, and `gdfts_Init` empties the store at every start,
  because `sfs_Read` into a NULL buffer never returns more than 0.
* *Software UART.* Whether the edge interrupt can come between two statements of
  the bit interrupt depends on priorities and pending bits that are set outside
  the code.
* *Power line.* `plc_Handler` and `plc_RealRead` share `struct plc` and its
  receive buffer without a lock; which threads call them is up to the
  application, which is not in the repository.
* *Pure data*: frames of the remote and meter protocols, conversions, check sums,
  fonts and drawing, AT command texts.
* *One chip's registers*: drivers of flash chips, meters, clocks, LCDs, USB.
* *Vendored code*: `os/`, `net/lwip*`, `net/uip`, `fs/elmfat`, `fs/dfs*`,
  `hi/finsh`, `lib/zip`, `lib/minilibc`, vendor libraries and headers under
  `mcu/`, which make up nearly all of the repository by lines. They appear only
  as far as libl meets them: the semaphore, the socket table, PPP's call-back.
* `net/bdip`, an unfinished TCP/IP stack that no part above uses.

## 9. Plan

1. The order of the characters with a transmit interrupt that pops without
   waiting: what of `IInv` beyond types and semaphore survives it.
2. The header of a record as two halfwords, for chips that program halfword by
   halfword, with the unreachable rest of a block as a possible outcome.
3. `plc_Handler` with its retries and unasked reports, once the threads that call
   it are known.
4. `Link`: serial channels, and a change of type between serial and socket.

To run a check: `tlc -config DQueuePool.cfg MCDQueue`, and likewise for the
other configurations named in `PROJECT.json`; to check the proofs:
`tlapm DQueueChain_proofs.tla`, and likewise for the other modules named `*_proofs`.
