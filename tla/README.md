# Verification of the DM81xx PCIe stack in wiscom_code

wiscom_code is a collection of board-support code for multi-processor DVR boards
built from TI DM81xx SoCs. Most of it is small and sequential: demos, hardware
tests, register-level drivers, vendor and third-party examples. Its own core logic
is the stack over which the SoC that is the PCIe *root complex* (RC) sends video
frames and commands to up to three *endpoints* (EP). That stack is concurrent, has
almost no locks, and is what this project is about. Paths below are relative to the
repository (`src/` here).

## 1. The system

### Components

| Component | Code | State | Operations | Model |
|---|---|---|---|---|
| RC library | `bsp_dm8168/bsp_pcie/src/ti81xx_rc.c` | data area (payload, head, `ep_rd_flag[]`), command slot per endpoint, `frame_count` | `pcieRc_init`, `sendData`, `sendCmd`, `recvCmd` | `PcieLink` |
| Endpoint library | `bsp_dm8168/bsp_pcie/src/ti81xx_ep.c` | none | `pcie_slave_init`, `recvData`, `recvCmd`, `sendCmd` | `KBufPool`, `PcieLink` |
| Endpoint driver, protocol | `pcie/pcie_drv/ti81xx_pcie_epdrv.c` 722-922, 1245-1273 | word `cmd`, one work item, two wait queues | interrupt, work handler, ioctls | `PcieLink` |
| Receive FIFO | `pcie/pcie_drv/kfifo_buf.c`, `kbuf_utils.c`, driver 733-904 | `emptyQue`, `fullQue`, the buffers | get/set empty/full, reset; DEQUE, QUE, RESET ioctls | `KBufPool`, `FrameQueue` |
| Outbound windows | driver 190-500, 645-695 | `status_out`, list `outb_req`, registers | map, clear, OB_SIZE, MSI, open, close | `OutbRegions` |
| Init handshake, v0 | `pcie/pcie/src_v0/ti81xx_rc_lib.c`, `ti81xx_ep.c` | management area of each endpoint | `pcieRc_init`, `pcie_slave_getInfo` | `InitHandshake` |
| Library facade | `bsp_dm8168/bsp_pcie/src/osa_pcie.c` | none | dispatch | - |
| RC kernel driver | `pcie/pcie_drv/ti81xx_pcie_rcdrv.c` (a draft nobody builds) | | the ioctls the RC library calls are not in it | external in `PcieLink` |
| Throughput demo | `bsp_dm8168/bsp_pcie/demo/pcie_net_test.c` | parameters shared by main and threads, semaphores, a mutex, `startSend_flag[]` | `rc_send_loop`, `rc_send_loop_multiPthread`, `ep_recv_loop` | `NetThreads` |
| Buffer queues, first version | `kernel_fifo/kfifo_buf.c`, `kfifo_buf_test.c` | two byte rings with free-running counters, wait queues | `OSA_quePut`, `OSA_queGet`, the two kernel threads, module exit | `KfifoRing` |
| UDP frame server | `net_test/dvrrdk_server` | frame and packet counters, a UDP and a TCP connection | `udp_send`, `udps_process`, both `main`s | `UdpFrames` |
| File transfer demo | `bsp_dm8168/bsp_pcie/demo` | none | one loop of library calls on each side | - |
| Board support library | `bsp_dm8168/src` | one descriptor per device | sensors, CPLD, EEPROM, PHY, watchdog | - |
| Small drivers | `sensor_alarm`, `cpld_misc`, `pwm_fan` | `users` counter, registers | open, ioctl | - |
| Boot, tests, vendor code | `pcie/pcie_boot`, `pcie/Epdrv_sample_apps`, `max3107`, `befor_wiscom`, `*_test` | | | not modelled |

### How they interact

```
 RC application                                     EP application (receiver threads)
   pcieRc_sendData / sendCmd                          DEQUE_DATA  / QUE_DATA  (ioctl)
     | 1 payload, head into RC memory                    ^ sleeps on data_wq_h
     | 2 SEND bit in cmd (EP memory) + MSI               |
     v                                                   |
 shared words: cmd[e], ep_rd_flag[e]  --->  ISR -> work handler: put_cmdBuf, put_dataBuf
     ^ 4 waits for ACK bits                     3 head copy, DMA into a buffer, ACK bit
```

The data area is one for all endpoints and is written again by every send. The words
`cmd` and `ep_rd_flag` are written from both sides of the bus. The receive FIFO passes
buffer numbers between the work handler and the readers through two kfifos without a
lock (`CONFIG_BUF_LOCK` is not defined).

### What is hard here, and what makes each part correct

*Link*: read-modify-writes of shared words from both sides, an area reused for the next
frame while somebody may be fetching, acknowledgements later than their timeout, errors
in the middle of a broadcast, a full FIFO. Correct means: nobody fetches from an area
that is being written, a frame arrives whole and at most once, a return value means what
it says, nobody sleeps on a request, a blocking send returns.

*Receive FIFO*: check-then-act without a lock, spinning queue operations in the kernel,
sleeps and wake-ups, signals, a reset while others hold buffers, a receiver that dies.
Correct means: one owner per buffer, no lost buffers, no spin that never ends, the
readers see a queue of frames, nobody sleeps for ever.

*Outbound windows*: a bitmap, a list and registers that have to agree over partial
failure, over a `kmalloc` that sleeps, and over several opens. Correct means: no window
in two mappings, the bitmap is honest, addresses are consecutive across the 32-bit
boundary.

*Handshake*: two sides polling and writing the same words with no order between them,
torn reads, rebroadcasts, restarts. Correct means: right numbers, nobody accepted who
is not ready, and the two sides meet.

*Throughput demo*: main and one thread per endpoint share the parameters of a batch and
take turns by semaphores only, a mutex is held across a blocking send, a signal may come
anywhere. Correct means: each thread sends each batch once and with its size, an endpoint
never sees data before the start message, a program told to stop returns.

*Buffer queues*: two threads test a ring and use it later without a lock, sleep on it, and
its counters wrap; a module exit comes at any time. Correct means: what was tested still
holds when it is used, no buffer is lost or doubled, no wake-up is lost.

*UDP frame server*: packets that may be lost, acknowledged over another connection, a
mark that ends a frame, two counters on two machines, no timeout. Correct means: the file
is a prefix of what was sent, the counters agree, a frame the client closes is complete, and
without faults everything arrives.

PROJECT.json lists the hazards line by line with the properties that cover them.

## 2. The modules

| Module | What it is | Lines of code it stands for |
|---|---|---|
| `FrameQueue` | abstract: what the receive path promises its readers | the DEQUE/QUE interface |
| `KBufPool` | the receive FIFO: worker, readers, application | `kfifo_buf.c`, `kbuf_utils.c`, driver 733-904, 1021-1090 |
| `KfifoRing` | the first version of the queues, down to the ring's counters | `kernel_fifo/kfifo_buf.c`, `kfifo_buf_test.c`, Linux' kfifo and wait queues as they are used |
| `PcieLink` | RC library, work handler and receivers over the shared words | `ti81xx_rc.c` 170-220, 229-506, driver 722-922, 1245-1273, `ti81xx_ep.c` 173-265 |
| `OutbRegions` | the outbound window allocator | driver 190-500, 645-695, 1205-1212 |
| `InitHandshake` | the rendezvous of RC and endpoints in the first library | `ti81xx_rc_lib.c` 71-230, `ti81xx_ep.c` 220-368 of `src_v0` |
| `NetThreads` | the throughput demo over the link | `pcie_net_test.c` 79-530 |
| `UdpFrames` | the frame server, its client and the network | `dvrrdk_server.c`, `client_getdat.c`, `bitsRead.c` |
| `Numbers_proofs` | lemmas for the others: least elements, division, the sum over a function | |
| `KBufPool_proofs` | type, ownership, no spinning, no leak; refinement of `FrameQueue` | |
| `PcieLink_proofs` | type, exclusion, wake-ups; integrity of frames, order of commands, meaning of a success | |
| `InitHandshake_proofs` | type, numbers, readiness, completeness | |
| `KfifoRing_proofs` | type, that the rings need no lock and lose or double no buffer, who sleeps; refinement of `FrameQueue` | |
| `OutbRegions_proofs` | type; for one user no shared window, honest bitmap, right addresses, refusals only when full | |
| `NetThreads_proofs` | type, main and the threads in step, start messages before data, ended tests | |
| `UdpFrames_proofs` | type, the server's lead over the file, the frame counters, whole frames, no mutual wait | |

The modules build on each other by assume and guarantee. `KfifoRing` justifies the
single steps of `KBufPool`; `KBufPool` and `KfifoRing` both refine `FrameQueue`; `PcieLink` uses
its FIFOs as `FrameQueue` promises while no endpoint is restarted; `NetThreads` uses the link as
`PcieLink` shows it to be for one caller at a time, which the demo's mutex ensures: what arrives is
whole and in order, and a full FIFO drops a message that is reported as sent.

A definition named `...Not`, `...Silent`, `...First` and the like, under a comment
that starts with `Mutant`, is the form a definition would have with a plausible
mistake in the code; no specification uses it. For every property PROJECT.json names
one and it makes the property fail, which is the evidence that the property depends on
that line of code.

### KBufPool

A buffer is its index. `emptyQue` and `fullQue` are the two kfifos, `content` what
each buffer holds (a frame number, or `Partial` while the worker fills it). The work
handler (`wpc`) goes through check, get, copy and commit or undo as `put_dataBuf` and
`put_cmdBuf` do; each reader (`rpc`) through the wait, the second check, the get, and
the hold in user space that ends with QUE. One `kfifo_put` or `kfifo_get` is one step
and everything in between interleaves; `OSA_TIMEOUT_FOREVER`, which spins, is a
disabled action. `FifoKind` chooses between the data FIFO (drops when full) and the
command FIFO (sleeps when full). The application opens the device, resets queue by
queue if `en_clearBuf` is set (`pcie_buf_reset` in its four parts), and can be killed
while a thread sleeps or is in user space.

A kfifo operation is atomic because the kernel of this single-core SoC is not
preemptive; a spin in the kernel therefore really is the end, which is why
`PoolNeverSpins` and `ReaderNeverSpins` matter.

The RC may send at any time, also while an application resets the queues. `clashed` is a history
variable that records the one step after which nothing can be promised: a reset of `emptyQue`
that finds a buffer in the worker's hand, which the refill then puts into the queue all the
same. `Exclusive` is one owner per buffer; `OneOwner` is `Exclusive` as long as `clashed` is
false, and so says that this reset is the *only* way to a buffer with two owners. It really is one: after it
TLC finds `Exclusive` violated in a few steps. The code does nothing against it; the intended
order of starting (endpoints before the RC sends) helps only the first time, not after a kill.
The other properties of a clearing start are stated in the same way, `FrameQueueSpec` as the
refinement of `FrameQueue` in which only steps after a clash may do as they like.

### PcieLink

`dpc`, `toTell`, `toWait` follow `pcieRc_sendData` from the copy of payload and head
over the loop that sets SEND_DATA and rings, to the loop that waits for each endpoint's
acknowledgement; `cpc` follows `sendCmd`. For each endpoint `wpc` follows
`pciedev_do_work`: each `|=` and `&= ~` is a read step and a write step through `tmp`.
The RC's half of these words is in a kernel driver that is not in the repository; its
ioctls (`SendAck`, `TakeAck`) are external definitions, atomic, written from how the
library uses them. That an error acknowledgement makes the wait ioctl fail is taken
from the user-space wait they replaced, which is still in `pcie/pcie/src/ti81xx_rc.c`
(lines 326 and 359), compiled out by an `#if 1`. The FIFOs are bounded sequences here: what `KBufPool` adds inside
them is a refinement of `FrameQueue`, which is how `PcieLink` uses them.

`Faults` names what may go wrong in a run: `timeout` (the wait ends early), `sendfail`
(the request ioctl fails, for data `DataTellFails`, for a command `CmdTellFails`, whose slot has then
been written), `dmaerr` (an endpoint's DMA fails), `restart` (the RC application
dies and starts again). `Concurrent` lets data
and commands be sent by two threads.

A restart is `pcieRc_init` on a live system: it clears the head and the words
`ep_rd_flag[]`, then the payload area, then the head again, while the endpoints go on with
the requests of the last session, which are in *their* memory and stay. What keeps going
wrong afterwards is limited: an endpoint may deliver zeros under an old head, never an
older frame, and no request is forgotten. A blocking send after a restart may wait for an
acknowledgement the clearing took away, which is why `SendReturns` is not claimed with it.

### OutbRegions

Sizes and addresses are in MB. `RequestRefused` and `RequestFits` are
`ti81xx_set_out_region` up to its `kmalloc`, where the task may sleep with its choice of
windows made and not recorded; `Map` and `NoMemory` are the rest. The low word of an
address is modulo `LoRange`, so that the carry of lines 431-437 happens in small
instances. `maps` is the list `outb_req`: a function from the entries in it (what `kmalloc` returned) to
their contents, so that clearing by address removes exactly the entries that match. The last
answer is kept in `last` to compare a refusal with the state it was given in. A close frees the list and leaves registers and bitmap as they are.

### InitHandshake

The three words of an endpoint's management area that carry the protocol, written one
at a time by both sides in the order of the code; the RC's copy of the area is made in
two steps, so that a copy can be torn. `RcRebroadcast` is the retry after three
seconds, and a kill of either side can happen anywhere and be followed by a restart.
`RcGiveUp` comes after 1000 retries of three seconds each. The model lets it happen
only when the endpoint that is missing is not running or its answer is gone: an
endpoint that is up takes microseconds to answer, so that in fifty minutes it has.

### NetThreads

`pc` has a place for main (process 0) and for the thread of each endpoint. `Init` is the state
after the options and `init_sem`; `mode` is `-M` or one of the three destinations of `-t`.
`rc_send_data`, which both use, is `BeginSend`, `Flag`, `Lock`, `StartSent`, `DataSent`: the start
flag is set before the start message is sent, and both messages take the mutex one by one.
main's loop is wait, clear, fill, post, with the chains of `sem_wait` and `sem_post` one
semaphore at a time. A thread reads the size of the batch from the shared parameters
(`ThreadRead`), which is the race the semaphores have to exclude. `ep_recv_loop` is
`EpRecv`. SIGQUIT sets `testDone`, after which `Alive` ends when main cancels the threads; a
cancelled thread stops only where `ThreadStep` requires `Alive`, so that a send under way is
finished.

The link is one FIFO of `FifoSize` messages per endpoint (`inbox`). `Deliver` is what `put_dataBuf`
does with a message: with room it enters the FIFO, without it is thrown away, and the sender is
told the same in both cases (`Drop` in `PcieLink`). A send that fails may have reached some of
its endpoints. `missed` is a history variable: the endpoints that have thrown an empty message away.
`StopStops` therefore does not say that every endpoint ends its test: one whose FIFO was full when
the stop message came counts on, and the sender does not know. It says that this is the only
reason, and that every other endpoint has ended exactly one test.

### KfifoRing

The rings are what `kfifo` of the kernel makes of them: `in` and `out` modulo `Wrap`, a slot
modulo `Size`, `Used` their difference. Each call is split into the test, `prepare_to_wait`, the
second test, the sleep, the access, the move of the counter and the wake-up; the two threads
and the module exit interleave between all of them. `kthread_stop` and `kthread_should_stop`
are external. `FQ` maps the lines in `fullQue` to `FrameQueue`.

### UdpFrames

A packet is its frame, number, mark, size and whether its first byte is 0xff. `SendPacket`
and `SendBreaks` are the three cases of the loop of `udp_send`: less than a packet, more
than one, exactly one, which leaves the loop without sending it. `ReadFrame` is
`bitsRead_process`, which returns the end of the file together with the last frame; its error
return, which ends the server, is `ReadFails` (it comes with the first call or never, since `main`
does not look at what `bitsRead_init` returns). The
server ignores what `udp_send` returns, so that a frame given up is followed by the wait for
the next request. The client acknowledges (`SendAck`) before it writes (`Write`). `clean`
records that nothing unlucky has happened, for the conditional liveness property.
Datagrams may be lost but are neither duplicated nor reordered, since at most one is under way
and the boards are on one link; the TCP connection keeps order and is read command by
command, which `AckMatches` and its proof justify (at most one command is ever in it).
`udp_sendfile` in the same directory is an older copy without END_FRAME_CMD.

## 3. The runs

All properties of a passing run hold in all reachable states of its instance.

| Run | Instance | Shows | States |
|---|---|---|---|
| `pool_data` | 2 buffers, 2 readers, data FIFO, clearing start, 4 frames at any time, 1 kill | up to a reset that finds a buffer in the worker's hand: one owner, no leak, no spinning producer; refines `FrameQueue`; an accepted frame is taken in the end | 67 098 |
| `pool_cmd` | 2 buffers, 1 reader, command FIFO, start without clearing, 2 kills | a single reader never spins; the worker finishes, unless killed applications took every buffer | 1 219 |
| `link_calm` | 2 endpoints, broadcast and unicast, 2 frames, 2 commands | exclusion, whole frames in order, return values, commands in order | 642 971 |
| `link_unicast` | 2 endpoints, unicast, DMA errors, 3 frames, 1 command | the same exclusion with errors; every blocking send returns | 167 137 |
| `link_faulty` | 1 endpoint, all faults and restarts, 2 threads, 2 frames | what survives everything: no payload older than its head, no request that nobody works on | 1 639 240 |
| `link_torn` (violation) | broadcast, timeouts | a frame made of two | 1 482 |
| `link_two_threads` (violation) | 1 endpoint, 2 threads | a request erased by `cmd &= ~bit`; its sender waits for ever | 5 770 |
| `outb_one` | 4 windows of 1 or 8 MB, 1 thread, 1 open | no shared window, honest bitmap, right addresses, refusals only when full | 17 028 |
| `init_meet` | 2 endpoints, both modes, 2 retries, 1 crash | right numbers, readiness, completeness; they meet if nothing dies and no answer is overtaken | 74 712 |
| `net_threads` | 2 endpoints with FIFOs of 1, all modes, 2 batches, failing sends, SIGQUIT | threads and main in step, no batch before its start message, one loop leaves every endpoint ready for the next test unless its FIFO was full, a stopped program returns | 191 646 |
| `kfifo_ring` | 4 buffers, counters modulo 8, 10 lines | no lock needed, every buffer in one place, refines `FrameQueue`, no lost wake-up, never both asleep, what removal of the module may wait for | 22 621 |
| `udp_frames` | packets of 2, frames of 0 to 5, 3 frames, loss, failing reads, sends and writes, signals | the file is a prefix of what was sent, acknowledgements match, closed frames are complete, no mutual wait and delivery without faults, a stopped server leaves | 70 560 |

The type invariants are theorems (section 5) and in no run; each was checked by TLC on the
instance of its component before it was proved.

### Bounds, and why they are enough

Two buffers are the least with which a buffer can be in the worker's hand while another
is queued, and with which one reader's buffer can be mistaken for another's; four frames
fill the pool and come round to every buffer again. Two readers are the least that
compete. One kill leaves a whole session before and after it; `pool_cmd` has two, as many as
buffers, so that the killed receivers may have taken all of them. On the link, FIFOs of one
buffer are full after one frame, so that the refusal and the sleeping worker happen with
two frames; a third, in `link_unicast`, lets a late acknowledgement meet a later send. Two endpoints are the
least for a broadcast and for a failure in its middle; the waiting loop is a fold over
endpoints, one at a time. Four windows leave three for mappings, the
least in which a hole between two mappings can be too small; sizes 0, 2 and 9 MB are
nothing, several small windows, and more than one window of 8 MB; base 7 with a low word of 8
makes the carry happen inside a mapping. Two retries let a rebroadcast meet an answer to
the first broadcast and to the second. In `kfifo_ring` ten lines take both counters of both rings past
their wrap and every slot twice. Two batches in `net_threads` let main come round while a
thread has not sent the first, and FIFOs of one message are full as soon as an endpoint is slow. Frames of 0 to 5 bytes in packets of 2 are nothing, less than
a packet, exactly one, exactly two, and several with a remainder; three of them let every
kind follow every other. The theorems remove the bounds where they could
be removed.

`CHECK_DEADLOCK FALSE` is in every run because all instances end when their frames,
commands or retries are used up and their receivers wait for more; that nobody waits
who should not is what the liveness properties say.

### Fairness

Weak fairness of the work handler, of every started library call, of every reader and of
the polling loops: each is a kernel or user thread that is runnable, and the scheduler
runs runnable threads. Weak fairness of the application after its kill: every receiver in the
repository is a loop around open and receive. Nothing that comes from outside is fair:
frames, signals, kills, faults, timeouts, starting the RC or an endpoint. `Meet`
additionally speaks only of behaviours in which both sides have been started. In
`NetThreads` main, the threads and the endpoints are fair and the network, which main reads
batches from, may be silent: `Returns` is about behaviours in which it is not. In `KfifoRing` the
two kernel threads and the exit routine are fair; nobody has to remove the module. In
`UdpFrames` the two programs are fair; `Delivery` is about behaviours without faults, and the
faults and signals are never obliged to happen.

## 4. What was found

The runs marked *violation* each refute one statement of the repository; PROJECT.json
quotes it. In short: after a timeout a frame can be delivered that is made of two
(`link_torn`); with one thread sending data and another sending commands a request can be
erased, and its sender waits for ever (`link_two_threads`).

The following fail too, with the change of instance or the property named. They are not
among the runs because the code or its use excludes them, or to keep the runs to those the
design rests on. The properties are in the modules, marked "Not so".

* `OkMeansReceived` in `link_calm`: `DATA_SEND_SYNC_MODE` promises that the data was received
  (`osa_pcie.h:54`); a frame that a full FIFO refused is acknowledged and reported as sent.
* with `EnClearBuf = TRUE` in `pool_cmd`, the start that `osa_pcie.h:39` recommends, the worker does
  not always finish: RESET_CMDQUE (driver, 1070) rebuilds the queue the work handler sleeps on and
  wakes nobody, which stops the endpoint. `WorkerFinishes` speaks of the other start only.
* with that other start, as many kills as there are buffers can leave the worker asleep for ever:
  `close()` (driver, 1205) does not give back what the dead receivers held. This is the exception in
  `WorkerFinishes` (`Owned = {}`), and reached in `pool_cmd`.
* the empty message that ends a throughput test is thrown away by a full FIFO like any other
  (driver, 749-751) and reported as sent; the endpoint counts on. This is the exception in
  `StopStops` (`missed`), and reached in `net_threads`.
* `MaxOpens = 2` in `outb_one` breaks `StatusHonest`: every open marks all windows free (689)
  while those of another open file are mapped (comment in 193-194).
* `restart` in `link_unicast` breaks `SendReturns` (see `PcieLink` above).
* `EndIsEnd` in `udp_frames`: the first four bytes of a datagram are compared with
  ERR_FILE_END (`client_getdat.c:56`). Packet 1 with the mark and a first byte of 0xff looks
  the same: the client leaves in the middle of the file.
* `Delivery` without `HasMark`: a frame whose size is a multiple of the packet size ends
  without a mark (`dvrrdk_server.c:68`), and both sides wait for ever.
* the end of the file itself is never told: `dvrrdk_server.c:264` sends it to an address of
  zeros. In the model `Exit` therefore sends nothing, and `Delivery` ends with the client in
  `recvfrom`.
* `StopStopsAll` in `net_threads`: with threads main sends the empty message that ends the
  test ("send stop flag", `pcie_net_test.c:510`) and then cancels the threads; a batch that a
  thread delivers after it starts a test at its endpoint that nobody ends.
* `ExitReturns` in `kfifo_ring`: `kthread_stop` (`kfifo_buf_test.c:131`) waits for a thread that
  sleeps for a buffer of the other, which has seen `kthread_exit` and is gone: `rmmod` hangs. It
  may also be called (136) on a thread that has ended, or on the error pointer of a
  `kthread_run` that failed (103).
* `Exclusive` in `pool_data`: RESET_DATAQUE (driver, 1024) while the work handler has a buffer in hand
  gives that buffer two owners (`OneOwner` says that nothing else does).
* two readers break `ReaderNeverSpins`: both pass the check for the one frame there is,
  and the second spins in the kernel.
* `timeout` in `link_unicast` breaks `OkMeansHandled`: a unicast whose wait ends without
  an acknowledgement returns `buf_size` (`ti81xx_rc.c:363-368`).
* `dmaerr` in `link_calm` breaks `AreaExclusive`: the first error ends a broadcast while
  other endpoints still fetch.
* two threads in `outb_one` break `NoShare` through the sleeping `kmalloc`.
* in `init_meet`, `Meet` without its condition on overtaken answers fails: the rebroadcast
  (`ti81xx_rc_lib.c:172-178`) writes EP_ID_ALL over an answer, and as the RC never
  accepts an answer with that number (line 194), that endpoint stays out for ever.

## 5. What is proved

TLAPS checks the following for all values of the constants (under the ASSUMEs of the
modules, which are types of the constants only).

| Theorem | Needs | Statement |
|---|---|---|
| `PoolType` | - | `KBufPool!TypeOK` |
| `PoolOneOwner` | - | one owner per buffer, up to a reset that finds a buffer in the worker's hand |
| `PoolExclusive` | not `EnClearBuf` | one owner per buffer, always |
| `PoolSpinFree` | - | up to such a reset, no put ever waits, and the worker's get only for a running reset |
| `PoolReaderSpinFree` | one reader | nor does the reader's get |
| `PoolNoLeak` | `EnClearBuf` | up to such a reset, no buffer is lost while an application lives |
| `PoolImplementsQueue` | - | every step up to such a reset is one of `FrameQueue` |
| `LinkType` | - | `PcieLink!TypeOK` |
| `LinkAreaExclusive` | `Calm` | the data area is not written while an endpoint may read it |
| `LinkIntact` | `Calm` | whole frames, in order, at most once |
| `LinkOkMeansHandled` | `Calm` | a success means that every destination has the frame or refused it, its FIFO being full |
| `LinkCmdsInOrder` | `Calm` | commands once and in order; those reported as sent have arrived |
| `LinkAwake` | - | a request bit always has a work item |
| `LinkNeverOlder` | - | no payload older than its head |
| `InitType`, `InitRightId`, `InitAcceptedIsReady`, `InitDoneMeansAll` | - | the safety properties of the handshake |
| `RingTypes` | - | `KfifoRing!TypeOK` |
| `RingNeedsNoLock` | - | what a thread saw of a ring still holds when it uses it |
| `RingKeepsBuffers` | - | every buffer is in one place of one ring or with one thread |
| `RingAwake` | - | a thread sleeps only for a buffer that is not there; a put never sleeps, and never do both threads |
| `RingImplementsQueue` | - | `KfifoRing!Spec => FrameQueue!Spec` |
| `OutbTypes` | - | `OutbRegions!TypeOK`: mappings within the windows, registers within their width |
| `OutbNoShare`, `OutbStatusHonest` | `OneUser` | no window in two mappings; the bitmap is true |
| `OutbTranslates` | `OneUser` | a mapping's windows translate to consecutive addresses, across the low word's end |
| `OutbRefusals` | `OneUser` | a request is refused only when no run of free windows would hold it |
| `NetTypeCorrect` | - | `NetThreads!TypeOK`, its semaphores binary |
| `NetLockstep` | - | each thread sends each batch once, in order and with its size |
| `NetNothingSkipped` | - | unless a send failed, no endpoint gets data before its start message |
| `NetStopStops` | - | with one loop and no failed send, an endpoint with an empty inbox has ended its test, or its full FIFO threw the empty message away |
| `UdpTypes` | - | `UdpFrames!TypeOK` |
| `UdpOneAhead` | - | the file is a prefix of what was sent, at most two packets behind |
| `UdpAckMatches` | - | an acknowledgement is the one expected, and alone in the connection |
| `UdpWhole` | - | a frame the client takes for finished is in the file, all its bytes, in order |
| `UdpNoStall` | - | unless something unlucky happened, the two sides stop only when the file has arrived |

`Calm` is: no faults and one sending thread. `LinkAwake` and `LinkNeverOlder` need no such
assumption; they hold with every fault, restarts of the RC included, and both threads.
`OneUser` is one thread and at most one open at a time. The theorems about the rings, the
throughput demo and the UDP server need no assumption on their environment: failing sends,
losses, full FIFOs and signals are steps of the specification, and the condition on failed sends is
part of the two properties that speak of it. Nor do those about the receive FIFO assume anything of
the RC, which may send at any moment of a reset. Every invariant below was checked by TLC on the instance of
the component's run before it was proved.

*Receive FIFO.* `OneOwner` alone is not inductive: a reset would break it. `ResetInv`
adds that while queues are rebuilt there is no reader in the driver and that, unless the reset
clashed, whatever has an owner has an index below the counter: the worker may go on during the
refill, with buffers the refill has already put back. `PoolInv`, the conjunction with `TypeOK`, is inductive. The refinement needs `ContentInv`
in addition: what the readers can reach is complete, and what the worker is about to
commit is the frame that arrived last. `QueueSame` and `HandSame` say when a step leaves
the abstract queue and the readers' hands alone; that a step of the worker does so
follows from `OneOwner`.

Spinning is excluded by counting: a queue without repetitions that lacks one buffer is
shorter than the pool (`Room`), so a put by somebody who owns a buffer has room; and a get by
the worker finds what the worker saw, which alone takes free buffers (`SeenInv`). `WholeInv`
says that after a clearing start the queues, the worker and the readers together have every
buffer, and that the refill has put each index below its counter.

*Link.* Exclusion follows from looking at a request as a token: for each endpoint there is at
most one, it is in one place (the SEND bit, the work handler, the acknowledgement), and it
exists only while its sender waits for it. `LinkInv` (in `PcieLink_proofs`) states this
for data (`DataToken`) and commands
(`CmdToken`), together with what makes the split read-modify-writes harmless when there is
one sender: while the worker is between the read and the write of a word, nobody else
changes it (`Undisturbed`). `LinkIntact` adds that head and payload of the area agree
whenever somebody may fetch, and that all logs are below the current frame. `LinkOkMeansHandled` follows the
acknowledgement back (`AckInv`: one that is on its way, there or taken belongs to a handled
frame), and `LinkCmdsInOrder` does for the slots and the logs of commands what `FrameInv` does
for the area (`CmdInv`: the slot holds the running command until it is reported, and the log is
older until the worker has taken it). `LinkNeverOlder`
rests on another invariant (`AgeInv`): the RC writes the payload before the head and an
endpoint reads them in the opposite order.

*Handshake.* `InitInv`: whatever looks like an answer comes from an endpoint whose window is
open; the area of an endpoint the RC is still waiting for has been broadcast to, so that a copy
of it never shows the 0 of a cleared area; the counter is the number of accepted
endpoints. Retries, torn copies and restarts on both sides are included.

*Rings.* Each counter has one writer. `RoomInv` says which thread is in which call, so that the
other can only make the tested condition more true: a get lowers `Used`, a put raises it, by
one and modulo `Wrap` (`GetLowers`, `PutRaises`). `EachOnce` counts places and is not a form to
reason with. `EachInv` says the same with quantifiers: a buffer is somewhere, and of two places
of it the one is the other; what it needs is that two positions of a ring that are in use have
two slots (`SlotsApart`, by `Wrap` being a multiple of `Size`: a ring whose counters wrapped
elsewhere would overwrite its own bytes). It is not inductive alone: between the copy of a byte
and the step of the counter a buffer is in the ring's byte and in the thread's hand, and
`MoveInv` ties the two until the counter decides. For the refinement the ring's `full` positions
are mapped to the queue of the lines in the buffers they name (`AbsQueue`), the
reader's buffer to its hand, the writer's to the frame on its way. `LineInv` says that this
frame is the last that was written. The step of a counter of `fullQue` is then the abstract
`Accept` or `Take` (`MoveImplements`), filling a buffer the abstract `Arrive`
(`FillImplements`), the reader's return of a buffer `GiveBack`, and all else a stutter (`QuietSteps`), the writing of a byte
included, since no position in use has its slot (`AccessContent`).
Who sleeps follows from `AwakeInv`: a reader that is on the list of its queue has tested the ring
after it went on the list, and whoever fills the ring after that test still has to wake. A put
finds room because whoever puts holds one of the buffers itself (`RoomForPut`: a full ring would have
all buffers in `Size` slots of their own, that one included); and both cannot sleep for a buffer, as
there would be none anywhere.

*Outbound windows.* With one user nothing changes between the choice of the windows and the
recording of them (`PendFree`); a mapping then takes only windows whose bit is set, and a
clearing gives back exactly those of the entries it removes. The type invariant needs that the
windows chosen end before that of the MSIs (`InBounds`). For the addresses, the loop with its
carry is shown to compute quotient and remainder of `base + k * width` (`AdvanceIs`, by the
least turn at which it would not), and `Placed` says that each window of a mapping holds what
the loop computed for it: writing another mapping cannot disturb it, because of `NoShare`, and
clearing does not touch the registers. A refusal for want of windows rests on a sum:
the regions added up over the list are as many as the windows in use (`InUseIs`, from
`SumOfSizes` for disjoint sets), so that a sum too large leaves fewer free windows
than the request needs (`NoRoom`).

*Throughput demo.* Main and each thread share one token (`Token`): it is a count of one of the
two semaphores, or with main, or with the thread, and only who has it reads or writes the
parameters. Which of these tells whether the thread still owes the last batch (`Behind`), and so how
long its list of sizes is. A thread that has looked at the size between main's stopping and
its cancellation has seen 0, which `ForLast` allows for. `TypeOK` calls the semaphores binary
and therefore needs `LockInv` too. For what the endpoints get, every batch of a thread begins
with START_SEND_DATA like the buffer it is sent from (`AllStart`), so that no order of the threads
matters. With one loop a batch may begin with anything, and `StreamInv` follows
the messages of one endpoint: the first is the start, nothing but an empty message follows an
empty one, and while the loop ends (`StopInv`) every endpoint that was started has its empty
message sent, thrown away or pending (`EndGone`). That the start message itself is never thrown away
rests on `StreamInv` too: until it comes the FIFO is empty. `DestInv` says which flag belongs to which destination.

*UDP frames.* The argument looks at the newest packet. While the server waits for its
acknowledgement (`Waiting`) it is on the wire, lost or in the client's hand, and there is
nothing else under way; in every other place of the server the client has acknowledged it.
`LeadInv` says for each place of the client how many packets the file lacks, `CountInv` how
the client's counter relates to the server's frame, and `TcpInv` which one command can be
on the connection. Together with `TypeOK` and `FileInv` they are inductive for every packet
size, every file and all faults.

That a finished frame is whole is a statement about all packets, not the newest. `LinkInv` ties
each packet sent to the one before it: a packet with number 0 comes after the last of an earlier
frame, any other after the packet with the number before, of the same frame and without the mark. `CutInv` says that all
but the last of a frame are full and that the last ends where the frame does, which rests on
what `udp_send` has still to send (`RestInv`). `EndInv` says that the client asks for a frame only after it has
written the last packet of the one before. From these, and the file being a beginning of what was
sent, the packets of a frame whose last is in the file are one stretch, from number 0 to the last
(`Stretch`, `Ordered`, `PacketsAre`), and `SumOfStretches` adds up their sizes.

`NoStall` is the safety half of `Delivery`. Nobody waits as long as one packet or command is on
its way to whoever waits for it, and `MovesInv` says where it is: a packet that is not
acknowledged is on the wire or in the client's hand; after the acknowledgement of a last packet
the client is writing it or waits for the end of the frame; between two frames the end of the one or
the request for the next is under way. The loop of `udp_send` that ends without a packet is
excluded by the frame's size alone: what is left is then one packet, and the size a multiple of
the packet size (`NoBreak`, from `RestInv`).

*Numbers and sums.* Where a proof needs induction over the turns of a loop or the packets of a
frame it takes the least counterexample (`Least`, from the well-foundedness of `<`): the
library's induction theorems have an operator as parameter, which these provers cannot instantiate.
`SumOfSizes` shows in this way what the fold behind `SumFunction` computes, whatever element it
chooses first: for disjoint sets the sum of their sizes is the size of their union. Sums of
numbers are brought to that form by giving each number a stretch of its length.

Only model-checked: the liveness properties of section 3, since fairness and ENABLED are out of
the prover's reach. Every safety property that a passing run checks, the two refinements of
`FrameQueue` among them, is also a theorem.

## 6. What is not modelled

Most of the repository's lines are third-party or vendor code and hardware tests: copies of
Linux and TI drivers (`max3107`, `befor_wiscom`, `ads7846`, `omap2_mcspi`), TI's sample
applications, and programs that set up registers or exercise one device once and report. They
have no protocol or concurrency of their own, so that a model would restate assignments; they
are the reason why the modelled share of the lines is small.

Inside the modelled parts: byte contents and lengths on the link (a frame is a number); the
endpoint's own `sendCmd` to the RC and `pcieRc_recvCmd`, whose counterpart is the missing RC
driver; raw register access from user space, which can undo anything; the raw interrupt path
with its poll (driver, 1168), which the library does not use; module loading; the data path
of the first library, whose receiver is compiled with macros that do not fit its sender; a
receive that fails at an endpoint of the throughput demo; connection set-up of the UDP
server. The components not modelled at all are listed in section 1, with reasons in PROJECT.json.

Two things were seen on the way and belong to no run: at the end of the index file
`bitsRead.c:42` leaves the size of the last frame in place, so that its bytes may be sent a second
time; and `BSP_DisableWatchdog` (`wdt.c:40`) refuses exactly when the watchdog is open, its test
being that of `BSP_EnableWatchdog`, so that a watchdog once enabled is never disabled.

## 7. What is left

1. `PollIrq`: the raw interrupt path with its poll and the order of module loading.
2. The single-user open of the small drivers (`users` counter) and the watchdog.
3. The file transfer demo over `PcieLink`.
4. Proofs: that each endpoint's half of the link implements `FrameQueue`, so that the three
   levels are connected by theorems; the second thread of `OutbRegions` once the code locks.
