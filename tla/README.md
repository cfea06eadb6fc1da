# A TLA+ development for ZRLMPI

ZRLMPI runs one MPI program on a cluster of network-attached FPGAs and CPUs.  A
transpiler turns the program into an HLS kernel and a CPU binary; both talk to
the other ranks with a small rendezvous protocol over UDP:

    sender                         receiver
      | ---- SEND_REQUEST ----------> |
      | <--- CLEAR_TO_SEND ---------- |
      | ---- DATA, CONT, CONT ... --> |     DATA: header and first payload
      | <--- ACK -------------------- |     CONT: payload only, no header

Both sides have timers and repeat packets.  The protocol is implemented twice,
in a hardware engine (`LIB/HW/hls/mpe2`) and in a C++ library (`LIB/SW`), and
the two have to agree.  This directory models both, composes them into
clusters, adds the way of the words inside an FPGA below the protocol, the
collective operations above it, the bytes of a header and the start of the ranks
before it, checks all that with TLC and proves invariants of it with TLAPS.

## Inventory

| Component | State | Operations | Interacts with | Models |
|---|---|---|---|---|
| Engine FSM, `pMpeGlobal` (`mpe.cpp:764-1796`) | state, current call, expected header, timer and increment, send and receive counters, header cache (one line per rank) | one switch over 34 states | wrapper (call, data, feedback FIFOs), `pDeqSend`, `pDeqRecv`, network | `Mpe`; the states that move data also in `DataPath` |
| `pDeqSend`, `pDeqRecv` (`mpe.cpp:423-762`) | state, line counters, half a beat | cut a message into packets; count lines and set tlast | `sFifoDataTX`, `sDeqSendDone`, `sFifoDataRX`, `sExpectedLength`, `sDeqRecvDone` | `DataPath` by lines, `Mpe` by packets |
| `pEnqMpiData`, `pEnqTcpIn` (`mpe.cpp:240-420`) | half a beat | widen 8 bytes to 16 | input FIFOs | `DataPath` |
| Wrapper (`ZRLMPI_temp.cpp`) | loop state, index, BRAM buffer | `MPI_Send`, `MPI_Recv` and their DRAM variants | the engine's FIFOs, the user program | `DataPath`; send and receive also in `Mpe` |
| CPU library (`LIB/SW/ZRLMPI.cpp`) | header cache, `skip_cache_entry`, `cache_num`; locals of the call | `MPI_Send`, `MPI_Recv`, `receiveHeader` | one UDP socket | `CpuLib` |
| Wrapper, start and end (`ZRLMPI_temp.cpp`) | the memory test, `app_init`, rank and size, `my_app_done` | one invocation of `mpi_wrapper` | the management core, the display, the user program | `Role` |
| CPU `main`, `MPI_Init`, `MPI_Finalize` and the arguments of the launcher | `rank_socks`, ports | check of the arguments, one round per rank, bind, end | the processes on the same host | `Startup` |
| Header codec, reductions (`LIB/COMMON`) | none | `headerToBytes`, `bytesToHeader`, `MPI_SUM_*`, `my_memcpy` | all of the above | `HeaderBytes` (the bytes), `Packets` (what is recognised), `CollectiveRun` (sums and copies) |
| Collectives (`template_generator.py`) | none (pure) | replace `MPI_Scatter`, `Gather`, `Bcast`, `Reduce` by sends and receives | the user program of every rank | `Collectives`, executed by `CollectiveRun` |
| Syntax tree pass (`ast_processing.py`, visitors) | none | chooses loop or tree, folds rank comparisons into the one FPGA kernel | the collectives | the choice and the folding, in `Collectives` |
| Resource checker, `ZRLMPI.RUN`'s cluster requests, role templates, `triangle_app`, `unifdef` | | | | not modelled (see below) |

What is hard here:

* **concurrency**: the processes of an engine and its wrapper exchange FIFOs
  and done flags; ranks exchange packets that overtake each other;
* **failure**: packets are lost, three timers per transfer repeat them, and a
  repeated packet can be taken for one of the next message;
* **memory between calls**: both receivers keep headers nobody waited for in a
  cache that outlives the call;
* **two implementations** with different timeouts, different cache rules and
  different data type handling;
* **three widths**: words, lines of two and beats of four words, windows of a
  BRAM buffer and packets, none aligned with the others;
* **code emitted for many ranks** from one call: all ranks have to agree on who
  talks to whom, in which order, and how much.

What makes each part correct: a receive returns exactly the data of the paired
send, and a send returns only after that (cluster); the hand-overs of the engine
do not mix messages and leave nothing behind (engine); the cache neither hides
nor resurrects a header (both); every call returns as long as fewer packets are
lost than the timers repeat (cluster); the words of a message arrive in memory,
and nothing else does (data path); the emitted calls meet and leave what MPI
promises (collectives); every rank looks for another one where that one listens,
and every program starts with the right rank, size and arguments (startup).  `PROJECT.json` lists the hazards with their lines and the properties
that watch them.

## Modules

| Module | What it is |
|---|---|
| `HeaderBytes` | the 32 bytes of a header, written and read (pure operators) |
| `Packets` | calls, packet types, header fields; what a receiver can tell about a packet |
| `Network` | one channel per ordered pair of ranks, loss, bounded reordering (external) |
| `Application` | the program of every rank, what its calls returned, `RightData`, `Finishes` |
| `Rendezvous` | the abstract specification: take the data while the sender is blocked, then both return |
| `Mpe` | FPGA: engine, dequeue processes, wrapper; one action per visit of a state |
| `CpuLib` | CPU: the library, one action per `sendto` or `recvfrom` |
| `Cluster` | composition of any set of FPGAs and CPUs, timing, fairness, refinement mapping |
| `MCCluster` | programs for TLC |
| `DataPath` | one message from memory to memory through two FPGAs, word by word |
| `Collectives` | the statements emitted for each rank (pure operators) |
| `CollectiveRun` | the ranks execute them; `MCCollectiveRun` has the cases |
| `Startup` | the process of every CPU rank, from `main` to `MPI_Finalize`, without its messages |
| `Role` | the wrapper of every FPGA rank around its program |
| `Launch` | `Startup` and `Role` as one cluster; `MCLaunch` has the arguments |
| `Mpe_proofs` | the proofs about the FPGA ranks (and the lemmas about `Application`) |
| `Cluster_proofs` | the proofs about the CPU ranks, `Cluster` and `HeaderBytes` |
| `Handshake_proofs` | the hand-shake of a message, and that the CPU ranks follow it |
| `Rendezvous_proofs` | that the FPGA ranks follow it, and that `Cluster` implements `Rendezvous` |
| `DataPath_proofs` | the proofs about `DataPath` |
| `DataFlow_proofs` | the proofs about `DataPath` without loss |
| `CollectiveRun_proofs`, `Startup_proofs` | the proofs about `CollectiveRun`, and about `Startup`, `Role` and `Launch` |

`HeaderBytes <- Packets <- Network <- Application <- Mpe, CpuLib <- Cluster <- MCCluster` is the
chain of EXTENDS; `Cluster` instantiates `Rendezvous` for the refinement.
`Collectives <- CollectiveRun <- MCCollectiveRun` is a second one, `Startup <-
Launch <- MCLaunch` a third; `Launch` takes `Role` with INSTANCE.  `DataPath`
stands alone.

The layers rest on each other in this way.  `Launch` ends with programs that
know their rank, and with sockets that lead to the right one; `Cluster` begins there, with channels between ranks.
`Mpe` moves a packet in one step; `DataPath` shows what this step does to the
words.  `Cluster` implements `Rendezvous`, in which a send and its receive meet;
`CollectiveRun` lets a send and its receive be one step of both ranks.

### How the state corresponds to the code

**Cluster.**  `mpe[n]` is the record of static variables of `pMpeGlobal`: `fsm` is
`fsmMpeState`, `call/count/rank` are `currentInfo`, `expType/expCall` the header
`checkHeader` expects, `inc` is `protocol_timeout_inc`, `timer` says whether
`protocol_timeout_cnt` still has to pass zero (it is unsigned, so a counter that
is not reloaded wraps and does not fire again), `more`, `dataSrc` and `started`
are `expect_more_data`, `current_data_src_node_id` and
`receive_right_data_started`.  `fifo[n]` holds the streams, `deq[n]` the
registers of `pDeqRecv`, `wrap[n]` the loop state of the wrapper.  `cpu[n]` is
the position in `send_internal`/`recv_internal`, `timeout_inc`, the packets sent
or received, the header cache and `cache_num`.

Abstractions of the cluster, all at packet level:

* a *unit* is the payload of one packet; `<<s, k, p>>` is the p-th unit of the
  k-th call of rank s, so that a unit in the wrong place is visible;
* the beats that write one header or read one packet are one action, because
  nobody else touches them in between; so are the cache lookup states, which
  only set the engine's own registers;
* a header consists of the fields that receivers compare, and `MPI_STATUS`,
  tags and communicators, which no code reads, are left out;
* FIFOs between the engine's processes are unbounded, except the feedback FIFO
  (`FeedbackDepth`), on which the engine's timers depend;
* a unit is the many lines of one packet (up to 177).  The poison pill of a receive
  that gives up is one line of 8 bytes, so `Poison` is no unit: `DeqRecvPoison` takes
  it without counting it.  A header taken for payload (`Junk`) counts as one unit, in
  the code as 8 words; the data is wrong from then on either way.  What a single line
  more or less does, for instance where the last packet *is* one line, is the
  subject of `DataPath`, where all lines are counted;
* `MPE_RESET` waits for `cluster_size`, which the management core sets in the end
  (`Role`); in `Mpe` this is a part of the time the step may take.

**DataPath.**  One variable per process: `sw` and `rw` are the wrappers of sender
and receiver (index, window, BRAM buffer), `enq` `pEnqMpiData`, `se` and `re`
`pMpeGlobal` of both sides, `dq` `pDeqSend` with the packet it is writing, `net`
the packets in flight, `tin` `pEnqTcpIn`, `dr` `pDeqRecv`, `dst` the memory of
the receiver, and `fifo` all streams and flags between them.  The message and
the choice of `MPI_Send` or `MPI_Send_DRAM`, `MPI_Recv` or `MPI_Recv_DRAM` are
`job`.  The k-th word of a message is the number k + 1, so that a word in the wrong
place is visible; tkeep is the number of lines of a beat; FIFOs have `Depth`
places.  The model begins when both engines turn to the data; the ACK is a flag.

**Collectives.**  `Code(c, r)` is the list of statements emitted for rank r in
case c: the kind of call, the rank lists of `cluster.json`, `com_opt`, the root,
and whether both buffers are one array.  `CollectiveRun` has a program counter
`pc` and buffers `mem` per rank.  Memory is counted in chunks, the data one rank
contributes or gets, of which all emitted offsets and lengths are multiples; the
value of a chunk is the bag of contributions summed up in it, so that a
contribution that is lost or counted twice is visible.  A send and its receive
are one step (`Transfer`): blocking until the peer is there, then both return.

**Startup.**  `i`, `offset`, `ownPort`, `addrs` and `socks` are the locals and
`rank_socks` of `MPI_Init`, per rank; `bound` is what the operating system knows;
`cluster`, chosen in the initial state, says which ranks are FPGAs and on which
host each rank is.  The list of arguments is the one the launcher builds: the
addresses of all other ranks in their order, then the arguments of the user
program (`extra`).  `at` is the position in `main`, `app` what was passed to the
program.

**Role.**  `fmc` are the two registers that the management core writes, `role` the
static variables of `mpi_wrapper`, `mmio` what it displays.  One invocation of the
wrapper is one action, unless it calls the program: then `AppMain` and `AppReturns`
are its two halves.  The DRAM of the memory test may be broken (`intact`).

### Time

The timers (100 ms and more) run in real time, which is not modelled.  Which
timeouts can happen in a cluster is the constant `Patience`:

* `"none"`: a timer may expire at any moment.  Used for what has to hold
  regardless: types, hand-overs, caches.  The proofs use no assumption on it.
* `"message"`: not between two packets of one message, which follow each other
  in microseconds.  All other timeouts may be premature.
* `"full"`: only when the cluster has come to a stop, that is, timeouts longer
  than any answer takes.  Used for recovery from loss.

`MaxInc` is `ZRLMPI_PROTOCOL_MAX_INC` (3 in the code).

In `DataPath` a timeout comes only when no process can move.  Both engines have
then waited for the same time, and the shorter timer is the first.  Which one that is
depends on the ranks: the basis of a timer is 100 ms and 12.5 ms for each rank below
the own one (`mpe.cpp:875`), the sender waits for the ACK twice its basis (1219), the
receiver for the rest of a message once its own (1677), and each earlier timeout of
the same engine adds a second.  `AckTimeout` and `DataTimeout` are these lengths in
units of 12.5 ms, 16 + 2 `from` and 8 + `to` at first.  So the receiver is first if
its rank is below 8 + 2 times that of the sender, the sender if it is above, and if it is
equal either may be.  `datapath` has the ranks 0 and 7, the largest receiver whose
timer is before that of sender 0; `early_repetition` the ranks 0 and 9.

### Fairness

`FairSpec` of `Cluster` has weak fairness for the engine, `pDeqSend`, `pDeqRecv`
and the wrapper of every FPGA (each is a process that runs in every clock cycle)
and for every CPU rank (one runnable process).  Timeouts are part of the fair
step: a counter that may expire does.  There is no fairness on the network: a
packet that is not lost stays receivable until it is read, and reading is a step
of the receiver.

`DataPath` has weak fairness of "some process moves or some timer expires", and
none of loss.  It is weaker than fairness of every process, and enough: the
message is finite and every step brings it forward.  `CollectiveRun` has weak
fairness of `Next`: two ranks that have called each other return, which is what
`Finishes` of the cluster says.

## Runs

Deadlock is checked where the system must not stop; a system whose calls all
returned takes the step `Terminated`, which is no step of the code.

| Run | Instance | Shows |
|---|---|---|
| `crossing` | FPGAs 0 and 2, CPU 1; messages cross, one has two packets; premature timeouts | `OnlySendersAwaitAck`, `NothingLeftOver`, `IsRendezvous`, `HeadersAreRead`, `Finishes` |
| `ring_loss` | a ring of FPGAs 0, 3 and CPUs 2, 1 with a link of every kind, two messages on two links, one `MPI_FLOAT` on both equal links; one REQUEST, CLEAR or DATA packet is lost | `RightData`, `IsRendezvous`, `Finishes` |
| `hostile` | FPGA and CPU, three messages, two of them (one each way) in two packets, timeouts at any moment, one in each call, two losses of any type, reordering by one | `TypeOK`, `AckNeverCached`, `TxAlternates`, `CacheNumCovers` |
| `datapath` | 17 lengths of 0 to 24 words from rank 0 to rank 7, all four pairs of wrapper variants, loss of the first packet or of a last packet of one line | `TypeOK`, `RightMemory`, `NothingBeyond`, `CleanAfterwards`, `PacketBound`, `Finishes` |
| `collectives` | four collectives, loops and trees, 92 cases | `RightResult`, `SameLength`, `WithinBuffers`, `Finishes` |
| `startup` | four ranks on up to three hosts, every placement, every set of FPGAs with hosts of their own, up to two arguments for the program | `Reaches`, `NobodyExits`, `FpgasReach`, `GivenArguments`, `KnowsItsPlace`, `DisplayIsTrue` |

What the properties say:

* `IsRendezvous`: every behaviour of the cluster is one of `Rendezvous`; a receive
  takes its data while the paired send is blocked, and both return afterwards;
* `RightData`: whatever call has returned, it returned the paired data, complete
  and in order;
* `Finishes`: every call returns (in all three specifications with fairness);
* `OnlySendersAwaitAck`: a receive never ends up in the sender's state WAIT4ACK;
* `NothingLeftOver`: when the wrapper is between two calls, no FIFO of its engine keeps
  data, feedback, a length or a done flag of a finished call;
* `TxAlternates`: `pMpeGlobal` starts no message before `pDeqSend` has reported the
  end of the last one, and takes each report once;
* `AckNeverCached`: an ACK that would end a send without feedback is never in the
  cache when it is looked for;
* `CacheNumCovers`: `cache_num` is 0 only when the cache of a CPU is empty;
* `RightMemory`, `NothingBeyond`: the receiver's memory holds the message when the
  receive returns, and nothing around it is written;
* `CleanAfterwards`: after a message every process is back at its start and every
  stream is empty, so the next message is aligned; only of the done flags of
  `pDeqRecv` one is left for each FAIL (*poison pill* below);
* `PacketBound`: no packet exceeds the limit by more than one line;
* `RightResult`: a rank at which a collective has returned holds what MPI promises,
  each contribution once and in its place;
* `SameLength`, `WithinBuffers`: calls that meet agree on the length, and no
  statement leaves its buffer;
* `Reaches`, `NobodyExits`, `FpgasReach`: ranks listen where they are looked for, no
  port is taken twice, and the first rank of a host has the port FPGAs send to;
* `GivenArguments`: a user program is called with the number of arguments it was
  given, and with the right one if there is one;
* `KnowsItsPlace`, `DisplayIsTrue`: an FPGA program runs after the memory test, with
  its rank and the size of the cluster; the display is up to date at every return;
* `HeadersAreRead`: the bytes of every header under way are recognised and read
  back as the fields that were written.

Why the bounds are enough to be interesting:

* three ranks give a receiver another rank's header to keep, the ring of four
  has every kind of link between the two implementations, and all requests but
  one arrive while their receiver is busy with another rank; messages of two
  packets have a first and a last one; `MaxInc` of 1 or 2 lets the timers fire,
  fire again and give up; one loss, in `hostile` two, is placed by TLC at every
  possible packet.  There `MaxInc` is 1, and a receive gives up in the middle of a
  message, with its poison pill on the way, while the sender goes on or repeats;
  `Window = 2` of the network is the smallest reordering;
* in `datapath` a packet holds `MaxLines = 5` lines (177 in the code, odd too:
  a beat is cut by the end of a packet), the BRAM buffer `Window = 4` words (352
  in the code, even too).  `Counts` has odd and even lengths, the ends of the
  windows (4, 8, 12, 16) and their neighbours, messages of one, two and three
  packets, each kind of last beat, and 0 and 1, which take their own paths in
  the wrapper.  `Depth = 2` makes every process wait for the next one;
* in `collectives` a group has 4 FPGAs and a cluster 2, 4, 5, 8 or 9: one to
  three groups of which the last is full, is short or is a replicator alone;
  loops are run for every root, except that reductions go to rank 0;
* in `startup` four ranks put a rank before, between and after others of its own
  host and of another host.  The two registers of each FPGA are written at any
  time between the halves of its memory test.

`hostile`, `lost_ack`, `second_cpu` and `later_root` do not check deadlock: with the timers
exhausted, or with a rank that waits for nobody, the cluster really stops.

### Disagreements with comments and documentation

These runs end in a counterexample; each is described, with the quoted line,
under "findings" in `PROJECT.json`.

| Run | What happens |
|---|---|
| `early_repetition` | ranks 0 and 9, a last packet of one line is lost, and the sender's timer is the first: the receiver stores the header of the repetition as the rest of the message and returns OK (701 or 702 words in the code) |
| `cpu_stale_request` | with no loss and no reordering at all, a SEND_REQUEST repeated too early stays in the CPU's cache, and the next receive takes repeated DATA for its own |
| `lost_ack` | the ACK is sent once; the repeated DATA finds nobody who expects it |
| `oversize` | a message that ends with a full beat in the last line of a packet makes this packet one line longer than the limit (347 or 348 words in the code) |
| `second_cpu` | a broadcast as a tree leaves out every CPU but the root |
| `later_root` | a reduction as a loop to a rank other than 0 overwrites what it has summed up |

They are also the reason for the instances above: `Losable` of `ring_loss` has
neither ACK nor CONT, and no run with premature timeouts of CPUs claims
`RightData`.

### Observations

Seen while modelling, and kept out of the instances above:

* **mixed FLOAT.**  The header of a CPU always carries the INT calls
  (`ZRLMPI.cpp:475-476`, `695-696`), that of an FPGA the call of the data type.
  Between equal ranks FLOAT works, which `ring_loss` covers; between a CPU and an
  FPGA no header is ever accepted.
* **runt.**  When the first packet is lost and the last one has at most two
  lines, `RECV_DATA_START` takes this only beat for the first half of a header
  and goes to `RECV_DATA_START_1`, which waits for a second beat without a timer:
  the receive hangs.  With `MaxLines = 5` these are the lengths 5, 6 and 13 to 16,
  in the code 349 or 350 words for two packets; they are in `Counts` but
  not in `LossyCounts`.
* **poison pill.**  The pill counts as one line.  If the lost packet had one line, the
  attempt that failed is complete with it, and its done flag stays in
  `sDeqRecvDone`: exactly one for each FAIL, as `CleanAfterwards` says.  The
  receive that goes on reads it in `RECV_DATA_WRD`, and may send its ACK before its own
  lines are passed on; they are passed on all the same.  If the lost packet had more
  lines, the comment "re-start receive completely" (`mpe.cpp:1574`) is not what happens, for
  `pDeqRecv` does not restart.  With two lines (349 or 350 words in the code; here
  ranks 0 and 1, `Counts = {6}`, `LossyCounts = {}`, `LossyLines = 2`) the pill is taken for the
  first and the beginning of the repetition for the second; the wrapper discards this
  attempt, as it is told, and starts again with the beginning missing.  `pMpeGlobal` reads the done
  flag of the attempt that failed as the end of the new one, sends the ACK and returns to
  IDLE, and the receive waits for ever: `Finishes` is violated.  `datapath` has `LossyLines = 1`.
* **who is first.**  Beyond the ranks 8 + 2 times that of the sender, the repetition comes
  before the receiver gives up, and is taken for the rest of the message
  (`early_repetition`).  The same order comes about with smaller ranks when only the
  receiver had a timeout before in this call: with sender 1 and receiver 0, a lost
  CLEAR_TO_SEND makes the receiver repeat it first, which adds a second to its
  timers and nothing to the sender's.
* **order of the ranks in a tree.**  The root of a tree keeps chunk 0 of a scatter or
  gather for itself, and the chunks from 1 on belong to the FPGAs in the order of the
  list in `cluster.json`, one group after the other.  This is the order of MPI only if the
  root is rank 0 and the FPGAs are the ranks from 1 on, listed in ascending order.
  Nothing in the transpiler asks for it.  With the FPGAs listed in descending order, or with
  the CPU as the last rank and root, TLC finds `RightResult` of scatter and gather
  violated; the cases of `collectives` have the one order that works, and
  `bcast` and `reduce`, which do not depend on it, in the other orders too.
* **count 0.**  `word_count - 1` wraps on both sides; the sender sends one line,
  and the receiver stores a word or two.  `NothingBeyond` excludes it.
* **reordering.**  With reordering by one packet a receive may find another header of its
  sender in the cache and go on in the sender's state WAIT4ACK
  (`mpe.cpp:1370`).  `OnlySendersAwaitAck` is therefore checked on a network
  that keeps order.
* **FPGA as root of a tree.**  Such a root is also a replicator or member of a
  group and would have to send to itself.  The transpiler does not refuse it; the
  cases and the proofs (`RootsOnCpu`) do.
* **tree reduce in DRAM.**  `ast_processing.py:216` takes `.type.dim` of a list
  when the interim buffer is large enough for DRAM: the transpiler stops with an
  exception.
* **port text.**  `service_name` in `MPI_Init` (`ZRLMPI.cpp:947`) points into a
  string that is gone when it is used.  `Startup` assumes the text to be intact.
* **shared hosts.**  An FPGA sends to the default port only (`mpe.cpp:619`), so
  a CPU that is not the first on its host can talk to CPUs only: `FpgasReach`.
* **program arguments.**  `main` (`ZRLMPI.cpp:1097-1100`) fills all arguments of the
  user program with the first one, although the usage text (line 56) takes any
  number.  `GivenArguments` claims the values for at most one argument.

## Proofs

All proofs are about every value of the constants: any set of ranks, program,
`MaxInc`, `Window`, number of losses, length of a message, size of a group, and
so on.  They rest on the ASSUMEs of the modules only, which TLC evaluates in
every run.

**Cluster** (`Cluster_proofs`), for every timing and every loss:

* `TypeCorrect`: `Spec => []TypeOK`;
* `NoCachedAck`: `Spec => []AckNeverCached`;
* `Alternation`: `Spec => []TxAlternates`;
* `CacheNumIsSafe`: `Spec => []CacheNumCovers`;
* `CallsLeaveNothing`: `Spec /\ [][~GivesUp]_vars => []NothingLeftOver`.

The inductive invariant is `IInv == FpgaInv /\ CpuInv`.

* `FpgaInv` adds `WrapperBusy` to the three FPGA properties: a wrapper outside
  READY belongs to a rank that has a current call.  The step that returns from a
  call needs it to know that `got` stays well typed.  `TxAlternates` needs
  itself only: it relates every state of `pMpeGlobal` to the content of
  `sFifoDataTX` and `sDeqSendDone`, and each action moves between two of its
  cases.  `AckNeverCached` holds because `SendDataStart` deletes the line and
  neither `SEND_DATA_RD` nor `SEND_DATA_WRD` reads the network.
* `CpuInv` adds `Counted` (the number of filled cache lines is at most
  `cacheNum`) and `CpuBusy`.  `CacheNumCovers` is not inductive: deleting an
  entry decrements the counter, and only `Counted` says that the counter then
  still covers what is left.  The cardinality steps use `FiniteSetTheorems` and
  the fact that a rank set may be infinite while the filled lines are finite.

* `CallsLeaveNothing` has one condition, on behaviours: no engine gives up a
  message in the middle, which is one branch of one timeout (`GivesUp`).  In the
  code that branch makes `pMpeGlobal` forget the message while `pDeqRecv` goes on
  counting its lines, so the condition is needed in the code: where the last packet has one
  line, the poison pill completes the attempt and a done flag is left (`CleanAfterwards`
  of `datapath`).  In `Mpe`, whose units have more than one line, such an attempt never
  completes by itself, and `hostile` with this invariant instead of its own finds no
  violation.  Every other loss and timeout is allowed.
  `NothingLeftOver` speaks of the moment between two calls;
  the invariant `HandOver` says for every moment of a call what is still under
  way inside the FPGA: who has the call, whether the data of a send is offered,
  told to be repeated or taken, and how many units of a message `pDeqRecv` has
  still to pass on, counted against `rcvd` and `exp` of `pMpeGlobal`.
  `Stuck` is the way from `START_RECV` into `WAIT4ACK`, from where the wrapper
  gets its feedback but never its data: it never becomes READY again.  The
  registers of an FPGA are enough for all of it, what the packets are is not.

`Mpe_proofs` (with the facts about sequences, channels and returns) is about the
FPGA ranks; `Cluster_proofs` is about the CPU ranks and combines both.  Each has one
lemma per action and one for the steps of the other components.

**Rendezvous** (`Handshake_proofs`, `Rendezvous_proofs`), for every set of FPGAs and
CPUs and every program, under four conditions (below):

* `CallsReturnTheirData`: `Spec /\ [][~Disturbed]_vars => []RightData`;
* `ClusterImplementsRendezvous`: `Spec /\ [][~Disturbed]_vars => IsRendezvous`;
* `ReceivesNeverAwaitAck`: `Spec /\ [][~Disturbed]_vars => []OnlySendersAwaitAck`.

The conditions:

* `WellPaired`: every send has a receive of the same length and type, what MPI asks
  of a program (defined in `Application`).  `MCCluster` assumes it and the next
  one of every program, so TLC evaluates both in each of its runs;
* `NamesAgree`: FLOAT calls only between ranks of the same kind.  A CPU names INT in
  every header, so a mixed FLOAT message is never accepted (*mixed FLOAT* above);
* `Window = 1`: the packets of one channel stay in order.  With reordering the
  receive of *reordering* above goes on in WAIT4ACK.  Packets of different
  channels still overtake each other freely;
* `[][~Disturbed]_vars`: no timer expires and no packet is lost.  Without this the
  properties do not hold: `cpu_stale_request` shows a wrong result after one timeout too
  early, `early_repetition` (word by word) after one lost packet.

The proof has three layers.

1. The hand-shake, without engines or libraries.  `Stage` says how far the call of a
   rank is (`out`, `asked`, `sending`, `clear`, `receiving`), `Moved` which units it
   has sent or received, `Result` what its calls have completed, `Kept` which header it
   has put aside, `Way` which packets are under way, those in `sFifoDataTX`
   included.  `HsStep` has ten steps: `Ask`, `Keep`, `HearRequest`, `FindRequest`,
   `Clear`, `HearClear`, `SendPart`, `HearPart`, `Acknowledge`, `HearAck`.  `HsInv` says
   for every ordered pair of ranks (`Link`) exactly what is under way:
   `OnItsWay` gives the channel from the stages of both ends; `InTurn` says which
   stages can meet; `InStep` counts the calls both have completed with each other.
   The count is what finds the partner: two calls with the same ordinal are
   paired.  A step of two ranks changes two links, `OtherLinks` keeps the others.
   The two directions between two ranks share a channel: `OnItsWay` puts the answer of
   the one message before what the other one sends.  `Partners` says that a
   receive that has begun is in the call paired with that of its sender.
2. The ranks.  Every step of an engine, FIFO, wrapper or library is one of the ten steps
   or none of them: a lemma `...Hs` per action.  What a kind of rank knows of its own call is in `CpuCalm`
   and `FpgaCalm` (counters, the header it waits for, the order of units in its
   FIFOs), and the hand-over inside the FPGA is the `HandOver` of
   `CallsLeaveNothing`.  `Calm` is the conjunction, and inductive (`NextCalm`).
   `RightData` follows, since `Result` is `got` or one call longer.
3. The refinement, with the mapping of `Cluster`: what is taken is what
   `Result` has more than `got` on an FPGA, and a complete buffer on a CPU (`Holds`).
   `Acknowledge` on an FPGA is `Take`, so is the last `HearPart` on a CPU; the return
   of a wrapper or of the library is `ReturnFromRecv` or `ReturnFromSend`, and every
   other step a stutter (`NextRefines`).  A send returns only when its data is
   taken: `AlreadyReceived`, from the counts of `InStep`.  That there is data at all to
   take needs that the calls up to the matching one are all paired
   (`EveryCallIsPaired`, by well-foundedness of < on the naturals).

**Header** (`Cluster_proofs`): `EveryHeaderIsRead`: for any ranks and size of 32 bits and
any byte of call and type, the header is recognised and read back as it was.
From it `HeadersUnderWayAreRead`, `Spec => []HeadersAreRead` under `HeadersFit` (the
ranks and the lengths in words have 32 bits, which `MCCluster` assumes of its
programs too).  The invariant `SizesFit` follows a length from the call through
`siMPIif`, the registers of the engine and `sFifoDataTX` to the network; it needs
no assumption on timing or loss.

**Data path** (`DataPath_proofs`), for every length, window, packet limit and depth
of the FIFOs, and any losses and timeouts:

* `PacketsAreBounded`: `Spec => []PacketBound`.  `pDeqSend` keeps no length of the
  packet it writes, it keeps a counter that some branches reset and others do
  not.  The invariant `PacketInv` ties the counter to the length state by state
  (`Counted`): equal in `DEQ_WRITE`, zero in `DEQ_START`, and in `DEQ_WRITE_2`
  equal or one behind, depending on `go_to_done`.  That one is the line too many
  of `oversize`; the theorem says it is never two.
* `MemoryIsKept`: `Spec => []NothingBeyond`.  After a loss the rest of one attempt may
  be read as a part of the next, so nothing can be said of what arrives; what is
  kept is how much.  `pDeqRecv` marks a line as the last one by a counter of its own, and
  the wrapper stores words where its index points.  `BeyondInv` numbers the
  lines between the two (`Numbered`): the counts agree, whatever the lines hold.

**Data path without loss** (`DataFlow_proofs`), for the same values of the constants:

* `MessageArrives`: `Spec => [](net.losses = 0 => RightMemory)`;
* `NothingIsLeft`: `Spec => [](net.losses = 0 => CleanAfterwards)`;
* `RegistersInRange`: `Spec => [](net.losses = 0 => TypeOK)`;
* `NoTimeoutWithoutLoss`: `Spec => [](net.losses = 0 => ~Quiet)`: some process can
  always go on, whatever the depths, so no timer expires.

The lines of a message are numbered, the header too.  `Flow` gives each of the
eight processes the number of the line it is at, as a bound variable (`w` to `f`
from sender to receiver), and says two things only: the registers of a process
are those of its line, and the stream between two processes *carries* the lines
between their numbers.  `Carries(s, Steps, a, b)` is that there is a monotonic
sequence of numbers from a to b such that each item of the stream leads from one
to the next; `Steps` says what an item from line x to line y looks like on this
stream: a line, a beat of two lines counted from the header, a packet, a beat
counted from the start of a packet.  So the cut of a packet, which depends on
everything before it, never has to be computed: it is just a number at which
somebody has stopped.  The ends of packets are counted likewise, because
`pMpeGlobal` is told of packets by meta words beside the beats, and a beat must
not be there without its word.  A step changes one number and at most two streams:
there is a lemma `...Step` for each, about the two neighbours only, and a lemma
`Same...` for each link that is left alone.  `SafeFlow` is inductive: `Flow` while
no packet is lost, and the invariants of `DataPath_proofs` always.  Without loss a
timer cannot expire (`NotQuiet`, along the chain of processes: each waits for the
one before or behind it, and the numbers leave no circle), so that the restarts
have no part in it.  With a loss they have, and there `RightMemory`, `CleanAfterwards`
and `TypeOK` rest on which of the packets it was; this is left to TLC.

`Quiet` is spelled out in `DataPath` as a disjunct per process, because ENABLED is out of
the prover's reach; `Finishes` of the run would fail if it came too rarely.
`DataPathAssumption` bounds the lengths by half the range of an unsigned, since
`count` is an int; the window and the length then add up without overflow.

**Collectives** (`CollectiveRun_proofs`): `BuffersSuffice`, `LengthsAgree` and
`TypeCorrect`, for every cluster under `RootsOnCpu`.  They are about the emitted
statements, so the invariant of the run is only that `pc` counts them.
`GroupFacts` is the arithmetic of the groups (their number is a quotient rounded
up, the last one is shorter), `BranchFacts`, `GroupsAreDisjoint` and
`BranchOfReplicator` say that the chain of tests leads every FPGA to its own
group, `FoldingIsFaithful` that folding the tests into one kernel changes
nothing then, and `CodeFits` that every statement of every rank stays in its
buffer and has the length its peer computes.

`LoopsAreRight`, `Spec => []RightResult` under
`LoopsOnly`: no tree, and rank 0 as the root of a reduction (`later_root` shows
why) and of a call with one array for both buffers (whose first chunk is taken
as the root's own).  `NextIsRound` shows that every step of the cluster is one
round of the root's loop: its operation, the peer of its statement and the one
statement of the other rank leave no choice.  So `InOrder` (a rank has returned
exactly when the root has passed its round) and one invariant per kind suffice,
which says what has arrived and that what is still to be sent is untouched; for
a reduction, that the buffer holds the sum of the ranks passed.

**Startup** (`Startup_proofs`): `RanksReachEachOther`, `PortsAreFree` and
`DefaultPortReaches`.  The invariant `RankInv` says that after n rounds
`rank_ip_addrs` holds the addresses of the first n ranks, whichever rank it
belongs to.  So a port depends only on the ranks before it, and of two ranks on
one host the later one has a higher one (`LaterIsHigher`).  `ArgumentsArrive` is
`Spec => []GivenArguments`.

These are about `Startup`, and the run checks `Launch`: `LaunchImplementsStartup` is
`LaunchSpec => Spec`, a step of an FPGA being a stutter of the CPU ranks.
`ApplicationsKnowTheirPlace` and `DisplayIsCurrent` are about `LaunchSpec`: what a
wrapper has latched is complete, because the size is written after the rank.

Only model-checked:

* `RightData`, `OnlySendersAwaitAck` and the refinement `IsRendezvous` when a timer
  expires or a packet is lost.  Which timeouts and losses the protocol survives
  depends on what is under way at that moment; `crossing` and `ring_loss` cover
  one kind each;
* `RightMemory`, `CleanAfterwards` and `TypeOK` of `DataPath` after a loss;
* `RightResult` of the trees;
* every `Finishes`: liveness is out of reach of the prover.

## Not modelled

* `Cluster` sends headers as records; that their bytes stand for them is
  `HeadersAreRead`.  A payload that happens to begin and end like a header is left
  out: in `Packets` only a packet with a header is recognised as one.
* The rest of the transpiler: a sequential pass over syntax trees of pycparser,
  whose state is the tree of the user program.  The rewriting of loops over
  DRAM buffers is off by default and depends on the bodies of the loops.
* The launcher apart from the argument list: HTTP requests to a cluster manager.
* `rank_socks` is not connected to the channels of `Cluster`, and the text of a
  port (above) is taken to be intact.
* The role templates are wiring; `triangle_app` does not use the engine;
  `unifdef` is third-party code.

## What is left

* A patience between "message" and "none": CPU timeouts inside a message, where
  `recv_internal` throws away packets whose rest is still on its way.
* `RightData` and the refinement with some timeouts: those of a rank whose partner
  is still busy with somebody else repeat a request, which the present
  `OnItsWay` rules out.  `RightResult` for the trees, whose groups proceed
  independently of each other.
* The rewriting of DRAM loops, as a relation between iterations before and after.
