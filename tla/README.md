# Verification of the two-board monitor

The program runs on two boards. A TIVA microcontroller (FreeRTOS, FreeRTOS+TCP)
reads a temperature sensor and sends what it reads over TCP to a BeagleBone
(Linux), which logs it to a file and speaks it. Both boards share one message
type (`msg_t`) and one routing scheme: a task sends with `msg_send`, which always
goes to the queue of its board's main task; main hands the message to a task of
the board (`msg_route`) or sends it to the other board.

## Inventory

| Part | State | Operations | Talks to |
|---|---|---|---|
| BeagleBone main (`bbg.c`) | message in hand, heartbeat timers, the socket's descriptor | start-up messages, loop: receive, write to the socket, route, heartbeat | every task through queues, the TIVA through the socket |
| message system (`msg.c`) | a queue per task: POSIX queues on the BeagleBone, FreeRTOS queues on the TIVA | `msg_init`, `msg_send`, `msg_route` | all tasks |
| socket thread (`bbg.c`) | the connection, one message buffer | bind, accept once, read and send to main for ever | TIVA, main's queue |
| log task (`log.c`) | the open file | init, log, set path, kill | its queue, main's queue, the file |
| speak task (`speak.c`) | none | init, speak, kill | its queue, main's queue, the speech program |
| TIVA main (`tiva.c`) | socket, two heartbeat timers | wait for the network, connect, loop: receive or time out, send, route, heartbeat | its queue, the stack |
| temperature task (`temp.c`) | read timer, period, the sensor's registers | read (timer callback), init, shutdown, wake-up, period, kill; heartbeat after each message or time-out | its queue, main's queue, I2C |
| Ethernet driver (`eth.c`) | receive ring of three descriptors, one transmit descriptor, indices | interrupt, frame size, receive, transmit, init | DMA engine, port |
| FreeRTOS+TCP port (`NetworkInterface.c`) | task notification, network buffers | take a frame after a notification, output | driver, IP task |
| TCP send path (`3p/FreeRTOS-Plus`) | transmit stream, window of segments, the IP task's timer and wake-up | `FreeRTOS_send`, sending, acknowledging, retransmitting, keep-alive, giving up | main_task, the peer through the port |
| gas task (`gas.c`), old demo (`main.c`), template | none | stubs, or not built | none |

### What is hard

* Four threads, three bounded queues, blocking sends in a cycle: main waits for
  the tasks and they wait for main. Before its loop main even waits for itself.
* The queues outlive the process; nothing unlinks or empties them.
* Results of `read`, `write`, `bind`, `mq_send`, `fopen` (set path) and
  `xQueueSend` are ignored: the end of the connection, a full queue, a missing
  file all show only later and elsewhere.
* On the TIVA a queue send gives up after 500 ticks, so the same congestion that
  blocks the BeagleBone loses messages there.
* The Ethernet interrupt, the DMA engine and a task share descriptors.
* `read` and `FreeRTOS_send` may move part of a message, and neither end counts bytes:
  once the two are out of step a part of one message is taken for the head of another.
* `FreeRTOS_send` sleeps on a bit that the IP task sets, and fills a stream that the IP
  task empties into a window of its own: two tasks, four indices, no lock.
* The sensor is read by the timer task in the middle of what temp_task does on the same
  bus, with busy loops on both sides.

`PROJECT.json` lists each hazard at its line with the properties that cover it.

### What makes each part correct

* **Message system and main**: a message reaches the task it is addressed to, once,
  after every message sent before it; no thread drops one while the process lives;
  nobody blocks for good unless the peer sends faster than the queues can hold.
* **log task**: every line handed to it is in the file, or was given up before the
  file was open; opening the file erases nothing.
* **speak task**: obeys its commands, in the order they were sent.
* **TIVA tasks**: each goes on; readings are lost and heartbeats missed only after the
  connection has held up main; nobody waits for the timer task, which waits for main.
* **temperature task at the sensor**: what is sent is what the sensor measured, also if the
  timer task takes the bus in between; the busy loops end; the configuration stays.
* **TCP send path**: the peer reads what `FreeRTOS_send` accepted, in order and in the end
  all of it; nothing is released before it is acknowledged; no wake-up is lost.
* **The connection**: while nothing was cut or read in parts, messages arrive whole, once
  and in order; after that the two ends fall into step again when they have caught up.
* **Ethernet driver and port**: driver and DMA engine agree who owns each descriptor;
  frames are handed over in order and at most once; no network buffer leaks; no
  interrupt is lost; what is sent is what was given to `eth_tx`.

## Modules

| Module | What it is |
|---|---|
| `MsgBus` | abstract: what the message system promises to the tasks |
| `Bbg` | the BeagleBone process: main, socket thread, log and speak tasks, three queues, the network's end, death and restart |
| `BbgProps` | its properties and the refinement mapping to `MsgBus` |
| `BbgProofs` | theorems about it |
| `FrameQueue` | abstract: what the receive side of the Ethernet driver promises to the IP task |
| `Eth` | `eth.c` and `NetworkInterface.c` between the DMA engine and the IP task |
| `EthProps`, `EthProofs` | its properties, mapping to `FrameQueue`, theorems |
| `Tiva` | main_task, temp_task and the FreeRTOS timer task, in discrete time |
| `TivaProps`, `TivaProofs` | its properties and theorems |
| `TempConv` | the conversion of a register word to a temperature and to text |
| `I2c` | the I2C module and the sensor behind it (external), and the routines that drive them |
| `Temp`, `TempProps`, `TempProofs` | temp_task and the timer callback at the sensor; properties, theorems |
| `ByteStream` | abstract: a stream of bytes between two programs |
| `StreamBuffer`, `StreamBufferProofs` | the circular buffer of FreeRTOS+TCP; lemmas about it |
| `Tcp`, `TcpProps`, `TcpProofs` | `FreeRTOS_send`, the IP task and the network; properties, mapping to `ByteStream`, theorems |
| `Link`, `LinkProps`, `LinkProofs` | the messages of the two boards as bytes on a connection; properties, mapping to `ByteStream`, theorems |
| `SequenceLemmas` | facts about prefixes and parts of sequences that the proofs share |
| `MCBbg`, `MCEth`, `MCTiva`, `MCTemp`, `MCTcp`, `MCLink` | the instances for TLC |

`ByteStream` joins three levels: `Tcp` shows that the TIVA's stack keeps its promise
between `FreeRTOS_send` and the peer's kernel, `Link` that the messages of the two
programs keep it between `FreeRTOS_send` and `read`, and `Bbg` takes over with whole
messages where `Link` says that they are whole.

A definition named like `X_Something` just before a definition `X` is a faulty version
of `X`: the properties are tried against it to see that they notice. Nothing else uses
these definitions.

### Bbg

`pc` says where each of the four threads is; an action is what a thread does from one
blocking call to the next. `queues` are the POSIX queues: `MqSend` is enabled when
there is room, `MqReceive` when there is a message, so a blocked thread is a thread
whose action is disabled. `main_rx`, `log_rx` and `socket_msg` are the buffers the code
has. `MainStart` sends the three start-up messages, `MainRecv`, `msg_route` and
`MainWrite` are the loop of main, `SockAccept`, `SockRead`, `SockSend` the socket
thread, `LogRecv`, `LogHandle`, `LogSend` and `SpeakRecv`, `SpeakSend`, `SpeakPlayed`
the tasks. `SigPipe` is the death of the process in `write` after the connection was
reset, `Kill` death by a signal, `Restart` the next process: it finds the queues as
they were, because nothing unlinks them.

A message carries a number `id`, its place in the order in which the peer sent them (0
for messages made on this board). Numbers, `taken`, `disk` and `unlogged` are history:
no guard of a thread reads them.

Abstractions: `read` and `write` move whole messages; the peer sends well-formed
messages for one of the three tasks; there is one connection per process; playing a
sentence is a step in which the task is busy; a line of the log is its number. After
the end of the connection `socket_msg` is sent again and again, as the code does; a
message read before any other was is one of `'0'` characters. A power failure, which
would empty the kernel's queues, is not modelled.

### Eth

`rx_own`, `rx_bad`, `rx_buf`, `tx_own` are the words of the descriptors, `mem` the
contents of the buffers (a frame is its number, negative for one to be sent). The DMA
engine (`DmaReceive`, `DmaTransmit`), the interrupt (`eth_isr`), the EMAC task
(`EmacTake`, `eth_rx_size`, `EmacGetBuffer`, `eth_rx`, `EmacSend`) and the IP task
(`IpTake`, `IpRelease`, `IpGrow`, `IpGrown`, `IpReply`, `IpAgain`, `IpOutput`, `IpPseudo`, then
`EthTxCopy`, `EthTxFill`) interleave freely, except that the IP task, whose priority is lower,
runs only when the EMAC task waits. The engine is external; of the IP task, the model keeps who
has which network buffer. `held` counts those in its hands and `xReleaseAfterSend` is the argument
of `xNetworkInterfaceOutput`: with `pdTRUE` (ARP and ICMP) the driver releases the buffer after
sending, with `pdFALSE` (all of TCP, for `ipconfigZERO_COPY_TX_DRIVER` is 0) its sender does, later
(`ReleaseAfterSend`). An answer goes in the buffer of the frame at hand (`IpReply`) or in a larger one
that replaces it (`prvTCPBufferResize`: `IpGrow`, `IpGrown`), a frame nobody asked for in a buffer of
its own (`IpOutput`), or in the socket, under a descriptor on the stack that nobody may
release (`IpPseudo`). A buffer that was kept may be sent again (`IpAgain`, the loop of
`prvTCPSendRepeated`); after an answer to a frame the code does so only with `ipconfigUSE_TCP_WIN`,
which is 0, the model always.
Left out: the registers `eth_init` writes, and its writes past the transmit
descriptors, whose effect depends on what the linker put there.

### Tiva

Time is counted in units of `TEMP_HEARTBEAT_MS`. A task runs only if none of a higher
priority is ready (timer task 4, main_task 2, temp_task 1), and `Tick` only if none is:
computing takes no time next to 100 ms. `wait` counts down the timeout of a blocked
call; `QueueSend` gives up when it is 0, as `xQueueSend` does, and the result is
ignored, as in `msg.c`. The timer task is modelled from the FreeRTOS version in `3p`
down to its own hazards: one expired timer, then all commands; a command counts from
when it was given; a timer that is late by a whole period is restarted through the task's own
queue without waiting, with an assertion that there is room. `temp_read` runs in that task and
sends twice. `blocked` says that `FreeRTOS_send` finds the stream full. Three variables
are history: `since` counts from the last message main_task took; `free` how long it now waits
for work (up to one more than a heartbeat); `stall` from when it last did so for longer than a
heartbeat. `since` and `stall` are capped at `StallCap`.

`ApiMsgs` are the commands of `temp.h`. No code of the repository sends one to the
TIVA; the BeagleBone or a future task may. The sensor itself is the subject of `Temp`.

### Temp

`temp_task` obeys one command after the other (`TempCommand`, then its routine step by step);
`temp_read` runs in the timer task: it starts between any two steps of the other
(`TimerExpires`), and the other does not run until it has returned. A routine is a
sequence of steps, each a call of the driver library or the wait in a busy loop (`I2cStep`). The
library's calls change the I2C master of `I2c`, which carries a byte over the wire at its own
time (`Transfer`); the sensor keeps its pointer register between transfers and measures
whenever it likes (`Convert`). Master and sensor are external. Both tasks use the one master
and no lock protects it; a command given to it while it is busy is lost or carried out
afterwards, for the repository does not say which.

`TempConv` has the conversion on 16 bits (two's complement by hand, in `temp.c`), the
rounding, and `itoa`. `temp_i2c_write` gets its arguments in the order in which the callers pass
them, exchanged.

What the properties leave out: `ReadingTrue` does not speak of a reading that began while
a byte of temp_task was on the wire or the master was being reset, nor `CtrlTrue` of a
command that a reading interrupted. The code prevents neither, and what is read then depends
on the master.

### Tcp

`FreeRTOS_send` looks for room (`SeesSpace`), copies what fits into the transmit stream
(`StreamBuffer`, with its indices `uxTail`, `uxMid`, `uxHead`), wakes the IP task, and sleeps on
the socket's event bits; the IP task (`prvIPTask`, `prvCheckNetworkTimers`) moves data from
the stream into the segment of the window, sends, takes acknowledgements, retransmits,
probes, and gives up. The network loses, repeats, delays and reorders packets, and the peer may be gone
(its kernel answers with a reset). The IP task has the higher priority and does not wait
while it works, so main_task moves only while it sleeps (`Sleeping`), but between any two of
main_task's steps.

Abstractions: the time-outs are two values, due or later, and a packet may be older
than the time-out; sequence numbers stay clear of their wrap (the comparisons of
`FreeRTOS_TCP_WIN.c` are not modular; a hazard in `PROJECT.json`); `uxFront`, which only the receive
side uses, is left out, as are the receive path, orderly closing, `select` and callbacks. The
window has one segment because the configuration sets `ipconfigUSE_TCP_WIN` to 0.
What the model shows on the way and no property forbids: after `eCLOSE_WAIT` or `eCLOSED` the
TIVA never connects again; in `eCLOSE_WAIT` every further send waits its five seconds.

### Link

`FreeRTOS_send` as its caller sees it: it takes what fits (`Accepts`), and after five seconds
without room returns, maybe with part of the message sent (`GivesUp`). The connection
carries bytes; `SockRead` is the `read` of the socket thread, which returns what has
arrived, at most a message; main takes what `SockRead` put into `socket_msg`. The TIVA may be reset and connect again: the new
connection waits in the backlog for ever, because the thread accepts once. `astray`
is history: whether a cut or a short read has happened since the socket thread last had
caught up.

Left out, because `Bbg` has it with whole messages: what main does with a message, torn or whole,
and what follows the end of the connection.

## Properties

*Each property's comment in the module says what it means; this is what it is for.*

| Property | What would break it |
|---|---|
| `Bbg` `InOrder`, `NeverOvertaken` | a thread that takes a message out of one queue and is overtaken before it puts it into the next; a restart in the middle |
| `NothingLost` | a return path of main, `msg_route` or a task that forgets a message |
| `ImplementsBus` | any of these, and a message handed to the wrong task |
| `StartupHasRoom`, `NoEarlyCircularWait` | how many messages it takes to block main on its own queue, and main and a task on each other; the numbers are exact |
| `LogComplete` | the truncating `fopen`, a line before `LOG_INIT`, a set-path in between |
| `MainStarts`, `Delivered` | a wait nobody ends |
| `Eth` `RingAgrees` | ownership bit, index and engine out of step |
| `BuffersBalance` | an error path that keeps or releases a buffer twice; a driver that releases what its caller keeps, or what is none of the pool's |
| `DeafOnlyOver`, `Recovers` | an interrupt between the check and the wait |
| `OthersIntact`, `SentInTurn` | the transmit path writing receive descriptors: what it can and cannot spoil |
| `ImplementsQueue` | a frame taken twice, skipped, or out of turn |
| `Sent` | the busy loop of `eth_tx` |
| `Tiva` `NeverWaitsForTimer`, `TasksGoOn` | the circle of main_task and timer task |
| `ReloadsFit` | the timer task held up so long that its own queue or its next reading suffers |
| `GivenUpOnlyWhenStuck` | somebody taking the room that main_task makes before temp_read gets it |
| `NoFalseAlarm` | a heartbeat that is in time for main_task but not for the timer task, or is given up though main_task has time for it |
| `Temp` `ReadingTrue`, `CtrlTrue` | bytes in the wrong order, a pointer left on another register, a flag read too early |
| `BusFree`, `RoutinesEnd` | a stop condition left out, a busy loop nobody ends, in the reset, the reading or the writing half of a command |
| `ConversionRight` | sign, rounding and the ends of the range, over all words of the register |
| `ConfigKept` | a write that reaches the sensor although its arguments are exchanged |
| `Tcp` `WindowAgrees` | the stream's indices and the window's segment out of step, at the end of the buffer or after a retransmission |
| `NothingForgotten` | data released before the peer has it |
| `NoLostWakeUp` | the bit set between the check and the sleep, or cleared after it |
| `Tcp` `ImplementsStream`, `Arrived` | a duplicate, old or reordered packet taken for a new one; a timer that is not set again |
| `Link` `InStep` | a send that is cut or a read that is short without being noticed as the reason for a torn message |
| `InTurn` | bytes skipped or repeated, also after a reset |
| `Link` `ImplementsStream`, `AllRead` | a byte lost between the ends; a thread that waits for more than comes |

## Runs

| Run | Instance | Shows |
|---|---|---|
| `BbgOrder` | queues of 4, 3 messages of the two kinds the TIVA sends | order, log, refinement, liveness while nothing goes wrong |
| `BbgBlocking` | queues of 3, 5 messages that each make their task send one | the numbers of the two deadlock bounds are reached and not passed |
| `BbgCrash` | queues of 4, 2 messages, one death and restart anywhere | the refinement across a restart (`InOrder` there is proved) |
| `BbgClose` | queues of 3, 2 messages of five kinds (line, set-path, kills, heartbeat), the peer may hang up or reset, `fopen` may fail | types, what stays true of order and loss |
| `BbgSpeakKill` | one SPEAK_KILL | finding, below |
| `EthRing` | 3 receive and 1 transmit descriptor as in the code, 3 buffers, 5 frames in and 2 out, frames may be bad | everything claimed of the driver |
| `EthSend` | as `EthRing`, 2 good frames in and 2 out | finding, below |
| `TempSensor` | the two measured values 6656 (26 degrees) and 59136 (below zero), all commands, for the conversion all words of the register whose low four bits are all 0 or all 1 | everything claimed of the sensor |
| `TempShutdown` | as `TempSensor` | finding, below |
| `TcpSend` | stream of 4 bytes with room for 3, empty and 1 from its end; 2 messages of 2 bytes, segments of 2; one packet in flight each way; queue of 1 | everything claimed of the TCP send path |
| `LinkBytes` | messages of 3 bytes, transmit and receive buffers of 4, queue of 2, 4 messages, one reset anywhere | everything claimed of the connection |
| `TivaTasks` | queues of 2, timer queue of 4, heartbeat 1, its period and the send timeout 2, reading every 5, socket timeout 5, 4 times TEMP_KILL | everything claimed of the TIVA tasks |

Why the bounds are enough. With queues of 4 the start-up's three messages fit beside a
line of the peer, so a line can be before `LOG_INIT` and behind it, and main blocks on
each queue. `BbgBlocking` needs a queue that overflows both ways: 5 = 2 * 3 - 1
messages do. `EthRing`'s five frames fill the ring and go round once more, and its
three buffers run out. In `TivaTasks` the ratios are those of the code where they
matter: the period of the heartbeat timers equals the send timeout (500 ms), a reading
is further apart than two of them, the socket's timeout is as long as a reading's period, so
that a write may block for longer than any other wait lasts. Four
commands kill temp_task, fill its queue and let one routing time out. A timer queue of
4 is the least that works (with 3, `NeverWaitsForTimer` fails), and larger
instances with message queues of 3 and 4, fewer commands, longer periods and a heartbeat of 2
or 3 units agreed; the code has 5. The commands that only touch the sensor are in `Temp`. Here
they make a heartbeat come early; that was checked beside the project's runs, for which it takes
too long (safety with four commands of both kinds, `TasksGoOn` with two). How many commands pile
up does not depend on how many messages wait: each message main_task takes makes room that goes to
`temp_read` first, and after two the timer task empties its queue.

In `TempSensor` two values are enough to tell an old reading from a new one and a high byte
from a low one, and one of them is negative. `TcpSend` starts with the indices where earlier
messages left them, so that a message lies across the end of the stream; two messages
overfill a stream that holds three bytes, so that the second send sleeps. With one packet in
flight each way an old acknowledgement, repeated, meets the next segment, and a segment
that is sent again meets a peer that already has it; with two in flight, where data
overtakes data, the safety properties and the refinement hold as well (3.3 million states,
too long for the project's own runs). `KeepAliveTries` is 1 (the code has 3):
the answer to one probe is waited for, and the second ends the connection as soon as it is sent,
since `prvTCPSendRepeated` goes round again after it and finds too many. Buffers of 4 in `LinkBytes` are not a multiple of a
message, so sends are cut and reads are short at every place of it, and four messages
leave one to come after the ends are in step again.

Runs that may stop say `CHECK_DEADLOCK FALSE`: the peer's or the network's budget ends,
or every thread waits for good, which the liveness properties then judge. `TivaTasks`
never stops, for time goes on, and is checked for deadlock.

### Fairness

*Bbg*: each thread that can go on does (weak fairness per thread; the kernel schedules
every runnable thread and grants a queue's room to whoever waits for it). Nothing is asked of
the peer, of signals or of restarts except where the property starts from a restart.
*Eth*: weak fairness for the two tasks, the interrupt and the engine's transmit side;
none for what arrives. *Tiva*: weak fairness for each task and for time. Nothing is
asked of the network: a send that finds no room may do so until its timeout.
*Temp*: weak fairness for the timer task and the wire, strong fairness for temp_task, which
the timer task holds up again and again but, its period being long, not for good. Nothing
is asked of commands, timer and weather. *Tcp*: strong fairness for main_task
(`[]<>Sleeping`: the network does not keep the IP task busy for ever), for the timer, and for
data and answers to arrive: a segment that is sent for ever does not get lost every time. This is
what a retransmission can hope for, and `Arrived` asks for nothing more: a peer that is gone
or a connection given up is excepted. *Link*: weak fairness for TCP and the threads
of the BeagleBone; nothing is asked of the TIVA.

## Findings

| Run | The source says | The run shows |
|---|---|---|
| `BbgSpeakKill` | `speak.h`: SPEAK_KILL kills the speak task | the task compares the command with another task's number and goes on |
| `EthSend` | `eth.c`: fill out packet info | the transmit buffer is put into a receive descriptor; a received frame is sent in its place |
| `TempShutdown` | `temp.h`: shutdown temp sensor | `temp_i2c_write` gets address and data exchanged: the word goes to a register that cannot be written, and the sensor goes on |

`PROJECT.json` quotes the lines.

Other weaknesses met on the way are hazards in `PROJECT.json` rather than runs of their
own, because properties of passing runs already draw their limits: a LOG_KILL leaves the log
queue without a reader and main blocks on it at last; messages that dead processes left
behind can fill main's queue before the next one reads it (`MainStarts` excepts a queue that
fills, `StartupHasRoom` counts); a full receive ring whose next frame is bad or found no
buffer is never emptied (`Recovers` excepts both).

## Proofs

For every value of the constants that the named assumptions allow (`PeerAssumption`,
`RingAssumption`, ... each checked by TLC in the runs). The third column says what a theorem
assumes beyond them.

| Theorem | Says | If | By |
|---|---|---|---|
| `BbgProofs!TypeCorrect` | `TypeOK` | | inductive; lemmas about a send and a receive |
| `OrderCorrect` | `InOrder` | the peer does not hang up | `OrderInv` |
| `BusCorrect` | `ImplementsBus` | the peer does not hang up | `BusInv`, then one simulation step per action |
| `LossCorrect` | `NothingLost` | | `LossInv` |
| `OvertakenCorrect` | `NeverOvertaken` | | `KeptInv` |
| `StartupCorrect`, `CircularWaitCorrect` | `StartupHasRoom`, `NoEarlyCircularWait` | no hang-up, no restart | `LoadInv` |
| `LogCorrect` | `LogComplete` | no hang-up, no restart, the logger is sent lines only | `LogInv` |
| `EthProofs!TypeCorrect` | `TypeOK` | | inductive |
| `RingCorrect` | `RingAgrees`, for any number of descriptors | | `RingInv` |
| `NoLostWakeup` | `DeafOnlyOver` | | `WokenInv` |
| `BalanceCorrect` | `BuffersBalance` | | `BalanceInv` |
| `QueueCorrect` | `ImplementsQueue` | | `QueueInv` |
| `IntactCorrect` | `OthersIntact` | | `IntactInv` |
| `NoneLost` | as many frames were given to `eth_tx` as have left, are pending or in hand (`Accounted`) | | inductive with `TypeOK` |
| `SentCorrect` | `SentInTurn` | one transmit descriptor | `SentInv` |
| `TivaProofs!TypeCorrect` | `TypeOK` of `TivaProofs` | | inductive |
| `NeverWaits`, `ReloadsCorrect` | `NeverWaitsForTimer`, `ReloadsFit` | a timer queue of at least 4, a reading's period of at least two sends | `TimerInv` |
| `WaitsCorrect` | `WaitsEnd` of `TivaProofs`, the safety core of `TasksGoOn`: no task waits longer than its timeout | as for the two above | `TimerInv`, `Brief` |
| `GivenUpCorrect` | `GivenUpOnlyWhenStuck` | `StallCap` counts a send's time | `PatientInv` |
| `AlarmCorrect` | `NoFalseAlarm` | `StallCap` counts a heartbeat timer's period less a heartbeat | `AlarmInv` |
| `TempProofs!BusFreeCorrect`, `ConfigCorrect` | `BusFree`, `ConfigKept` | | `BusInv` |
| `ReadingCorrect` | `ReadingTrue` | | `BusInv`, `ReadingInv` |
| `CtrlCorrect` | `CtrlTrue` | | `BusInv`, `CtrlInv` |
| `ConversionCorrect` | `ConversionRight`, for all words (TLC: of the four bits that are dropped all 0 and all 1) | | `RoundingCorrect` (arithmetic), `TextDenotes` (digits) |
| `TcpProofs!WindowCorrect` | `WindowAgrees` | | `WindowInv` |
| `WakeUpCorrect` | `NoLostWakeUp` | | `WindowInv`, `WakeInv` |
| `ForgottenCorrect` | `NothingForgotten` | `NoWrap` | `StreamInv` |
| `StreamCorrect` | `ImplementsStream` | `NoWrap` | `StreamInv`, one simulation step per action |
| `LinkProofs!LinkStreamCorrect` | `ImplementsStream` | | `WayInv` |
| `InStepCorrect` | `InStep` | | `BoundaryInv` |
| `InTurnCorrect` | `InTurn` | | `OrderInv`, `TurnInv` |

`SequenceLemmas` and `StreamBufferProofs` hold the lemmas under `Tcp` and `Link`: what a prefix, a
part or a longer sequence says about the elements, and what the circular buffer's functions return
for any indices in range. Each invariant was an invariant of a TLC run before it was proved.

### Why the invariants are what they are

* `Bbg` `OrderInv` adds to `InOrder` that all numbers on their way are at most `sent` (else a
  new one could be older than those), that main's buffer holds a number only between
  receive and route, and that the connection stays open. With a hang-up `InOrder` is false, since
  the last message is sent again; `NeverOvertaken` is what is left of it, and `KeptInv` proves it:
  it orders what is in the queues and behind them, but asks of the socket thread only that
  what it repeats is nowhere older than what follows.
* `BusInv` adds that numbered messages are for a task of this board (main would else
  write them back to the network, which the bus does not know) and that the socket thread
  dies with main.
* `LoadInv` counts: the messages in queues, buffers and on the wire are at most those
  made, by the peer and by main's start-up (a task's answer replaces the message it answers).
  A queue is full or a thread blocked only if there are enough of them. A hang-up makes
  messages without end and a restart starts up again, so the two bounds are said of the first process
  and a peer that stays, which is what they are about.
* `LossInv` follows every number: handed over, in a queue, in a buffer or on the wire.
* `LogInv` says what the file may lack while its task is between messages and in the middle of one.
  Other commands to the logger truncate the file or end the task, by design.
* `Eth` `RingInv` restates `RingAgrees` descriptor by descriptor (`Agrees`) and adds that the
  frames between the indices are numbered without a gap up to the last (`InTurn`): so
  the frame the driver takes is the oldest.
* `WokenInv` says who will look: with a good frame at the head of a full ring the
  interrupt is pending, a notification is counted, or the EMAC task is on its way.
* `BalanceInv` says what the IP task has at each place (`Holding`): one buffer while it works on a
  frame or keeps one, two while a larger replaces it, none when it waits for the next; and what the
  driver is told to release, the IP task does have. Else a release after a frame sent from
  the socket would put a buffer into the pool that never came out of it.
* `QueueInv` adds that the frame the EMAC task is about to hand over is the last taken.
* `IntactInv` says which buffer each receive descriptor can name (`OwnBuffers`): its own, or
  the transmit buffer of its index.
* `SentInv` follows one frame through `eth_tx`. It needs the one transmit descriptor of
  `eth.c:55`: `eth_init` sets the index to 0 and `eth_tx` advances it before use,
  while the engine begins with descriptor 0, so with two, as TLC shows, the second is sent
  only after the first has been filled too. `NoneLost` holds for any number.
* `Tiva` `TimerInv` counts the commands in the timer task's queue together with those that
  main_task may still give (`Owed`): while the timer task waits in `temp_read`, main_task goes on,
  but each message it takes lets `temp_read` go on too. At most three pile up beside the
  one temp_task gives. The code has a queue of 5 (`FreeRTOSConfig.h:118`); `OnTime`, which keeps
  `temp_read` from being late for its own period, needs two sends (2 * 500 ticks, `msg.c:56`) within
  5000 (`temp.h:79`).
* `Brief` bounds each task's wait by the timeout of the place it waits at. A unit passes only
  when no task is ready, so (`QuietWaits`) only with every send short of its timeout and, by
  `NeverWaits`, with nobody at the timer task's queue: `TasksGoOn` needs of fairness only that time
  and ready tasks go on.
* `PatientInv` relates the wait of `temp_read` to the time since main_task took a message
  (`since`), which the model counts up to `StallCap`.
* `AlarmInv` has three parts. `Regular`: while main_task waits for work, the next
  heartbeat is at most one away, or one is on its way (in main_task's queue, in its hand, in the
  timer task's queue: `OnItsWay`), or has already set the timer (`HandledInTime`); and temp_task gives
  none up, since a unit passes with main_task waiting only when its queue is empty. `Prompt`: then
  neither the timer nor a command for it is late. `Spared`: the timer, and a command for it, has
  at least `Least` minus `stall` left. The attempt to prove an earlier form of the property, which
  counted the time since main_task last waited at all, showed that form to be false: a heartbeat is
  given up while a write blocks, main_task then empties its queue and waits, and the timer expires less than a
  heartbeat later. The earlier instance had a socket timeout shorter than a reading's period and
  could not get there; the code's are equal (`tiva.c:109`, `temp.h:79`), and now the runs' are too.
* `Temp` `BusInv` has the stage of the bus for each step of a routine (`ReadStage`, `WriteStage`),
  for any interleaving: also when `temp_read` came in between, the master ends idle, the sensor's
  pointer is never on a register that is written, and no limit changes. `ReadingInv` and `CtrlInv` have
  the exact contents of master, sensor and buffer at each step for a user whom nobody
  interrupted (`ExactStage`).
* `ConversionCorrect` needs to know what `digits`, a recursive function on the ints of 32 bits, and
  the sum in `Number` return. TLA+ makes such a function a `CHOOSE`, which has its equation
  only if some function has. No induction is needed: `OneDigitMore` extends a
  function that is right up to k to one that is right up to 10k + 9, and ten extensions from 0 reach
  the largest int (`DigitsComputed`). A reading has at most three digits, whose texts
  are then written out.
* `Tcp` `WindowInv` says that the bytes between the stream's `uxTail` and `uxMid` are the segment's and
  that the segment's number is the window's (`Agrees`), and between which steps main_task
  holds bytes it has not moved yet. `WakeInv` says of each step of `FreeRTOS_send` who was told of
  room. `StreamInv` gives each byte its place by its sequence number. It needs `NoWrap`:
  the numbers of a connection's bytes stay below 2^32, since the code compares an acknowledged
  number with `<` (`FreeRTOS_TCP_WIN.c:1920`); behind a wrap it takes old acknowledgements for new
  ones. With the program's messages that is after about 4 GB.
* `Link` `WayInv`: what was read, what the kernel holds and what the transmit stream holds are, one
  after the other, the bytes accepted. `BoundaryInv` puts each reader and writer at a message's
  boundary while nothing was cut (`astray`), `OrderInv` and `TurnInv` order the first bytes of
  what main is handed.

### Only model-checked

* All liveness, outside the prover's reach, as is `ENABLED`: `MainStarts`, `Delivered`, `Sent`,
  `Recovers`, `TasksGoOn`, `RoutinesEnd`, `Arrived`, `AllRead`. Every other property of a run that
  passes is proved.

`Bbg` and `Eth` have type invariants that the runs check; those of `Tiva`, `Temp`, `Tcp` and `Link`
are part of the inductive invariants in their proof modules.

## Not modelled

* The gas task (stubs), the start-up code, the template and the old demo, which are not built.
* The vendored code as a whole, by far the largest part of the repository: ports for
  other processors, demos for other boards, and protocols (FTP, HTTP, DNS, DHCP, file systems,
  command lines) that this program neither builds nor calls. Of what it does build, the timer task
  is in `Tiva` and the send path of TCP in `Tcp`; the scheduler, `queue.c` and
  event groups are modelled by what they promise where a task calls them; connecting, receiving,
  orderly closing, ARP and DHCP are left out, and of the stack's buffers all but who has them (`Eth`).
* The registers of the controllers, except the I2C master's as the library shows them.
* The sensor's alert pin, its fault queue and its other modes, which the code never selects.
* A second connection once the first has ended: the BeagleBone never serves one, which
  `Link` shows (`backlog`).

## Plan

Done, in this order because messages are what the system is about: `MsgBus`, `Bbg`,
`Eth` with `FrameQueue`, `Tiva`, then `Temp` with `TempConv` and `I2c`, and the way between
the boards, `Tcp` and `Link` with `ByteStream`. Left, in this order:

1. `System`: `Tiva` and `Bbg` over a bounded stream. A sentence that takes long holds up the
   BeagleBone, the stream, main_task and at last the timer task.
2. `KernelQueue`: a blocked send and a blocked receive in `queue.c`, with its locks,
   as an implementation of the queue that `Tiva` takes for granted.
