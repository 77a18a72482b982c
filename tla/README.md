# Verification of the ProtoDUNE board readers

`dune-artdaq` is the data acquisition of ProtoDUNE: a set of *board readers*, each a plugin of the
artdaq framework that reads one kind of hardware and hands fragments to the event builder. This
directory models the readers as TLA+ modules, checks them with TLC on small instances, and proves the
statements that matter most with TLAPS for every value of the parameters.

All paths of sources below are relative to `src/dune-artdaq/Generators/`.

## 1. Inventory

### How a reader is put together

A reader is a subclass of `artdaq::CommandableFragmentGenerator`. artdaq calls `start()`, then
`getNext_()` again and again from one thread, and `stop()` once `should_stop()` is true; `getNext_()`
appends finished fragments to a list. Next to this *artdaq thread* every reader has threads of its
own, which read a socket or a card, and passes records between them through queues with one producer
and one consumer. The framework itself is not in the repository; what is modelled of it (the stop
command, the loop of calls) follows from how the readers use it.

| Component | State | Operations | Talks to | Modelled in |
|---|---|---|---|---|
| CTB reader (`TriggerBoardReader_generator.cc`, `TriggerBoard/`) | word queue and its count of TS words, fragment queue, metric counters, last timestamp, error and stop flags | start, stop, getNext_; receiver thread; fragment thread; run control connection | the trigger board over two TCP connections | `CTB` |
| FELIX reader, publishing mode (`FelixReceiver_generator.cc`, `Felix/NetioHandler.*`, `Felix/FelixHardwareInterface.*`) | one message queue per link, trigger, fragment pointer, state of the matcher thread | start, stop, getNext_ (FillFragment); subscriber thread; matcher | netio publisher; request receiver | `Felix` |
| Request receiver (`Felix/RequestReceiver.*`) | queue of requests | start, stop, getNextRequest; thread | timing reader (publisher) | `RequestReceiver` |
| Reusable threads (`Felix/ReusableThread.hh`) | three flags, condition variable | set_work, get_readiness, destructor, thread_worker | both FELIX modes | `ReusableThread`, `WorkerRounds` |
| FELIX reader, on-host mode (`Felix/FelixOnHostInterface.*`, `Felix/QueueHandler.*`) | a queue and a fragment per link, the trigger of the round | start, stop, getNext_ (FillFragments, TriggerWorkers over all links); a matcher per link | reusable threads; request receiver; card readers | `OnHost`, `WorkerRounds` |
| FELIX card reader (`Felix/FelixProtoduneReader.hpp`) | a ring of memory the card writes, a queue of addresses per link | run() of the reader; dispatchers with their parsers | the card's library; the queues of the on-host mode | `CardReader` |
| SSP reader (`SSP_generator.cc`, `anlBoard/DeviceInterface.*`) | packet buffer, trigger queue, both under a mutex | Start, Stop, ReadEvents with BuildFragment; HardwareReadLoop | the photon detector board; request receiver | `SSP` |
| Timing reader (`TimingReceiver_generator.cc`, `timingBoard/`) | stop phase, throttling, wanted inhibit, last timestamps, fragment number; the inhibit socket and its time limit | start, stop, getNext_, checkHWStatus_; publisher of the hardware time | timing board; InhibitMaster (status out, inhibits in); publishes requests to the other readers | `Timing`, `InhibitGet` |
| Penn board reader (`PennReceiver_generator.cc`, `pennBoard/PennDataReceiver.*`) | millislice in progress and what is kept for the next, two queues of lent buffers, suspend and suspended flags, exception flag | start, stop, getNext_; io thread (accept, read header and payload, suspend); the commands StartRun and StopRun | the Penn board, which connects to the reader; its command connection | `Penn` |
| Penn control connection (`pennBoard/PennClient.*`) | addresses tried, answer in pieces, exception flag | the constructor's connect, HardReset and configuration; StartRun, StopRun | the Penn board | `PennClient` |
| TPC RCE reader (`TpcRceReceiver_generator.cc`, `rce/`) | ring of frames, statistics of the sink; the command connection and its deadline | start, stop, getNext_; `acceptFrame()` on the connection's thread; the constructor's configuration, the status, SetRunState | RCE over RSSI; its command connection | `RssiReceiver`, `RceControl` |
| Software trigger (`SWTrigger_generator.cc`) | queue of decisions, hold-off, throttling state, stop flag of three threads | start, stop, getNext_; handler of decisions, metrics thread, reader of the hardware time | ptmp sockets; InhibitMaster; publishes requests | `SWTrigger` over `InhibitGet` |
| Trigger primitive finder (`Felix/TriggerPrimitive/`) | queue of messages, the newest hits, latest time processed, stop flag, sender; pedestal, quartiles and filter of each wire; set of primitives and its counter | addMessage, getHitsForWindow, stop, destructor; processing thread (`process_window_avx2`, `addHitsToQueue`), metrics thread | subscriber and matcher of the FELIX reader; a ptmp socket | `TPFinder`, `HitFinder`, `HitSets`, `FrameExpand` |
| Cosmic ray tagger reader (`CRTFragGen_generator.cc`, `CRTInterface/`) | state flags, open file and watch, raw buffer; rollover count and last times | start, stop, getNext_ with FillBuffer, raw2cook, buildFragment | a program of its own that writes files; inotify; the timing endpoint | `CRT`, `CRTClock` |
| SSP devices (`anlBoard/DeviceInterface.cxx`, `DeviceManager.cxx`, `EthernetDevice.cxx`, `USBDevice.cxx`, `RegMap.*`) | one answer at a time of a channel that splits it anywhere; the registers read so far; the map of registers, what was written, the control words kept for last | OpenDevice, Initialize, SetRegister, SendReceive with its purge and tries; ConfigureDevice with SetRegister…ByName | the board, by Ethernet, USB or emulated | `SSPDevice`, `SSPRegisters` |
| WIB reader (`WIBReader_generator.cc`) | a pointer to the board | the constructor: so many tries to configure board and FEMBs | the board's library; the slow control, by a flag | `WIBReader` |
| Isolated muon finder, hit finding reader (`IsoMuonFinder_generator.cc`, `HitFinderCPUReceiver_generator.cc`) | window of channels, queue of times, last time sent; sets received, time-outs in a row, event counter | start, stop, getNext_; the finder's thread | ptmp sockets | `MuonFinder`, `HitCollector` |
| FELIX reordering and expansion of frames (`Felix/FelixReorder.*`, `Felix/ReorderFacility.hh`, `Felix/TriggerPrimitive/frame_expand.*`, `PdspChannelMapService.cpp`) | a count of faulty frames that all links share; registers; two tables | reorder_frame, expand_message_adcs, the lookups of the map | matchers; the hit search | `FelixReorder`, `FrameExpand` |
| Trigger filters, SSP thinning (`../Triggers/*_module.cc`, `../ArtModules/SparsifySSP_module.cc`) | event counters, last decision; triggers by time | filter, produce, once an event | art, one module after the other | `TriggerFilters`, `SparsifySSP` |
| Older RCE receiver (`RceSupportLib/RceDataReceiver.*`) | two flags, buffers lent, microslice in progress | start, stop; io thread | an RCE over TCP; built as a library, used by nobody here | `RceReceiver` |
| Simulators, monitoring, logging, metadata | | | | not modelled, section 8 |

### What is hard here

Everything difficult happens at the joints between threads. The list is in `PROJECT.json` under
`hazards`; the kinds met most often are:

- *a stop while a queue is full or empty*: the joined thread waits for room only the joiner makes;
- *what a stop leaves behind*: queues, counters and static variables that the next run starts with;
- *two threads on one end of a single-consumer queue*;
- *notifications without a mutex* in ReusableThread, and two stores that end a job;
- *counters beside a queue* that two threads raise and lower;
- *window arithmetic*: times divided into messages, offsets between clocks, unsigned subtraction;
- *state reset by a thread that does not own it*: start() of the Penn reader clears what the io thread works
  on, start() of the cosmic ray tagger reader resets one half of its clock;
- *a stream cut anywhere*: a read whose time runs out in the middle of a packet, a file that is renamed
  between two system calls, an overfull buffer.

### What makes the components correct

- CTB: no word is lost, doubled or moved between socket and artdaq; the counter counts; fragments of
  two runs are not mixed; timestamps follow the stream; a stop ends.
- Reusable threads: a job accepted is run once, before the caller reads its result; a job is refused
  only for a known reason; rounds and destruction end.
- FELIX: a delivered fragment covers its window; no message a later trigger needs is thrown away;
  requests are answered in order; the matcher never writes outside the wait of its caller; stops end.
- FELIX on the host: the fragments of an event are of one trigger and hold its window, no message is in two;
  superchunks are whole, in order, and not written over while they are read.
- SSP: a fragment has all packets of its window; no packet is in two; culling stays inside the buffer;
  triggers are answered once, in order, with their timestamp; stops end.
- Timing: after a stop the board is quiet and every trigger it recorded has been given to artdaq, once and
  in order; fragments carry the times of the last marks before them; triggers are enabled as the
  InhibitMaster says; a wish for an inhibit is granted; a stop ends.
- Penn: a millislice holds every word of its window and no other; each buffer lent to the io thread is in one
  place and is not written once it was given back; no data of a run in the next; a dead io thread ends the run.
- RCE: a frame that reached the sink is delivered once, in order, or counted as lost; a run leaves to the
  next only what came after it.
- Software trigger: a trigger is published only while triggers may flow, once, away from the last one.
- Primitive finder: an answer in time holds all hits of its window; the destruction ends; the hits are those of the
  plain version and of the exact filter, wherever messages begin and end; a set has the hits of its messages.
- Penn control connection, SSP devices, WIB reader: each step of the bring-up acts on the answer to its own command;
  what it leads to is the board it was to be, or no reader; a refusal is not forgotten.
- SSP registers, RCE command connection: each register has what the last setting about it says; a board runs or stands as
  the reader last told it, on the strength of a status of its own, or the connection is closed.
- Muon finder, hit finding reader: a trigger is a full window of hits; hits are passed on once, in order, whatever the stops.
- Reordering, expansion, thinning, filters: every sample is where the reader of the fragment looks for it and under the
  name of its wire; what is dropped, and no more, is what the configuration says.
- Older RCE receiver: after a stop that was answered the buffers are let be; millislices are whole.
- Cosmic ray tagger: no packet is lost, doubled or moved; no unread word is forgotten by inotify; a time the
  reader believes is the true one.

## 2. Modules

| Module | What it is |
|---|---|
| `OrderedDelivery` | abstract: what a reader delivers is a growing prefix of what it accepted |
| `CTB`, `MCCTB`, `CTB_proofs` | the CTB reader, its instances, its theorems |
| `ThreadPool` | abstract: rounds of jobs on a set of threads |
| `ReusableThread` | the class, as operators over functions from threads to flags |
| `WorkerRounds` | rounds of jobs on several reusable threads, implementing ThreadPool |
| `RequestReceiver`, `RequestReceiver_proofs` | the class, shared by FELIX and SSP; what its operations keep |
| `Felix`, `Felix_proofs` | the FELIX reader in publishing mode: composes ReusableThread and RequestReceiver |
| `OnHost` | the FELIX reader in on-host mode, several links: extends RequestReceiver; its theorem is in `Felix_proofs` |
| `CardReader` | the reader of a FELIX card: ring, dispatchers, superchunks |
| `TPFinder` | the trigger primitive finder of one link |
| `HitFinder` | how it finds hits: the code on registers of lanes, next to the plain version |
| `HitSets` | the sets of primitives it sends, and the counter that the finders share |
| `MCFelix` | instances of Felix, HitFinder and HitSets; `Felix_proofs` has the theorems of the three |
| `MCFelixModes` | instances of Felix, OnHost and CardReader |
| `SSP`, `SSP_proofs` | the SSP reader: composes RequestReceiver |
| `InhibitGet` | the subscription to the InhibitMaster, used by the readers that control triggers |
| `Timing`, `Timing_proofs` | the timing reader: composes InhibitGet; implements OrderedDelivery |
| `SWTrigger` | the software trigger: composes InhibitGet |
| `RssiReceiver` | the RCE reader with its ring, over several connections |
| `MCHandOvers`, `HandOvers_proofs` | instances of WorkerRounds, SWTrigger, TPFinder, RssiReceiver and SSP; theorems of the first four |
| `SSPDevice`, `WIBReader`, `PennClient` | the bring-up of three boards under faults |
| `MuonFinder`, `HitCollector`, `TriggerFilters` | the readers that make triggers of hits; the filters of events |
| `RceReceiver` | the older receiver of RCE data |
| `SSPRegisters` | the map of an SSP board's registers, and what the settings do to them |
| `RceControl` | the command connection of an RCE board |
| `FelixReorder`, `FrameExpand` | where reordering puts samples; where expansion puts them (extends FelixReorder), and the names of channels |
| `SparsifySSP` | the thinning of SSP data |
| `MCBoards`, `Boards_proofs` | instances of these and of CTB over two runs; theorems of SSPDevice, WIBReader, PennClient, MuonFinder, TriggerFilters, RceReceiver and RceControl |
| `Penn` | the Penn board reader |
| `CRT`, `CRTClock` | the cosmic ray tagger reader: its files and packets; its timestamps |
| `MCStreams`, `Streams_proofs` | instances of Penn, CRT and CRTClock; theorems of CRTClock, CardReader and Penn |

`MCHandOvers`, `MCBoards`, `MCStreams`, `MCFelix` and `MCFelixModes` bundle parts that share no state: a variable (`part`, `reader`, `mode`) says, once and
for all, whose behaviour it is, and the others stay as they began. That is the union of the parts' state
graphs, not their product, so each part is checked as fully as in a run of its own.

`Felix`, `SSP` and `Timing` EXTEND the modules of the classes they use, as the C++ classes hold them as members:
an action of the reader that calls `start()` of the receiver has `StartReceiver` as a conjunct.

Definitions marked "variant" in the comments are the plausible mistakes against which each property
was tried: with the variant in place of the definition next to it, TLC finds the property violated.

### CTB

The artdaq thread is `cpc`, the receiver thread `rpc`, the fragment thread `gpc`. Steps of a thread
end where another thread can see the difference: the TS counter is raised in `ReadWord` and the word
pushed in `PushWord`, because the fragment thread may look between the two; `start()` is four steps
because the fragment thread already runs when the receiver resets the queue. A word is its run, number
and kind; `zero` tells whether its timestamp is 0, which CreateFragment treats as missing. `temp` is
the static variable of CreateFragment, which keeps its value when a pop finds the queue empty. When
the queue is reset while the fragment thread is inside `pop()` - which is undefined behaviour of a
single-consumer queue - the history variable `startRace` is set and words may come back.

### ReusableThread and WorkerRounds

`wpc[t]` follows `thread_worker()`: `test`, `run`, `clear` (between `m_thread_pause = true` and
`m_function_ready = false`), `enter` (the predicate has been tested, the wait not yet entered: here a
notification is lost, since `set_work()` does not take the mutex) and `wait`. `Garbage` is the set of
values the uninitialised `m_function_ready` may be born with. `WorkerRounds` adds the loop of
`triggerWorkers()` over the links, the wait on `busy()`, and the destruction.

### Felix

One link. `cpc` is the artdaq thread through start, getNext_ (request, offer, busy) and stop; `spc` the
subscriber, which pushes messages and, when the queue is full and no matcher is busy, throws half of it
away in two steps (`CheckBusy`, `PopHalf`: between them a matcher may begin); `mpc` the place of the
matcher within its functor. A message is its number in the stream; all window arithmetic of the code is
done on the timestamps the numbers stand for, with the same roundings. `Unheard` is a message the
publisher sent and the reader did not get, so that queues with gaps occur. Messages the matcher would
read past the write pointer are negative numbers in the fragment.

### OnHost and CardReader

`hostAt` is the artdaq thread; it offers the trigger to one link after the other (`OfferLink`), because a matcher
may be done before the next is asked, and because each may refuse. Of a matcher only what its callers see is
kept: `idle`, `works`, and `clears`, in which it says that it is ready and refuses work; `WorkerRounds` is
the same class in full, and there lost notifications are. The functor is one step: the matcher is the only one to take from its
queue, and what the dispatcher adds meanwhile can only end the wait for data, which is `CopyWindow` or `LateData` at any time.
The histories `front` and `why` say what the matcher saw. The dispatchers fill the queues from the construction on.

`CardReader` counts positions of blocks from the start and takes them modulo the ring for addresses, so that
`overrun` can say when the card writes over a block that an address in a queue or a parser's piece still stands for.
A block is one part of a superchunk. The parser is external: after a loss it may or may not give up the chunk it had
begun when a new one starts, and both are in the model.

### SSP

`gpc` is the artdaq thread, `tpc` the read thread; both work on `buffer` and `triggers` under
`fBufferMutex`, so that what is done under the mutex is one action. `software` chooses between requests
and trigger bits. A packet is its time, its channel and its trigger bit; packets of one channel come in
order and those of another at most `Disorder` late. Both ends of the buffer are taken in the code
without asking whether it is empty: `Cull` ends the process or the loop when it has popped everything,
and `GetNextEmpty` is `back()` of the empty buffer. An exception in the read thread is caught by
nobody: the process ends (`tpc = "terminated"`).

### Timing

`gpc` is artdaq's data thread: `idle` between calls of `getNext_()`, `look` before the board's buffer,
`settle` in the wait of `end_run_wait_`, `throttle` at the end of a round, where the InhibitMaster is
polled. `ClockThrows` is an exception of the board in the publisher's thread, which nothing catches: the process is dead
(`cpc`), and a promise about a stop or an inhibit holds only up to there. `cpc` is the command thread, which takes the mutex of `getNext_()`; so `Stop` happens between
calls and the data thread is locked out while `stop()` joins the publisher of the hardware time
(`hpc`). `checkHWStatus_()` runs on a thread of its own and takes no lock of these: `CheckHWStatus` may
come at any moment, also in the middle of a call. With `sendFragments` false (`send_fragments_`) the
reader only configures the board and `getNext_()` does nothing until the stop.

The board is external: an event it records is readable only after `Push` (`pipe`, then `buffer`), which
is what `end_run_wait_` waits for. An event is its kind and its time, and times are numbers of events.
`last` is the times of the last run and spill marks, kept from run to run. `failed` says that artdaq
will not call again: `checkHWStatus_()` returned false or a board access threw.

`InhibitGet` is the socket of the library: connected by the first start, never closed, a queue of one
message. `ignore` is what is left of the time the reader waits for a first message: it is set at every
connect, runs out once, and the first answer, or running out, makes it `zero`. `patience` is its value at
a connect: `infinite` when the reader is configured to wait for a message for ever, by a long time or by 0.

### Penn

`io` is the io thread, `gpc` the artdaq thread. The two share everything, with no mutex: the io thread owns
the millislice in progress (`current`, `words`, `remaining`, `overlap`, `boundary`, `part`), `Reset` (the
receiver's `start()`) clears all of it from the artdaq thread, and `ClearSuspend` and `ClearFlag` are two
stores in between which the io thread may look. A word is its tick; a microslice is a header and a payload in
`stream`; `ReceivePayload` has the split of `sampleTimeSplitAndCountTwice`. Reads may take some of
their bytes before their deadline expires (`ReceiveSome`, `ReadTimeout`): the handler does not count them and the
reader is out of step (`torn`). So it is when a connection ends in the middle of a microslice. From then on it takes whatever
comes for headers and payloads (`ReceiveGarbage`), counts and writes it: the number may or may not look wrong, the buffer
holds `Garbage`, the times that close a millislice are any, and the millislices filled are not `inStep`. A number that comes
once more is taken for the rest of the last microslice when that was a `fragment` (it had no timestamp word before the
boundary): `Again` raises no exception, and 255 microslices lost at such a place go unnoticed (`misled`). `Dies` is the null buffer a complete millislice is written to. `Patient` says that the time `stop()`
waits is long enough for a thread that lives. `MaxUnread` is the room of the socket.

The guarantees hold under conditions the code does not ensure, and the history variables name them: `clean` (the io thread was
out of the way when the run was started: the last stop was answered, in time and not by a flag that the thread set
for an earlier stop, which is `late`) and `fresh` (the start could flush the socket and the board had obeyed the last
StopRun). The first start of a process may meet a thread that has popped a buffer already; then `clean` is false.

### SWTrigger, TPFinder, RssiReceiver

`SWTrigger`: `swpc` is the artdaq thread through the three joins of `stop()`, `handler` the thread that receives
decisions, `metrics` and `subscriber` the other two. The metrics thread is made by the constructor only: the second
stop joins a thread that has been joined, throws, and the reader ends in `failed`. Neither start nor stop empties the
queue and `prev_timestamp` is static: a trigger of an earlier run counts for the hold-off, and a decision of one
may be published (`left`).

`TPFinder`: `ppc` is the processing thread, which reads `shouldStop` more than once between two items (`Look`, `SeeStop`,
`SeeMessage`), because the destructor takes the stop back (`DestroyFinder`); between a look that finds the stop and one that does not, there is
no item to look at, and the process dies. `latest` is born with any value (`AnyStamp`: the member is not initialised);
`begun` and `measured` tell whether a matcher compared with a value the thread had stored. `ResetSender` destroys the sender
under the processing thread.

`RssiReceiver`: `sink` and `hand` are `acceptFrame()`, which waits for room and then drops; `cmd` and `data` are the two
artdaq threads. A start with a lost connection makes a new receiver: ring, hand and statistics of the old one go
with it (`cleared`). The comment "drain buffer" in the start has no code. A refused command is a warning.

### HitFinder and HitSets

`HitFinder` runs two versions on the same samples. `avx` is the code: registers of 16-bit lanes, in which the estimates of
the pedestal and the quartiles move by masks (`Masked`), charges saturate, and the threshold is a product of 64-bit *elements*,
so that a negative distance would borrow from the next lane (`Thresholds`); a row is written when a hit ends in any lane and is
read back by its charges (`Row`, `ReadBack`). `naive` is `process_naive.cpp`, one lane at a time, with which the tests compare
it. `above` keeps what an exact filter, without width, would have found; `clamped` and `wrapped` say that the code has met a
distance above `sigmaMax` or a sample that overflows the lane. A `Sample` is one time of all lanes; state stays for the next message.

`HitSets` is the end of `addHitsToQueue()`, for all finders of a process: each holds its own mutex, the counter is static, and an
increment is a load and a store. The build may keep what it stored or read the variable again for the comparison
(`Compare`): a data race, so both are in the model.

### CRT and CRTClock

`CRT` is `getNext_()` with `FillBuffer()`, one action per system call, since the backend, a program of its own, may write,
close and begin a file between any two. Words are numbered over all files; a packet is a header and a body, which stands for
all after the header. `raw2cook` restarts from the front of the buffer at every call; a body whose header was lost
cannot be decoded, and a header in the place of a length claims `LongClaim` words. `StopDatataking` removes the watch and the start does
not set it again.

`CRTClock` is `buildFragment()`: the upper half of a timestamp is inferred from the clock of the computer (`now`, in ticks), the lower half
comes from the hardware. `Roll` ticks are not a whole number of seconds (`RollSeconds` is rounded up), so a count of rollovers that goes
by seconds drifts, is caught by the sanity check against the clock, and is repaired when the difference is exactly
`RollSeconds`. The seconds are rounded before the subtraction (`Believed`) or after it (`SecondsOff`), as the code does.

### SSPDevice, WIBReader, PennClient

`SSPDevice` follows the constructor of the SSP reader (`ipc`): `Script` has the steps that are a command, with the register it
touches and the step after it; `phase` is the place in `SendReceive()`, which takes whatever comes next for the answer. An answer
is a sequence of units and comes in pieces; `PurgeData` is the other channel, which the stop purges last and which may throw. `joined` says that the clock endpoint has run since it was reset. `late` is an
answer that was still to come when a purge ended: nothing is explored after it (guard of `DeviceNext`), for from then on the reader may be one
answer behind. The emulated device cannot be initialised: reads from it change nothing.

`WIBReader` is its constructor: every call to the board, the making of its object and the write of the request (`Talks`) included, may fail, by an exception the tries catch, or by one (`refused`) that
no handler sees. The comments at lines 52 and 73, "Try to un-set DIM do-not-disturb no matter what happened", hold for the first kind: the
second leaves the request set and FEMBs powered, and `ConfiguredOrGone` names it.

`PennClient`: a read ends with its deadline and keeps what came; an answer is two pieces. `answers` and `own` are the history of what was
taken for an answer and whether it was the command's own; `unread` is a command given up, after which the next one takes the old answer. An
answer that cannot be parsed only warns; `refusal` (`exception_`) is never reset. `MaxRetries` is positive: ten seconds over the time limit of a read.

### MuonFinder, HitCollector, TriggerFilters, RceReceiver

`MuonFinder`: the thread's state is new in a run (`NewHandler`), the queue and `prevTimestamp` stay, so times of one run may be sent in
the next. A hit past the end of `has_hit` may change the window's time or end the process (`Overwritten`, `StrayKills`). Its first set at `TSpan` or later ends a window at time 0 that nothing opened, which the hold-off swallows, if there is one. `HitCollector`: `mustStop` is set by `stop()`
and by nothing reset, so that after the first stop each call collects no more. `TriggerFilters` is one path of art: a filter that
does not pass the event ends it, and the selector's `fLastEventDecision` is of the last event it saw. The parameter
KeepNextEvent is read but used by nothing.

`RceReceiver`: `service` is the io thread, `caller` the reader's; `suspendReadout` and `readoutSuspended` are the two flags, and the places
ending in `Noted` are between a look at the first and what follows from it. `stale` is an answer that came after the next start, `gaveUp`
a stop that was not answered in time, `broken` a buffer taken from under the thread or a microslice that a lost connection or the drain cut.

### SSPRegisters and RceControl

`SSPRegisters` is `ConfigureDevice()` over the whole table of `RegMap`: a field is its bank, word and length, and the members, the
names and their masks were compared with the source entry by entry. The keys are taken in the order of their names, which puts
`ALL_` before `ARR_` before `ChannelControl` before `ELE_` before `Literals` before names in lower case; two keys of one kind are of different registers. Of a
word, the bits that the three logical settings replace are told apart (`Bits`) and the rest is one. Four things the code does that one would not
guess: arrays are written without their mask; an index beyond an array is only logged; the control words are sent last and undo literals; a
list that is too short for them is read beyond its end. `vmon_value` and `imon_value` have 9 words and are 8 long by name. The
arguments of `Register` in `operator[]` are in another order than in its constructor, which changes the members Size, Offset and Bits of
elements, and those are read of no element. `DeviceInterface::Configure()` has no caller.

`RceControl`: `commStep` is the command in hand, `CommandAfter` what follows it, `Excused` what an error leads to: the constructor's `LogError` throws, like
an error of the status, which no handler of `start()` takes; other errors are warnings and the rest of their block is skipped. The board (`dpm`)
carries commands out in order and may refuse them, which only `refusals` knows of, for the answer is not looked at. Messages come in two pieces; `read()` drops
what follows the end of a message within its own buffer, and an unasked message (`unasked`) shifts all answers by one.

### FelixReorder, FrameExpand, SparsifySSP

The reordering is followed nibble by nibble over a segment, in both versions that are built (`avx`): `step` and `frame` are those of a link, `numFaulty` is
the one variable of the facility, and `crossed` says that another link used it meanwhile; then the headers kept and the size may be wrong if any frame deviates, never the samples or the bits.
`Room` is what the fragment has past its samples: `NetioHandler::recalculateFragmentSizes()` adds the bitfield (line 575) to the headers of all frames. It is kept to unless links
cross that have, between them, as many deviating frames as a window has frames.
`FrameExpand` puts segments into registers by the masks of the code and reads the lanes back through its two tables; the map is read from two
files, which may be missing or name a channel outside it. The offline names that hits get rest on a base and a rule that the crates 1 to 3 do not
follow, for they are numbered the other way round: the comment at `TriggerPrimitiveFinder.cpp:197-201` holds for the crates 4 to 6 only, and so says `OfflinesRight`.

`SparsifySSP` is `produce()`: gathering, search, splitting, writing. A trigger time 0 is taken for "no last time" by the search, and `Near` excepts it.

## 3. Runs

Every passing run fires every action of its next-state relation, and each of its properties has been
seen to fail with a variant of the code.

| Run | Shows | Distinct states |
|---|---|---|
| `ctb_run` | one run with TS and feedback words, timed or not: no word is lost, words arrive in order (`StreamDelivered`, and the refinement of OrderedDelivery), stamps follow the stream, stop() returns if the fragment buffer has room when it begins | 154 000 |
| `boards` | CTB, two runs: the TS counter survives what the first leaves behind; no fragment mixes runs and every HLT word is counted once (`LeftoversKeptApart`; what the first run leaves does reach the second, in fragments of its own and, for the unfinished period of the HLT counter, in its report). SSP board, WIB, Penn connection: brought up right, or not at all; a refusal holds. Muon finder, hit finding reader, filters: triggers are windows, hits are passed on, one more event is kept. Older RCE receiver: suspended and whole. Reordering, expansion, thinning: against their definitions. SSP registers: settings against what each says (`RegistersRight`). RCE connection: the board follows (`BoardFollows`) | 1 768 000 |
| `ctb_stop` | violated: with a full fragment buffer stop() waits for ever | - |
| `felix_match` | publishing, two triggers on one link: windows, order, no data thrown away. On the host, two events on two links: one trigger per event, its window, no message twice. Card: whole superchunks in order | 2 518 000 |
| `felix_stop` | two runs of a link: requests are answered and stops end unless a notification is lost (`NothingHangs`). Hits: the code finds those of the plain version and of the exact filter. Sets: one finder sends whole ones | 551 000 |
| `hand_overs` | two threads, three rounds: ThreadPool is implemented, rounds end unless a notification is lost. Software trigger: triggers are justified. Finder: answers are complete, the destruction ends. RCE: frames are accounted for. SSP, two runs, both kinds of triggers: fragments are exact and culling stays inside (`PacketsRight`), answers in order, triggers served and stops end. The three promises that somebody is let go are `NobodyHangs` | 713 000 |
| `streams` | Penn: the stream of this run cut exactly into millislices, conserved buffers (`MillislicesRight`), failures reported. Cosmic ray tagger: packets accounted for and no unread word forgotten, no tail of a file left (`FilesReadOut`), stamps in sync | 2 374 000 |
| `ssp_overlap` | violated: overlapping triggers are accepted | - |
| `timing_run` | two runs, with and without fragments, with failures: drain, order, stamps, enabling of triggers, granted inhibits and stops that end (`AskedIsDone`) | 654 000 |
| `timing_stale` | violated: the triggers of a run are enabled by a message sent before it | - |
| `crt_vanish` | violated: a file that vanishes between two system calls ends the run | - |
| `hit_sets` | violated: two finders count each other's messages, and their sets are not those of so many messages | - |

### Findings

- `ctb_stop`: the fragment thread retries its push without looking at the stop flag; after
  `should_stop()` nobody pops; `stop()` joins that thread. The comment in `stop()` explains the order of
  its steps as what makes it return.
- `ssp_overlap`: the comment says a trigger that starts before the end of the previous one makes the
  reader fall over; the code compares with triggers still waiting only. The fragment of the second
  trigger lacks what the first one's took (`FragmentsExact` names this exception).
- `timing_stale`: the header says that connecting is done late "so that there aren't stale messages in the
  queue". That holds for the first run of a process; later starts find the socket connected and what it
  received since the last poll.
- `crt_vanish`: the comments in `try_open_file()` say that a file which vanishes is forgiven and the next one
  taken. By then the old file has been closed and its watch removed, which is itself an event: the next
  call takes it for a modification, reads the closed descriptor, and throws.
- `hit_sets`: "Send out the TPSet every m_msgs_per_tpset messages", says the comment; the counter is a static
  variable that the finders of all links share, so that with two links a set has other numbers of messages, keeps
  the start 0, or is not sent once the counter has passed the number. `OneFinderSendsWhole` proves it for one.

Disagreements between words and code that no run is about: the comment in `process_avx2.cpp:170-178` says that clean samples
are limited so that the filter never overflows, but they are limited from above only: a sample more than `adcMax` below the
pedestal wraps and makes hits that are none (`wrapped` in `SpansTrue`); `RequestReceiver::stop()` logs "Request queue flushed" and
flushes nothing; "Throwing out this Fragment" is logged of a time that is not believed, and the fragment is sent; the comment at
`CRTFragGen_generator.cc` that a pause of the data longer than a rollover makes the times "fall out of sync" is
more pessimistic than `StampsInSync` shows: the count is at most two behind, and comes back.

Hazards that the models show and the properties exclude by a condition, so that the reader can see
where the guarantee ends: `startRace` (CTB, queue reset under a pop), `raced` (FELIX, two consumers),
`lost` and `Slept` (lost notifications), `late` and `ahead` (SSP, requests outside the latency), `clean`
and `fresh` (Penn, a start that does not find the io thread out of the way), `measured` (finder, a value never
set), `late` (RCE, frames that come after the last call of a run), `overrun` (card, blocks written over while they are wanted), `refusedMsgs` (on-host, messages a full queue has refused), a second sync of the hardware (cosmic ray tagger),
`statusLost` (timing, a change of status the InhibitMaster did not hear: it is not repeated, although the
comment at `TimingReceiver_generator.cc:528` says that goodness or badness is sent at every round).

### Bounds and why they are enough

- SSPDevice: one retry and two resets of the endpoint, one register set: a failure at every step, twice. WIBReader: two FEMBs, two
  tries, at most one fault of the board. PennClient: two addresses, two reads of an answer, four commands: connect, reset,
  configuration, start, stop and start again.
- SSPRegisters: every register by its name in each of the ways alone, with a wrong length, name or prefix; and all subsets of eight
  settings that meet in the control words or in one array, of every kind.
- RceControl: two starts, two readings of the status instead of five, one stream not in use, one refusal and one unasked message, an error at any step.
- RceReceiver: a header of two units and a microslice of three, two of them to a millislice, nine units and two starts: cuts in
  both parts of a microslice, in the middle and at the end of a millislice, and an answer that meets the second start.
- MuonFinder: windows, threshold and hold-off of 1, times up to 3, three sets over two runs, three channels of which one has no place in `has_hit`; after a hit on that one no set is followed. HitCollector: two sets to a fragment
  list, two waits, four hits, three calls. TriggerFilters: a prescale of 2, three events, the configurations named in `MCBoards`.
- FelixReorder: two links with a window of two messages of two frames each; FrameExpand: two slots on every crate and fiber, four lines of the map;
  all lanes. SparsifySSP: two fragments of up to two triggers at times up to 3, each of which names one of two SSPs, its own or not, with a fragment or without.
- CTB: capacities of 2 make full and empty queues ordinary; 3 words in one run give a full buffer and one
  more; 2 runs of 2 words leave words behind in all three places (hand, queue, fragment). `UIntMax = 9`
  is far above any true count, so that a wrap shows.
- WorkerRounds: two threads are needed for the round to wait for one while another is done; three rounds
  for a stale flag of a round to meet the next.
- Felix: messages of two frames of two ticks, so that both divisions of the window arithmetic round;
  triggers at 5, 10, 13, or 12, 14, 22 in `felix_match`: the windows of two share a message. In `felix_match` a queue of 5 overflows
  with 7 messages, and data found to be gone were thrown away or taken, which both occur. `Margin = 3` stands for the 10 of the code. The
  proofs show what is needed: 2 covers the window, but with 2 the matcher may take the last message of the queue, and what is gone is
  then explained by nothing that is left.
- OnHost: two links, one with five messages and one with three, so that a round has a link with data and one without;
  queues of four, of which the first fills.
- CardReader: two links, a ring of four blocks and six to write, so that it wraps; chunks of two blocks and a dispatcher's
  queue of one, so that any part of a chunk can be lost.
- SSP: packet times 8, 9, 12, 15 and windows of 4 give touching, overlapping and disjoint windows, a
  packet to be put back that a later fragment needs, late and early requests, and an empty buffer. Four
  packets on two channels are the fewest in which a packet put back can be missed.
- Timing: two events are the fewest in which a mark comes before a trigger, or two triggers wait in `pipe`
  and `buffer`; one event raises the warning. One more round per call (`MaxCounter = 1`) has both ends of
  a round; the proofs hold for any number. Two runs for what the first leaves: marks, unread events, a
  message in the socket.
- SWTrigger: three decisions at times 1, 2 and 4 with a hold-off of 2 come closer, farther, in order and not; a queue of two is
  full with the third; two runs leave decisions and the last time behind.
- HitFinder: two lanes of 8 bits, a shift by 4, taps 4, 8, 4, 0, a factor of 3, one step of the accumulator: three
  samples in which both wires rest, both have a signal, or one is far below its pedestal. The first distance of the quartiles is 0, as
  from 1 it takes 14 samples to reach 0, the one that is most easily crossed. Messages of two samples, shorter
  than the filter and than hits, and five of them: hits begin, last and end over boundaries.
- HitSets: two messages to a set, six messages, with a hit or none; one finder, or two for the finding.
- TPFinder: a queue of two messages, up to two hits in each and two hits kept: full queues and pushed-out hits are
  ordinary. Two ends of messages, of which the queue may refuse both.
- RssiReceiver: a ring of two and five frames; two runs and two receivers, so that a frame may come after its run
  to the old ring or be lost with it.
- Penn: microslices of three ticks, millislices of five with an overlap of two, the shortest that `TicksAssumption` admits: a microslice meets
  one boundary, and of the words that are kept back none is overlap. Four microslices; the 8 bits of the sequence number are two; one lost
  microslice, which with two numbers is the loss that the number may hide (`misled`); two buffers are lent of the memory for
  five, one retry. The reader may come out of step in the first run only (`TornRuns`), the second starts in whatever state that left.
- CRT: three files and seven words, three packets and a half; a buffer of twice the longest claim. Two fragments per call.
- CRTClock: a second of 2 ticks, a rollover of 11, 25 ticks: two rollovers, neither a whole number of seconds, and pauses of any length.
- Deadlock is not checked: every model stops when its bounds are used up, and the SSP process may end.
  That nobody waits for ever is what the liveness properties say.

### Fairness

Threads run: every loop of the code that is not blocked goes on (WF on the actions of each thread,
separately per thread, so that no thread lives on another's fairness). Waits with a time limit end.
artdaq keeps calling `getNext_()` and completes a start or stop it has begun. Never fair: arrival of
words, packets, messages or requests, the stop command, the board's closing of a connection, spurious
wakeups, time limits of the inhibit socket, all of the Penn board, the backend and the RCEs, the metrics thread of the finder (it looks once a second, and the stop may be taken back before), status and failures of the timing reader, and of the SSP reader the stall and the reads that end the process. The parts of `boards` have no fairness: what is checked of them is safety. A notification lost is
excluded by an assumption in the property (`[](lost = {})`, `[]~Slept`), because the code does lose it. The
board makes readable what it has recorded, and the InhibitMaster keeps sending (WF on `Push` and
`MasterSends`): the first is the meaning of `end_run_wait_`, without the second no inhibit could be granted.

## 4. Proofs

| Theorem | Says |
|---|---|
| `CTB_proofs!TypeCorrect`, `TSCountCorrect` | types and capacities; the TS counter equals TS words queued, in hand, or dropped at a stop: it never wraps |
| `CTB_proofs!StreamIsDelivered` | the words read in a run are in fragments or on their way, in order and complete but for what a stop cuts off; the stamps of a first run follow the stream |
| `CTB_proofs!LeftoversAreKeptApart` | over any number of runs, no fragment mixes words of two runs and no HLT word is counted twice or forgotten, though those of a run's unfinished period are in the next one's report |
| `CTB_proofs!DeliversInOrder` | the reader, started once, implements OrderedDelivery |
| `HandOvers_proofs!Refinement`, `Refusals` | rounds implement ThreadPool for any finite set of threads; a job is refused only in the window between two stores (`RefusedOnlyWhileClearing`) |
| `Felix_proofs!TypeCorrect`, `Quiet`, `WindowCorrect` | types and capacities; the matcher runs only while its caller waits; a fragment with data covers its window |
| `Felix_proofs!TrackersAgree`, `DistanceIsNatural` | pedestal and quartiles are the same in both versions and never cross: no borrow between lanes, for all samples |
| `Felix_proofs!OneFinderSendsWhole` | a finder alone sends exactly the sets of its groups of messages |
| `HandOvers_proofs!SwTypeCorrect`, `TriggersAreJustified` | types and capacity; a trigger is published only while the run was let go, once, in order, the hold-off away from the others |
| `HandOvers_proofs!RssiFramesAccounted` | every frame that reached the sink is delivered once and in order, waits, or is counted as dropped or lost with its receiver; a run leaves only what came too late |
| `HandOvers_proofs!FinderHitsComplete` | an answer given in time holds all hits of its window that the memory for hits could keep |
| `Boards_proofs!WibConfigured` | a WIB reader that exists has a board as configured; do-not-disturb is left set only as said |
| `Boards_proofs!ClientRefusalHolds` | no run of the Penn reader is taken after a refusal; answers are those of their commands until one is given up |
| `Boards_proofs!DeviceBringUpRight` | each step of the SSP board's bring-up acts on its own answer and ends with the endpoint in step, up to the first late answer |
| `Boards_proofs!MuonTriggersAreWindows` | with a hold-off, triggers are full windows and keep away from each other, over any number of runs, until a hit is counted whose channel has no place in `has_hit` |
| `Boards_proofs!FilterKeepsOneMore` | one event is kept after an accepted one, and no tail; the prescale counts |
| `Boards_proofs!RceBoardFollows` | an RCE board is configured in whole before a run, enabled on a status of its own and left as the last start or stop demanded, unless it refused or the connection was lost |
| `Boards_proofs!RceSuspendedAndWhole` | after an answered stop the older RCE receiver lets the buffers be; millislices are whole |
| `SSP_proofs!AnswersInOrder` | triggers are answered once, in order, with their timestamp, over any number of runs |
| `Felix_proofs!SharedCorrect` | publishing mode: triggers are answered once and in order, no message is in two fragments, and data are gone only if an overflow or a stop threw them away or an earlier trigger has them |
| `Felix_proofs!HostEventsCoherent` | on-host mode, any number of links: the fragments of an event are of one trigger and hold its window, messages are in one event only, and missing data are accounted for |
| `Streams_proofs!ChunksStayIntact` | as long as the card overruns nobody, each superchunk is whole and of one link, in order, and a loss costs only the chunks it touches and the next |
| `Streams_proofs!MillislicesStayRight` | what the Penn reader gives artdaq of a run is the board's stream from a microslice of the run on, cut into millislices with nothing lost, doubled or moved, each in a buffer nobody else has, up to where the reader is out of step with the connection or microslices are lost unnoticed |
| `Streams_proofs!ClockTypeCorrect`, `TimesInSync` | types; a time that is believed is the true one, the others are at most two rollovers behind or one ahead |
| `Timing_proofs!TypeCorrect`, `EnabledCorrect` | types; triggers are enabled just if the last message read allows them or the reader gave up waiting |
| `Timing_proofs!DrainedCorrect` | after a stop was seen to its end the board is quiet and empty and no trigger of the run is undelivered |
| `Timing_proofs!StampsCorrect` | fragments are numbered without gaps and carry the last marks before them, of this run or an earlier one |
| `Timing_proofs!DeliversInOrder` | the triggers of a run reach artdaq in their order, none passed over and none twice: OrderedDelivery |

Assumptions are those named in the modules (`CTBAssumption`, `ThreadAssumption`, `RequestAssumption`,
`FelixAssumption`, `OnHostAssumption`, `CardAssumption`, `SSPAssumption`, `TimingAssumption`, `SWTriggerAssumption`, `ClockAssumption`, `HitFinderAssumption`, `HitSetsAssumption`,
`TPFinderAssumption`, `WIBAssumption`, `PennClientAssumption`, `FilterAssumption`, `MuonAssumption`, `SSPDeviceAssumption`, the `RceAssumption` of each of the two RCE receivers, and `TicksAssumption`, `BoundsAssumption` and `RoomAssumption` of Penn): sizes are positive, trigger times far enough from zero for the
unsigned subtractions of the code, `Margin >= 3` and `SpareMessages >= 2` for the 10 of the code, one link in publishing mode, for CTB an unsigned range larger than
the word buffer, and for the tagger's clock a rollover longer than twice the tolerance and a second, the lag of a hit, finitely many channels for
the muon finder, and for the Penn board what the bounds above say of its ticks, memory for more buffers than are lent, and fewer
microslices lost in a row than the sequence number tells apart: a loss of exactly 256 would go unnoticed by the code too. A loss of 255,
which brings the last number back, is in the model (`misled`).

*CTB.* `IInv == TypeOK /\ PhaseInv /\ ReceiverInv /\ PopInv /\ TSCountMatches`. The count is not inductive
alone: that the fragment thread finds a word when it pops needs that no group is begun without the words
counted, that the receiver is idle while `start()` resets, and that the queue is not reset while a pop is
under way (`startRace`). Lemmas count TS words in a sequence under Append and Tail, by bijections of index
sets.

The stream has a second invariant, `SInv`, on top of the first. `Line` is the sequence of the words in all fragments, in the queue and in the
receiver's hand: `LineInv` says that what is on it of this run is what was read, or a beginning of that once a stop has cut
it (`Cut`); that `rcvd` is empty until the queue is reset makes it hold across a restart. `RunInv` says whose words lie where:
until the reset those in the queue are of the run before (`FilledIn`), afterwards of this one, and so no fragment gets both. `StampInv` ties
`lastTS` to the last timed word that the fragment thread has passed (`LastTime`), so that a word that enters a fragment
stamps it as its place demands. `FreshInv`: nothing precedes the first reset of a first run. `MetricInv` adds the two levels of counters.
The refinement follows: what is delivered is a beginning of the line, and only `GetNext` makes it longer, by words.

These properties speak of sequences that are filtered and concatenated, which takes induction over their length. The
library's rule for it has a property for its parameter; `SetInduction` states the rule for a set of numbers instead and is proved from
the set form of well-founded induction (`WFMin`), and `SeqInduction` carries it over to sequences that grow at their end. With
these, recursive functions can be unfolded by a lemma each (`AmongAppend`, `WordsAppend`). For that purpose
`Sent` is written with `Among`, a recursive function that keeps the members of a set, where `SelectSeq` would say the same.

*WorkerRounds.* `IInv == TypeOK /\ CallerKnows /\ \A t : FlagsMatch(t)`. `FlagsMatch` ties the flags to the
place in the loop (a thread in `run` has accepted and not paused); `CallerKnows` ties `taken` and `done` to
the round. With it every step of the rounds is a step of ThreadPool or leaves `taken` and `done` alone.

*Felix.* `IInv == Control /\ RaceSeen /\ AtFront /\ Cutting /\ CutDone /\ Delivered`. `Control` has the types
and the mutual exclusion of matcher and caller. `AtFront`: a matcher that waits has not moved the queue since
it read `lastTS` off its front. `Cutting`: the fragment is a gapless piece whose beginning is at or before the
window, and what is still missing is in the queue. `WindowArithmetic` is the lemma about the two divisions:
the messages skipped end before the window, and `m_timeWindowNumMessages` from there reach beyond it, for
all distances, message sizes and offsets. `RaceSeen` says that the subscriber popping under a matcher is
always recorded in `raced`, so the condition `whole` excludes no more than that.

`SharedInv` adds the history of the answers: `TriggersPast` (triggers go from the request queue to the answers in the order of
their numbers), `StreamRight` (the queue is in the order of the stream), `DataPast` (what was given is older than what is queued, and
what is being copied is newer than what was given), and two facts that explain the front of the queue: `FrontExplained`, all
before it was thrown away or is before the end of some answer, and `CopyRoom`, the matcher leaves a message in the queue, so
that there is a front to speak of. From these follows `OldExplained`, which is what `SharedInOrder` says about data that are gone.

*OnHost.* `HostInv`, for each link: `LinkRight`, a queue has the messages of its link in order and with no gap but for refused ones;
`Accounted`, each message ever produced is queued, refused, culled or in a fragment (or was skipped before one); `Spent`, what the fragments
have is behind the queue; `Held`, the window of a fragment lies within its data unless a message among them was refused. `EventsRight`
and `FillingRight` say of the events and of the one in hand that they are of one trigger, that data without a fragment are gone for a
reason (`GoneBy`), and that no message is in two. `MatchersPlaced` ties each matcher to the place of the loop over the links, so that it
fills a fragment of this event once and no other. The lemmas on windows are those of `Felix` on frames.

*HitFinder.* `TrackersInv`: the trackers of both versions are equal and `Ordered`. The 25th percentile may get ahead of the median
by one (`LowerBehind`), for it moves up only on a sample that is below the median, which tells the median to move down as well; the
accumulators, compared, bound how far. `UpperAhead` is its mirror image; that the two quartiles do not cross
each other is inductive only with both.

*HitSets.* `SetsInv(f)`: `Place` ties the counter to the messages since the last set and to where the thread is between load
and send; `Gathered` says that the set in hand has the hits of just these. `GroupBounds` is the arithmetic of groups.

*SSP.* `IInv == RequestTypes /\ Histories /\ Stamped /\ AnsweredInOrder`: triggers pass from the accepted ones
through the queue to the served ones, and `Stamped` carries that the way to the board's clock and back
(times 3, minus offset; plus offset, divided by 3) loses nothing. No typing of packets is used: `SelectSeq`,
with which the put-back packets are modelled, cannot be unfolded by the prover, so `FragmentsExact`
and `CullStaysInside` are checked by TLC only.

*SWTrigger.* `Justify` relates the queue to what was published: the identities in the queue increase (`Ascending`), are those of
decisions received (`Waiting`) and above all published ones, no published time is above `prev_timestamp` (`Before`), a reader that is not
throttled was told to go (`Released`), and what is of an earlier run is in `left` (`LeftOver`). The threads matter in one
place: while `stop()` joins, the handler may still write, so `left` is read off the queue once no handler is left (`NoHandler`).

*CRTClock.* `InStep == ClockTypeOK /\ sync <= now /\ NothingYet /\ Counted /\ StampsInSync`. `Counted` ties the rollovers counted
(`uppertime`) to the last believed hit (`oldlowertime`) and its second (`oldUNIX`). Three lemmas on numbers carry the proof, for all
lengths of the second and of the rollover: of the stamps a whole number of rollovers apart, only the right one is within the tolerance
(`OnlyTheRightOne`); the inferred upper half is at most two behind and one ahead (`NearlyRight`); and the repair goes in the right
direction only (`RepairHelps`).

*CardReader.* `CardInv` follows the numbers of a link's blocks from the ring to the parser. `RingRight` and `UnreadRight`: positions are
ordered and what the card has written and nobody freed stands where it was written. `InTurn`: parsed, queued, refused and unread numbers
are together all that were sent, and come one after the other. `Begun`: the pieces in the parser's hand are all that it
parsed since they began, and stand side by side unless their chunk lost one. `GivenRight`: a superchunk is whole or touched by a loss,
they come in order, and each that is owed is there. All of it holds for every size of the ring, the threshold, the queue and the chunk.

*Penn.* `PennInv` has seven parts besides the types. `StreamRight`: the microslices in the socket follow each other but for losses.
`SuspendRight`: a flag that is set and not late says that the io thread is out of the way; hence a start after an answered stop meets
it there, and `Reset` clears its state under nobody. `FirstRight` is the first start, which nothing precedes. `LendingRight`: the buffers
lent are those in the two queues and in the io thread's hand, each in one of them, and no more than `Precommit`. `HandRight` says where the
io thread has one. `SlicingRight` is the core: if the run has received anything, then there are microslices a and b such that what it received
begins with the first tick of a, ends with the last of b, the next header has the number after b or shows a loss (`NextIs`), the filled
millislices are the windows that follow from the first tick (`FilledOf`), and the words, those kept back and the overlap are the window in progress
cut at the last tick (`CutOf`). It holds while `KeptRight` does: the reader is in step and not misled; of the filled millislices the ones `inStep`
come first (`GoodOnes`), and what is said of the windows is said of those. `FreshRight` says that the data of a run that began afresh were sent after its StartRun. Windows are sets
of ticks, so their unions are settled by linear arithmetic once products are out of the way (`EndOf`).

*RssiReceiver.* `RssiInv`: `EachInOnePlace` (a frame is on the wire, in the hand, in the ring or delivered, and in one of them),
`FramesOrdered` (these four are in the order of sending, one after the other), `FramesCounted` (the counters of the receiver add up to what
it gave, holds and dropped) and `LateOnes` (what lies in the ring from an earlier run, or while no data thread is there, is in `late`). That a run leaves nothing
else is inductive only with the order, since the frame popped has to be the oldest.

*TPFinder.* `FinderInv`: `QueueRight` (messages in order, ends of messages behind them), `SearchedAre` (the hits searched for
are found or are in the queue behind what the thread has in hand), `LatestRight` (the latest time is that of no message still to come, but for the one the thread
has just stored) and `NewestKept` (what is kept is the end of what was found). A matcher that has seen the latest time pass
its window (`CameSoFar`) therefore finds all of its hits, or the memory was too short.

*WIBReader.* `WibLoop`: the FEMBs before the one in hand are settled; `WibEnd`: who can have left the request to the slow control set.

*PennClient.* `RefusalKept` carries a refusal from the answer to the flag and on to the next start. `InStep`: until an answer is given up, there
is at most one command that the board has not answered, and the pieces kept, in the socket and on their way are together
that command's answer; no piece of another can be taken.

*SSPDevice.* `ChannelOwn` is the same for the device's channel, by attempts: what is on its way has the number of the attempt under way and tells what
the board holds. `KnownTrue` says what is known at each step of `Initialize()`. Both hold until an answer is `late`; `EndpointKept` and `EmulatedIdle` always do.

*MuonFinder.* `Counting`: the window in hand began at a set of this run and has the channels of all since; `Queued` and `Sent`: a time in the
queue is that of a full window, or 0, and 0 is never sent when there is a hold-off; `Spaced`: `prevTimestamp` is the last time sent, in whichever run.

*TriggerFilters.* The selector's flag is the verdict on the last event it saw; the prescale needs `CountsMultiples`, a lemma on division.

*RceReceiver.* `FlagsAgree` ties the two flags to the callers' places and, through `stale` and `gaveUp`, to whether the io thread has a buffer.
`Held`: the buffer begun is whole microslices and the part of one, the units of which follow each other into the socket, and
it begins on a boundary; so a full one is a whole millislice (`FilledWhole`). `Placed` says where the io thread has a buffer at all.

*RceControl.* Nobody looks at the answers, so the proof follows the commands. `Demanded`: what a start or a stop has sent is still in the inbox with
nothing after it that undoes it, or has been carried out or refused (`Coming`, `Reached`). `SettingsKept` says the same of the
settings; those behind a reset still to be carried out must be behind it in the inbox. `StatusUnderWay`: a status on its way is the
one asked for, was taken when the inbox had been emptied, and is the only one, so that with `Demanded` it tells of a board
that has its data let in; `DecidedRight` keeps this from the decision to the end of the run. `OwnAnswers` holds until the board says something
unasked. No assumption on the constants is needed.

*Timing.* `Control` ties the phase of a stop to the place in `getNext_()` and to the board; in it lies why
the drain is complete: from the end of `settle` on, `pipe` is empty and nothing can be recorded. `Told`:
`throttling` is the negation of what the board was told, and a message has been read only if `ignore` is
`zero`. The two and `EnabledAsTold` are inductive together. `NothingLost`: a trigger of the run is delivered,
in `buffer` or in `pipe`; with `Control` it gives `Drained`. For the stamps, `InOrder` (times increase from
`buffer` to `pipe`), `LastMarks` (`last` is not older than any mark that has left the board, and older than
all that is in it) and `Stamped`. `DataSteps` reduces these to the four actions that touch events. For the refinement `InStep` says that fragment i is
of trigger i and older than all in the board; with `NothingLost` the next trigger read is the one after (`ReadsNext`).

## 5. Only model-checked

- All liveness properties: `StopReturnsWithRoom`, `NothingHangs`, `NobodyHangs`, `AskedIsDone`, `FailureReported` (the
  prover has neither fairness nor ENABLED at hand).
- `PacketsRight`, `HitsTrue`, `HitsPassedOn`: they speak of sequences through filters,
  folds and concatenations of any length. Their proof needs an induction over data as that of CTB, which has not been made.
- `FilesReadOut`, `FramesRight`, `SparsifiedRight`, `RegistersRight`: no proof has been made.

## 6. What the models leave out

- CTB: contents of words beyond kind and zero timestamp, statistics published, calibration streams, the
  configuration of the board. A connection refused by the board at a start is in the model. Empty fragments, which `getNext_()` sends
  as well, are not part of what is delivered (`Sent`): they carry no word.
- FELIX: contents of frames in the matching, compression by its library and hardware, the AVX512 version of the reordering, which is not built, the map of latencies, the hits queue, fake-data mode,
  more than one link in one process (`WorkerRounds` has the rounds over links), and the failure of netio to
  subscribe. The thread of a ReusableThread is taken to start after its members exist, though in the
  class the thread is constructed before the condition variable. The subscriber thread runs once, as the
  generator never restarts it.
- FELIX on the host: reordering (the matchers of all links share one `ReorderFacility`, whose count of
  faulty frames they overwrite: `FelixReorder`; this mode resizes a fragment to its room and does not use the size), a second card (its dispatchers get the queues 0 to 4 like those of the first,
  `FelixProtoduneReader.hpp:688`), the allocation of the queues, short chunks and chunks that share a block, and the constructor's work.
- SSP: dummy triggers (off by default; they leave `triggerTime` unset), the internal clock
  near zero, where the unsigned subtraction of line 304 wraps, `initialise` while running.
- Penn: the contents of the configuration, versions of microslices and checksums (the code that compares them is not compiled, `DO_CHECKSUM`), the rate test, error answers to StopRun, the destructor (which races with the io thread), and the branches of
  older versions that are not compiled (`OLD_DOWHILE`, `OLD_GETNEXT`).
- Software trigger: how ptmp finds a decision, `checkHWStatus_()`, metrics, the fields of the published request.
- Primitive finder: blocks of several frames (`get_block_all`, `get_frame_all`), the SSP part of the map (which nothing fills), the threads' pinning, latencies and counters of the metrics,
  the order in which the registers of a message are processed (their lanes share nothing but an element).
- RCE: its other run states (a run that is paused and never resumed), metrics. A bad frame is only counted. The values of the settings are not told apart.
- Cosmic ray tagger: baselines, control words and corrupted bytes, a directory that is missing (`find_wr_file()` returns a null pointer),
  a closed descriptor number that is used again. A full buffer always holds a packet (`CrtAssumption`): with a full
  buffer of words that cannot be decoded the reader would read 0 bytes for ever, which the code has a TODO about.
- SSP devices: event data over the data link, the emulated device's events. Registers are words of a bank, read masks are left out (nothing here reads by name), as is an
  `ELE_channel_control` index of 12 or more, which writes outside the vector. Reading over Ethernet has no time limit in the code.
- Muon finder: what a write past the end of `has_hit` reaches. The array has 5120 places from channel 2560 on, as if the two APAs were neighbours, but APA 6 begins at
  7680 (comment at line 131): `Overwritten` lets the window's time become any and `StrayKills` ends the process, `TriggersAreWindows` says nothing afterwards.
- Muon finder and hit finding reader: metrics, and the reader of candidates, which makes no fragments. Filters: the decoding of fragments.
- Older RCE receiver: its destructor. SSP thinning: fragments without metadata, which leave start and end uninitialised.
- Request receiver: repeated or reordered requests (the timing reader publishes in order over one socket),
  and the warning about gaps of sequence numbers, which changes nothing.
- Timing: the set-up of the board in the constructor, metrics, the file of counts, short messages
  of the InhibitMaster (dropped with no effect), a second `zmq_connect` that would double the messages, an
  overflow of the board's buffer, and what becomes of published fragments, which is left to a composition with the readers
  that hear them. The constructor makes run and spill starts and spill stops readable events, if so configured (the run stop is none); each
  is a member of `Marks`. When `checkHWStatus_()` fails artdaq stops calling `getNext_()`, so the board is
  never told to stop: `Drained` says nothing then, as `stoppingState` does not become 2.

## 7. Plan

| Step | Modules | Question |
|---|---|---|
| done | the modules of section 2 | above |
| 1 | composition of Timing with RequestReceiver and a reader | requests published, queued, answered: an end-to-end promise over lossy publication |
| 2 | CardReader as the source of the queues of OnHost | a window of whole superchunks from the card to the event |
| 3 | the monitoring's `DataReformatter` | samples where the histograms look for them |
| proofs | `FilesReadOut` of CRT; `RegistersRight` of SSPRegisters; `FramesRight`, whose parts are finite tables; `PacketsRight` of SSP | |

## 8. Not modelled

- The simulators, which generate test data.
- The monitoring modules, logging and metadata, which are sequential, work on one event at a time and control nothing of the data
  taking. They are the largest part of the lines that no module maps.
- The libraries: netio, the FELIX card's, the WIB's, the timing board's, ptmp, RSSI, artdaq, art. What the readers use of them is part
  of the modules and marked external.
- `RceClient`, of which `PennClient` is the descendant.

The reasons are with each component in `PROJECT.json`.
