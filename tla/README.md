# Verification of the wRadio C100 receiver

TLA+ models of the program in `src/`: a DAB(+) receiver for a USB radio, built
to receive the packet data service "PPP-RTK-AdV" and to pass its RTCM messages
on to an NTRIP caster. The core of the program is the way of a packet from the
subchannel to the caster; that was modelled, checked and proved first. Around it
stand the tuner, the description of the multiplex, and the audio programmes with
their labels and slides.

    MSC bytes -> packetSynchronize -> packetInput -> packetDeduplicate -> frameAggregate
                                          |  ^                                |
                                          v  | resent after the last          v
                                       DabDataFec  FEC packet          DabDataFrameAggregator
                                                                              |
    caster <- ntripThread <- ConcurrentQueue <- pushRtcm <- dataFrameInput <--+

Everything in this line up to `pushRtcm` runs on the one thread that reads the
tuner (`RaonTunerInput::commandProcessing`). Beside it run the FIB thread
(`FicParser::processFib`), which builds the list of services and switches the
FEC on, the thread of the NTRIP client, the two threads of a scan, and a thread
for each audio decoder.

## 1. Inventory

| Component | State | Operations | Interacts with | What makes it correct |
|---|---|---|---|---|
| Packet mode data component (`dabservicecomponentmscpacketdata.*`, `dabdatapkt.*`) | unsynchronised bytes, CRC failures in a row, packet number, plug, last forwarded number and continuity index, FEC flag | `componentMscDataInput`, `packetSynchronize`, `packetInput`, `packetDeduplicate`, `frameAggregate` | called by the ensemble for its subchannel; owns the FEC buffer and the aggregator; FEC flag set from the FIB thread | no packet forwarded twice or out of order, none lost that the FEC can bring back, never stuck |
| FEC buffer (`dabdatafec.*`) | the packets of a group | `packetInput`, `packetsProcessFec`, `packetsClear` | third-party Reed-Solomon decoder; marks the packets it shares with the component | every packet is seen twice; corrections hit the byte they are meant for |
| Frame aggregator (`dabdataframeaggregator.h`, `dabdataframe.h`) | packets of the open frame, last frame | `input`, `aggregate` | dispatches frames to callbacks | frames are whole and in order |
| RTCM reframing (`jdabppprtkservice.*`, `rtcmframe.h`) | bytes not cut into messages yet | `dataFrameInput`, `firstframe` | callback of the packet component; `pushRtcm` | messages come out as they were sent, however the stream is cut |
| NTRIP client (`ntripserver.h`, `base64.*`) | connected and shutdown flags, socket, queue | `pushRtcm`, destructor, thread: connect, login, pop, send | data thread; the caster | whole chunks, nothing to a caster that refused, recovery, shutdown returns |
| Queue (`concurrent_queue.h`) | a queue, its mutex and condition | `push`, `tryPop`, `pop`, `clear` | all threads | FIFO, no lost wakeup |
| Callback dispatcher (`callbackhandle.h`) | vector of weak pointers, dispatch count | `add`, `invoke` | used by every thread, without a lock | no entry skipped or used after it is erased |
| Tuner control (`raontunerinput.*`) | command and scan queues with their threads, service link, frequency, scan position, FIC thread | `startService`, `stopService`, `tuneFrequency`, `startServiceScan`, `scanNext`, ... | ensemble (collected callback), USB | the service asked for last is started; a scan visits every channel and ends |
| Chip registers (`raontunerinput.*`, `usb.hpp`) | selected register page | `switchPage`, `setRegister`, `readRegister`, bulk transfers | libusb; three threads | a register access hits the page it was meant for |
| FIC parser (`ficparser.*`) | FIB queue, thread, FIGs already seen | `call`, `processFib`, `parseFig_00/01`, `reset` | dispatches FIGs and "done" marks | "done" only after a whole cycle; the thread stops |
| Ensemble (`dabensemble.*`) | services, components, done flags, CIF count | `figXX_input`, `fig_00_done_cb`, `fig_01_done_cb`, `checkServiceSanity`, `dataInput` | FIC parser, components, tuner | the collection ends, with complete services |
| FIG decoders (`fig_*`) | none | constructors | FIC parser | bit fields |
| Services, components (`dabservice*`, `jdabservice.*`) | properties of services | getters, setters | ensemble, tuner | - |
| Audio decoders (`dabplus*`, `dabmpeg*`) | superframe buffer | `componentDataInput` | PAD decoder | superframes found again after errors; no PAD is handed on twice or late |
| PAD, MOT, label, slideshow (`paddecoder.*`, `motdecoder.*`, `dynamiclabeldecoder.*`, `slideshowdecoder.*`) | open data group, bodies by transport id, label segments | `padDataInput`, `motDataInput`, `applicationDataInput` | audio decoders | slides without a gap, of one transport id and of the size their header says |
| Main program (`wradio.cpp`) | - | initialise, start one service, sleep | tuner | - |
| Codecs (`crc24q.*`, `thirdparty/fec`, tables) | none | pure functions | - | - |

Hard to test here: the second pass of every packet, late, through the same
test as the first; damage that changes what kind of packet one looks like;
losses that put the FEC groups out of step; FEC being switched on by another
thread in mid-stream; a data stream cut anywhere; connections that die in the
middle of a chunk; a scan steered by two threads and two queues; a service opened
by either of two threads; labels and slides put together from pieces of which any
may be missing. `PROJECT.json` lists every hazard at its line, with the properties
that cover it or the reason why none does.

## 2. Modules

| Module | Models | State |
|---|---|---|
| `OrderedDelivery` | what the packet pipeline promises the aggregator | number received, numbers handed on |
| `PacketData` | packet component, FEC buffer, aggregator, open environment | as in the code, plus the history variables `forwarded` and `fate` and, in a packet, `rewritten` |
| `PacketLink` | `PacketData` behind a transmitter and a channel | plus the transmitter's group, frame and continuity counters, damage, loss, and the gap a loss leaves in a group |
| `RtcmStream` | `dataFrameInput` and `RtcmFrame` behind a sender | unsent bytes, buffer, place in the loop, messages sent and pushed |
| `NtripServer` | `ntripServer`, its queue and thread, and a caster | flags, queue, position of the thread, caster's side of the socket |
| `FicCollection` | `FicParser` and the collection in `DabEnsemble`, behind a transmitter | FIGs seen, callbacks, done marks, services and components collected, and a reset in progress |
| `Tuner` | commands, services and scan of `RaonTunerInput`, with its five threads | members, queues, place of each thread, what the chip has open |
| `ChipAccess` | the routines of `RaonTunerInput` as register accesses, and the chip | page, tracked registers, answers on their way, accesses still to make |
| `FigDecoder` | `parseFigData` of all 26 FIG classes | none: functions of the bytes |
| `FigCoding` | the same FIGs as EN 300 401 codes them | none |
| `FibParser` | `FicParser` with bytes: CRC, queue, FIGs cut out and compared | queue, rest of the FIB, FIGs seen |
| `AudioFrames` | `DabPlusServiceComponentDecoder`: frames and superframes | none: functions on records with the members' values |
| `DynamicLabel`, `Mot`, `PadDecoder` | the decoders of the same names, and slides | none, likewise |
| `PadDelivery` | what the superframe decoder promises the PAD decoder, and what labels and slides shall come of it | PAD decoder, PADs heard, what was shown |
| `Programme` | `AudioFrames` in front of the PAD decoder as one audio programme, behind a transmitter | subchannel bytes, queue, superframe, faults |
| `PacketProofs` | theorems about `PacketData`, and about `PacketLink` on top of those | - |
| `RtcmProofs` | theorems about `RtcmStream` | - |
| `FibParserProofs` | theorems about `FibParser` | - |
| `FicCollectionProofs` | theorems about `FicCollection` | - |
| `NtripProofs` | theorems about `NtripServer` | - |
| `TunerProofs` | theorems about `Tuner` | - |
| `ProgrammeProofs` | theorems about `Programme` and the decoders it is made of | - |
| `ChipProofs` | theorems about `ChipAccess` | - |
| `MC...` | values of the constants for TLC | - |

**PacketData.** One action per way through `packetInput`: `ArriveDirect` (no
FEC), `ArriveData`, `ArriveOther` (padding and FEC packets), `ArriveLastFec`
(the packet that completes a group, with `packetsProcessFec`: overflow,
incomplete, decoded). The loop that sends the buffer again is one action per
turn, `ResendStep`, then `ResendDone`. No packet arrives during the loop: it runs
inside `packetInput`. `PacketDeduplicate` has one disjunct per outcome:
first reference, old, forwarded, plugged. A packet is a record of its number,
its header as it is in the buffer, its header as transmitted, the verdict of
its CRC, its size and the handled flag; payload is left out. Some things in it
are deliberate:

 - The test for a foreign address in `packetDeduplicate` has no effect in the
   model since it has none in a normal build.
 - Packets whose header was damaged are treated as what they look like, by
   every predicate, as in the code.
 - `FecDecode` restores any subset of the damaged packets in front of the first
   FEC packet (`Damaged`), and may put other headers (`JunkHeaders`) into any
   packet from the first FEC packet on (`BehindFec`), because the loop that copies
   corrections back counts 24 bytes for FEC packets, too. It marks all packets as
   handled, decodable or not, as the code does. A packet that is repaired in
   part, or repaired wrongly, is left out.
 - The FEC buffer and the aggregator hold pointers to the same packets. What `FecDecode` does to a packet
   the aggregator finds there (`SharedWith`): it tests for a last mark when a packet comes, and for a first mark
   on its first packet only when the frame ends. A dispatched frame is a copy.
 - `forwarded`, `fate` and `rewritten` (the header was changed while the aggregator held the packet)
   are history: nothing reads them but properties.

**PacketLink** closes the environment. The transmitter follows EN 300 401: data
packets up to the size of a group, then the FEC packets; a continuity index per
address; frames of two and more packets of the own address. The channel damages up
to `MaxDamage` packets of a group, which is within what the RS code repairs, and
loses up to `MaxLoss` in the whole stream. A damaged packet may look like one of another address
(`Confusions`). FEC packets arrive intact or not at all. While the group in the buffer is the one that was
sent (`GroupAsSent`), the decoder restores all of it and nothing is written behind it; after a loss (`gap`, until
the buffer is emptied) it may do whatever `FecDecode` allows. Transmitter and channel
are not in `src/`; they are marked external in the map.

**RtcmStream.** The bytes are real bytes of a smaller base: the code has base
256, the runs use 8, so that carries out of the low length byte happen with
messages of a few bytes. A turn of the loop in `dataFrameInput` is a step (`LostSync`,
`Incomplete`, `FirstFrame`), since the NTRIP server's thread may run between two pushes; the
next data frame waits until it has returned, as both are on the data thread. `Length` is the expression of the code with its operator
precedence. CRC bytes are zero, since nothing checks them. In the code, a message
of fewer than three buffered bytes has its length read from behind the end of the
vector; whatever stands there the length is at least 6, so the outcome is the
same, "incomplete", and the model needs no choice.

**NtripServer.** The thread's position is `loop`, `connect`, `login`, `pop`, one of
the three sends, or `ended`; a system call is a step. `pushRtcm` is two steps: the
test and the push. The caster's side is `up`, `closing` (it has gone, sends still
succeed or fail with another errno), `closed` (EPIPE) or `none`.

**FicCollection.** `Receive` is the parser's thread with one FIG: `parseFig_00` or
`parseFig_01`, the callback of the FIG's type (`Dispatched`), and, when the FIG
repeats, `fig_00_done_cb` or `fig_01_done_cb` (`ParseRepeated`) with everything they
call: a callback that is registered gets the FIGs seen so far at once (`Replay`),
and `checkServiceSanity` drops all callbacks and tells the tuner (`told` counts it
and is history). The ensemble is a record of sets, one per thing that a FIG type
tells; a handler is the set it adds. `Registers` and `Marks` are the two halves
of `fig_00_done_cb`. The queue between the tuner's thread and the parser's is left
out: it only delays FIBs, and the parser's destructor empties it.

A reset takes three steps. `ResetStart` replaces `m_ficPtr`; the assignment destroys
the old parser, which waits for its thread. If that thread is at a FIB (`atFib`), it goes on to the end of it,
one `OldThread` for each FIG, since `processFib` looks at the flag once per FIB: what it registers goes to the
new parser (`early`) and is taken from the old one, whose callback objects it replaces. `ResetEnd` clears the ensemble, registers
the first callbacks and has the tuner change the frequency (`n`).

The transmitter is not in `src/` and marked external. It sends in frames: the types
of rate A (0/1, 0/2, 0/3) whole in each frame, one FIG of each other type in one of
`Slow` frames, in any order within a frame. Reception may begin anywhere (`Lose` is
free until `heard`); later a FIG is lost only up to `MaxLost` times.

**Tuner.** Five threads, each at a place `pc[t]`; what it was called with is in
`arg[t]`. A step of a thread goes from one place to the next; reads and writes of
members in between are one step, except where another thread may see the half
of it: `tuneFrequencySync` is four steps (`Tune`, `ResetBegin`, `ResetEnd`,
`SetFrequency`), `setService` three, and `startServiceScan` is cut at its two joins.
`UsesChip` names the places at which a thread exchanges register accesses. What the
collection does inside is `FicCollection`; here `parser` only goes from empty to fed
to done. `readData` is a command like the others: the code queues it when the queue
is empty, and it is taken at once, so `CommandTurn` goes to it directly.
`SetFrequency` is the end of `setFrequency`, which starts the scan's FIC thread, and the next statement of
`startScanCommand`, which clears `m_startServiceLink` (raontunerinput.cpp:275, :276), in one step. This assumes that no ensemble is
collected between the two, for which the new thread would have to read some frames of 96 ms first; the
parser's thread would otherwise still find the old service and open it.
The client asks for something only when the tuner is quiet (`Quiet`), for a service
only when its ensemble is collected or another one is tuned (`Ready`), and stops only
a service that plays; it does not start the service again that is still linked after it was
stopped or a scan was asked for (`Restarts` would let it); `stopServiceScan` may come at any moment of a scan. The main
program is such a client. What the code does for others is under section 3.

**ChipAccess.** A routine is the sequence of its accesses, in the order of the code:
`Page`, `Set`, `Get`, `Bulk`. Where it looks at what it has read, the outcome is a
parameter. An access is two steps, the request, which the chip executes, and the
answer, which is the next thing that comes out of the endpoint, whoever asked. Values
are kept for the tracked registers: synthesiser, sample rate, oscillator and PLL,
the FIC and MSC memory and the subchannel. The tables of the code are there in full.

**FigDecoder, FigCoding, FibParser.** `FigDecoder` reads, bit by bit, what the
constructors read, with their mistakes; `FigCoding` writes what EN 300 401
says, from an entry's fields. It is external: nothing in `src/` codes FIGs. `FibParser`
puts coded FIGs into FIBs of 32 bytes, and `processFib` cuts them out again. A member
that the code leaves uninitialised has any value of `Junk`.

**AudioFrames.** The bytes of the subchannel come in units: two of them are a frame here,
and each knows where it was sent, whether it arrived, and which header would be
read from it. The fire code fits at the first unit of a superframe, and at others
by chance (`FalseHeaders`). `SynchronizeData` is the loop of `synchronizeData`,
`ProcessData` a turn of `processData`, which counts frames on its own. A CRC fits on
exactly the units sent under it.

**DynamicLabel, Mot, PadDecoder.** Data groups come in cells, a PAD brings some of them
in subfields. `Types` and `Remembered` are what `padDataInput` does with the contents
indicator, and what the next PAD without one is taken for. `LabelStart`
looks at the group before the one that begins; `mem` is the memory of `m_dlsData`
behind its size, which a CRC over a short group reads. In `Mot` the header of an object and its
segments are data groups with numbers.

**PadDelivery** is the abstract specification of `Programme`. It has the PAD decoder, and no units,
frames, superframes, access units or CRCs in front of it: a step hands it some PADs of the station, all
behind those it has had, one after the other (`HearPads`), and that is all that can happen. `Programme`
has the same variables and others, and implements it with the identity as refinement mapping
(`PadsDelivered`). What labels and slides should come of the PADs heard is stated here,
since it depends on nothing else.

**Programme.** A station is a sequence of PADs, one per access unit. A chunk of units arrives
whole, or with units lost, damaged, silenced, or one of them forged, at any of the
places `FaultAt`; reception begins anywhere in the first superframe. The decoder's
thread takes frames from its queue; the next chunk waits until it is empty, which
changes nothing, as the queue only delays: nothing flushes it. History says which PADs were `heard` and what
was `shown`, so the properties can speak of what should have been.

## 3. Runs

| Run | Module, cfg | Shows |
|---|---|---|
| `packet_receiver` | `MCPacketData` | any six packets, of nine kinds, with FIG 0/14 at any moment: no packet twice or out of order (`DeliversInOrder`), none refused is overtaken (`NothingOvertakesPending`), and a dispatched frame begins with a packet marked first and ends with one marked last, though the FEC may have written to them (`FrameWellFormed`) |
| `packet_link` | `MCPacketLink` | as long as no packet is lost every own packet is forwarded by the end of its group (`GroupDelivered`) and dispatched frames are the frames sent (`FramesIntact`); with a loss, too, what waits for the FEC is settled in the end (`PendingResolved`) |
| `packet_shared` | `MCPacketLink`, `MCPacketShared.cfg` | violation: `OthersDropped` |
| `rtcm_stream` | `MCRtcmStream` | messages come out whole and in order however the stream is cut, and with an aligned data frame lost (`MessagesPassedOn`) |
| `rtcm_carry` | `MCRtcmStream`, `MCRtcmCarry.cfg` | violation: `MessagesPassedOn` when the length carries into an odd high part |
| `ntrip_server` | `NtripServer` | whole chunks, nothing to a caster that refused, shutdown returns, the queue drains |
| `fic_collection` | `MCFicCollection` | without losses, with a reset at any moment: a type is done when all of it was seen (`DoneMeansSeen`), the tuner is told once (`ToldOnce`), of a complete ensemble (`ToldComplete`), and it is told in the end (`CollectionEnds`) |
| `fig_decode` | `MCFibParser` | each FIG, behind and before any other, is held as it was meant, but for the places where the code misreads it (`ReadAsMeant`); none is skipped (`AllRead`); a repeated one is told to be (`RepeatRecognized`) |
| `tuner` | `MCTuner` | the service asked for last is what plays once all is quiet (`SettledPlays`), and it plays in the end (`ServiceStarts`); a scan ends (`ScanEnds`), has been at every channel (`ScanCovers`), and has the chip for itself (`ScanExclusive`) |
| `registers` | `MCChipAccess` | after any three calls the registers are those of the channel (`TunedRegisters`) and of reception (`ReceptionSetUp`), and every interrupt is served (`Served`) |
| `chip_shared` | `MCChipAccess`, `MCChipShared.cfg` | violation: `OwnAnswer` when the parser's thread opens a subchannel |
| `programme` | `MCProgramme` | two undisturbed superframes regain the place in the stream (`SyncRegained`), two undisturbed groups the label (`LabelsRight`); an object heard from its beginning is shown (`SlidesRight`), and what is shown is a header and the segments of its transport id, without a gap and as long as it says, which is the whole object if that has its id for itself (`SlidesWhole`); a data group is longer than its length only by the padding of its own beginning (`RoomLeft`); the PAD decoder gets PADs in order, none twice (`PadsDelivered`) |

**Bounds.** Groups have 2 or 3 data and 2 FEC packets instead of 94 and 9: enough
for a plug in front and at the end of a group, for two packets
refused in one group, and for overflow and shortage. Six packets of the open
environment hold a reference, a group that plugs and is sent again, and a packet
after it; two groups behind the transmitter hold everything a group leaves to the
next: plug, last number, buffered packets of a group without end. Two packets of a
group may be damaged, and one of the stream be lost. Four messages
in a stream cover a message spread over several data frames and several in one.
Four frames and four troubles give the NTRIP thread every trouble in every
position, and a second connection behind each. `fic_collection` has a
multiplex without and one with a packet component, so both branches after FIG 0/2,
and a reset may lead from either to either; two FIGs 0/2 make a cycle that
can be cut, and with two frames between FIGs of rate B every other type may be
done before them or after. A reset can come before, in and after a collection,
and the collection behind it runs to its end. What a reset leaves to the next
collection is `early` and the flags; a second reset clears both again.

`fig_decode` has 47 FIGs of all classes, chosen for the branches of the decoders: long
and short forms, both identifier lengths, lists of none, one and two entries, the
largest values of each field. Two of them, in one FIB or in two, give each FIG every
other one as its neighbour, and every repetition.
`tuner` has three services, two of them on one channel, so changes within a
channel and between channels, and four channels: two with an ensemble, one of them
in front of an N frequency, one with half a lock in front, and an N frequency behind
nothing. Three requests give every order of start, stop, scan and stop of the scan.
`registers` tunes nine channels: both ends, each type of clock, the three N frequencies
and their neighbours; three calls are an initialisation, a tuning and another
routine, or two tunings in a row.
`programme` has two stations, one with labels in one, two and three segments, MOT
objects in between and a command, in variable X-PAD, and one with DL Plus tags in short X-PAD. One of the objects
replaces another under its transport id, and one data group begins in a field longer than itself. Two faults
are a fault and another one while the decoder recovers; a superframe has ten units and a chunk nine, so the
places of a chunk where faults begin go through all those of a superframe, wherever reception begins. The margins (`SuperFrameMargin`,
`LabelMargin`) are the smallest that hold. The theorems of section 4 do not
depend on the bounds.

**Fairness.** `PacketLink` has weak fairness of its next-state relation: the
transmitter goes on sending, and the thread that reads it goes on running, since it
polls in a loop. `NtripServer` has weak fairness of the thread and of a push that
has begun: both are loops without locks held elsewhere; the queue's mutex is only
held for a few instructions. No fairness is assumed for shutdown, for new frames or
for the caster. That a trouble happens only `MaxTrouble` times stands for a caster
that is reachable again in the end, as `QueueDrains` needs, and that reads what it
is sent: `send` has no timeout, so `ShutdownCompletes` would fail with a caster
that stops reading, and so does the code. `FicCollection` assumes that infinitely often a
FIG is received, the old thread moves or a reset ends (`Progress`). One of these is
enabled in every state, so this is weak fairness; the transmitter does not stop,
and neither thread waits for anything but the other one in a reset.
`Tuner` has weak fairness of each thread, which polls its queue or loops, and of
`initialize`, which the main program calls until it succeeds; and strong fairness of
reading FIC data: a chip that is locked to an ensemble has such an interrupt in
every frame, whatever else is read in between. Without it a scan would wait for
ever at a channel that is locked but silent, and so does the code. `ChipAccess` has weak fairness of each
thread and of `readData`, which is called whenever there is no command.

**Deadlock** is checked for `FicCollection`, whose transmitter never stops, for `Tuner`,
whose threads wait for each other in joins, and for `ChipAccess`. It is not for
the others: they end when their bound is reached, or when the server is shut down.

**What the violations show** (`findings` in `PROJECT.json`):
 1. `OthersDropped`: the return for foreign addresses is compiled only with
    `DEBUG_PKTDEDUPE`, so packets of another component take part in the continuity
    check of this one.
 2. `MessagesPassedOn` with lengths that carry: `RtcmFrame::length` adds before it
    combines the bytes, and a carry into an odd high part is lost.
 3. `OwnAnswer`: `ensembleCollectFinished` runs on the parser's thread and sets up the
    subchannel there, while the command thread reads data. Requests and answers are
    separate transfers without a lock, so one takes the answer of the other.

### What the models showed besides

*Packets and the FEC.*
 - The comment in `packetsProcessFec` (dabdatafec.cpp:83) guarantees that all packets arrive
   twice. If the last FEC packet of a group is lost, the next group
   overflows the buffer, which is emptied without sending anything again.
 - `GroupDelivered` needs the assumption `OwnReference`. `packetDeduplicate` takes
   its first reference from any packet whose address is not 0 or 1022, with its CRC
   unchecked. A damaged padding packet can become the reference, and then an own
   packet that looks like padding before it is never missed.
 - The continuity index is modulo 4. Four own packets that all look like padding leave no gap:
   the packet behind them is forwarded, and when the FEC has repaired the four they are too old.
   With four damaged packets in a group of seven (`MaxDamage` = 4, `FecDataSize` = 7) TLC finds
   `GroupDelivered` violated. `packet_link` stays below that, and `OneComponent` (section 4) says so.
 - The packet with number 0 leaves `seq_last` at 0, so the first two packets are
   dropped, not one.
 - A damaged FEC packet whose address is no longer 1022 counts as data, and the whole
   group is thrown away as too large. `PacketLink` keeps FEC packets intact for
   that reason; `PacketData` has it.
 - If a loss leaves data packets behind FEC packets in the buffer, corrections go astray into them
   (dabdatafec.cpp:146), also into those the aggregator holds. A packet that gets a first mark this way heads a frame that is
   dispatched without its beginning; a frame whose first packet loses its mark is dropped.
   `FrameWellFormed` cannot say more than that the marks fit at the moment of dispatch and that
   nothing but such writing disturbs those between.
 - RTCM messages that do not start with a data frame cannot be found again after a
   lost data frame, except by chance.
 - `pushRtcm` tests and pushes without a lock, and the queue is not cleared when the
   connection drops, so a frame is queued while there is no connection, although
   ntripserver.h:74 says "Dont queue if not connected".

*The collection of the ensemble.*
 - Any repeated FIG counts as the end of its type's cycle, so a FIG that was lost
   in the first cycle is not waited for (ficparser.cpp:118). `DoneMeansSeen` and `CollectionEnds` fail with
   one FIG lost: if it is the 0/2 of the packet mode
   service, FIG 0/3 is never asked for and the ensemble is never found complete,
   although the FIG itself comes again and again.
 - The end of the collection does not wait for FIG 0/14 and drops its
   callback (dabensemble.cpp:708). Whether the FEC is used depends on the order in which types come
   and on where reception began.
 - After a reset `m_ensembleCollectFinished` may be set while the new ensemble
   is empty: the old parser's thread sets it after `reset` cleared it.
 - Completeness rests on the transmitter's rates. Types of rate A are done within two
   frames, those of rate B later; with cycles of arbitrary length the labels, say,
   could repeat before other services are known.
 - The user applications (FIG 0/13) of multiplexes without packet components are not
   waited for; `ToldComplete` does not ask for them.

*FIGs* (`Misread` and `KeepLast` are the exact list).
 - FIG 0/1: the bit rate of EEP-B is cast to 8 bits; 256 kbit/s becomes 0.
 - FIG 0/10: the short form leaves seconds and milliseconds uninitialised.
 - FIG 0/13 of a data service: three members are uninitialised and are compared; a repeated one
   may not be recognised, and the cycle of 0/13 then does not end.
 - FIG 0/21: `switch` without `break`, so "adjacent" always ends as "not mode one"; AM
   frequencies cast to 8 bits; identifiers or-ed together; a list is pushed once for every
   frequency; an unknown R&M never advances the iterator.
 - FIG 1/4: 32-bit identifiers are cast to 8 bits. FIG 1/6 is never parsed. The flags
   of a short label count the second byte from 7 (fig_01.h:72).
 - 0/0, 0/5, 0/9, 0/10 and FIG 1 keep their last entry only. Comparisons ignore
   the flags of the header.
 - `*figIter++ << 8 | *figIter++` leaves the order open; the model takes it from left to right.

*The collection of an ensemble.*
 - `ToldComplete` needs rate B to be the slower one (`Slow` of 2 and more). If all types came in every
   frame, FIG 0/8 could end its cycle before 0/2 does, the labels be asked for before all
   services are known, and one of them be missing at the end.
 - It does not survive a second reset. A reset that catches the parser's thread at the end of FIG 0/8's cycle
   registers the callbacks of the last stage at the new parser (dabensemble.cpp:668). There labels and user applications are
   taken for seen before their services are known. If a second reset catches the thread at the same point
   again, all types are done, and the tuner is told of an ensemble without its user applications. Without that second
   reset FIG 0/8 registers the callbacks once more, and what was missed is given to them.

*The tuner, for a client that does not wait.*
 - A service asked for while its ensemble is collected is forgotten
   (`startServiceSync` has no branch for it), and the one asked for before is opened.
 - Starting a service again that was stopped does nothing: `m_startServiceLink` still
   names it (raontunerinput.cpp:148). If the stop comes while the ensemble is collected again, behind a
   scan, the parser's thread may even open the subchannel behind it: the service is on in the chip, but
   `m_currentSubchanId` is 0xFF and its data goes nowhere, and no start of this service mends that. This came out
   when the proof of `SettledPlays` was tried; the run has too few requests for it.
 - `stopService` before the service is open closes subchannel 0xFF, whose upper bit enables it.
 - `startServiceScan` at the very end of a scan leaves the command thread running in the
   new one.
 - With `m_ensembleCollectFinished` stale after a reset, the command thread and the
   parser's thread may be in `setService` at once.
 - `scanNext` is pushed at every turn of the FIC thread once the wait is over, and by the
   collection: then a channel is skipped, or a late one tunes after the end of the scan.
   `ScanCovers` excepts scans in which this happened (`surplus`).
 - A clock that does not lock leaves `setFrequency` without a word: the old channel
   stays tuned.
 - `stopScan` tunes 0xFFFFFFFF (:287), which `setFrequency` turns into an index far
   behind its tables.
 - The destructor does not join the FIC thread of a scan.

*The chip.*
 - PLL register 0x25 gets the number shifted by 5 (:987), between 0x24, which has bits 14 to 21, and
   0x26, which has bits 0 to 5: bit 13 is nowhere and bit 5 twice. `PllBytes` is as the code.
 - `openSubChannel` clears all bits but bit 2 of the interrupt register, where the header
   (raontunerinput.h:264) has bit 2 for MSC1.
 - A read that times out (usb.hpp:83) leaves its answer in the endpoint, and every later one is
   one behind. The model has no timeouts.

*Labels and slides.*
 - After a wrong CRC or segment number the label decoder returns without storing the group that
   begins (dynamiclabeldecoder.cpp:63, :86, :106), so that one is lost, too; the toggle bit
   is never compared. One lost PAD can join the beginning of one label to the end of another.
   That is why `LabelsRight` asks for two undisturbed groups before a label.
 - After a DL Plus command, labels without one are never shown again. The stations here
   have tags always or never.
 - The header of an object is not replaced (motdecoder.cpp:138): after a lost last segment the next
   transmission of the same object is thrown away, and only the one behind it is shown. So
   `SlidesRight` asks that the transmission before was heard, too.
 - A beginning in a subfield that is longer than its data group, as when a short group is padded to one of the
   fixed subfield sizes, is taken whole (paddecoder.cpp:147). The CRC is then looked for behind the padding and
   the group is lost. If a continuation follows, what remains (:139) is negative, and the insertion of a range
   that ends before it begins is undefined: libstdc++ throws and the program ends, libc++ appends nothing.
   The model goes on with the latter. `RoomLeft` says that there is no other way to get there: a length comes in the same PAD as the start of its
   group, and access units have a CRC. In an MPEG layer II programme, whose PAD has none, a start without its
   length does it as well.
 - Nothing tells two transmissions of an object apart: a slide may join the first segment of one to the second
   of the next. That is harmless while the object is the same. If another object is sent under the transport id,
   and the body of the first one was lost behind its header, `insert` keeps that header and the slide is
   the old header with the new body, if that is as long. `SlidesWhole` has both.
 - A short X-PAD without a contents indicator after a continuation is taken for type 4 and
   ignored, so a group that is interrupted is lost. The station does not interrupt groups there.
 - The padding of a command is removed with trailing zeros of its CRC: one in 256 commands is lost.
 - Damage to the first frame of a superframe that the RS code could repair still loses the
   superframe, as the fire code is looked at first.

## 4. Proofs

`PacketProofs` proves about `PacketData`, for every address, set of receptions,
set of junk headers, group size, counter of the last FEC packet and stream length:

| Theorem | States |
|---|---|
| `Invariance` | `Spec => []IInv` |
| `TypeCorrect` | `Spec => []TypeOK` |
| `PendingSafe` | `Spec => []NothingOvertakesPending` |
| `FramesWellFormed` | `Spec => []FrameWellFormed` |
| `Refinement` | `Spec => DeliversInOrder`, that is, `PacketData` implements `OrderedDelivery` |

The assumptions are those `PacketData` states of its constants (`AddressAssumption`
to `BoundAssumption`); TLC evaluates them in every run. What the FEC writes to packets the aggregator holds
is part of it: no assumption says that the decoder's corrections go where they should.

The argument: what was forwarded is below `seq_last` once that is set
(`ForwardedInv`), and only packets above it are forwarded. That is not inductive
by itself, since the packets the FEC sends again come from a buffer:
`BufferInv` says that the buffer is in the order of reception, behind nothing that
was received later, and that the loop meets only packets marked as handled. A
handled packet is never refused, so during the loop nothing becomes pending, and
what is pending lies ahead of the loop (`NothingOvertakesPending`): it is above
`seq_last` because nothing is forwarded on arrival while the plug is set.
`IdleWithoutFec` covers the moment FIG 0/14 switches the FEC on: the buffer is
empty and there is no reference, so the packets forwarded directly before are
older than all that follow. `FateInv` says that numbers not given yet have no
fate. `AggregatorInv` relates the aggregator's packets to what was forwarded and
allows other marks than that of a middle packet only on the first one and on those that were written to (`rewritten`). The
first mark itself is tested when the last packet arrives, on the packet as it is then, and so `FrameWellFormed`
follows although the aggregator's packets change under its hands. Since a dispatched frame is a copy, nothing changes it any more.

One lemma per action shows that it keeps `IInv`; `DedupStep` and
`FrameAggregateStep` collect what their callers need to know of the deduplication and
the aggregator, `StoreStep` and `LoopStarts` what the FEC buffer does.

The same module proves about `PacketLink`, for every group size, number of FEC packets and of groups,
and any bound on loss:

| Theorem | States |
|---|---|
| `LinkReceiver` | `LinkSpec => [](TypeOK /\ NothingOvertakesPending /\ FrameWellFormed)` |
| `LinkRefinement` | `LinkSpec => DeliversInOrder` |
| `Delivered` | `OneComponent => (LinkSpec => []GroupDelivered)` |
| `FramesAsSent` | `OneComponent => (LinkSpec => []FramesIntact)` |

The first two carry the theorems about the receiver over to the stream a transmitter sends: its steps are
receptions, and the lemmas about `PacketData` are about a reception and not about who sent it. With losses,
corrections may go astray into packets the aggregator holds, and the first theorem covers that. The
other two say that the stream is put together again. `OneComponent` names what they need:

 - no other address in the subchannel. With one, packets of others take part in the continuity check, which
   is the finding of `packet_shared`;
 - FEC packets keep their address, since a group with one less is thrown away;
 - at most three damaged packets in a group, if damage can make an own packet look like padding:
   the continuity counter has two bits and cannot tell four hidden packets from none.

The bounds of `packet_link` satisfy it. Neither property is inductive. The invariant (`LinkInv`) holds as long as
nothing was lost and has six parts. `GroupInv`: the buffer is what was received last, one by one, data before
FEC, so that the group is whole when its last FEC packet comes and the decoder's result is what was sent.
`NumberInv`: own packets are numbered as they are sent, and the transmitter's counter is their number modulo 4. `WaitInv`: an own
packet is not newer than `seq_last`, or the loop over the buffer has yet to come to it. `ReferenceInv` is the
heart: while the stream is not plugged, the reference is behind the last own packet by the packets hidden
since, at most three, so equality modulo 4 is equality (`Quarters`, `NoneVanishes`), and a packet that
passes the check is the very next one. `FrameInv` draws the conclusion for the aggregator, which holds
the last packets forwarded without a gap; `DeliveryInv` draws it for the packets: each is
forwarded, or ahead of the loop and still new enough to be forwarded there, once a reference exists. The lemmas
are one for what each step does to the buffer (`DataSent`, `FecSent`, `LastFecSent`) and one for each way
through `packetDeduplicate` (`StoredStep`, `WaitingStep`, `InitializeStep`, `ForwardStep`), and the loop
(`ResendCases`, `LoopStep`, `LoopEnd`). That `DataSize` adds up to the number of packets when each is one unit
(`DataSizeCounts`) is a statement about a recursive function; it is proved from the least counterexample (`Least`), which
needs the well-foundedness of `<` and no induction over an operator.

`FicCollectionProofs` proves `CollectDoneOnce`, `Spec => []ToldOnce`, for all
multiplexes, rates, losses and resets, under the assumptions of `FicCollection`. `ToldOnce`
alone is not inductive. The invariant (`Silent`) adds that once the tuner was told
there is no callback left at the parser in use; so no repeated FIG reaches `fig_00_done_cb` again until a reset registers new
callbacks and the count starts anew. `ParseKeepsOnce` is the lemma about a FIG, shared by
`Receive` and `OldThread`.

The module proves four more things about `FicCollection`:

| Theorem | States |
|---|---|
| `CollectsOnAir` | `Spec => []TypeOK` |
| `DoneIsWhole` | `MaxLost = 0 => (Spec => []DoneMeansSeen)` |
| `CollectsAllAtWork` | with `Slow >= 2`, `MaxLost = 0`, `WellDescribed`: `Spec => ToldAtWork` |
| `CollectsAll` | with `MaxTunes <= 1` besides: `Spec => ToldComplete` |

The first one rests on where the transmitter is (`AirInv`: every FIG sent or still due is one of its
type's cycle) and on what a handler adds (`ApplyKeeps`); `FecOfPackets` is where the assumption that no
stream shares its subchannel is needed. For the second one the invariant says what the parser has
seen of a type: nothing, the whole cycle, or an arc of it that ends at the FIG sent last (`ArcInv`).
A FIG that repeats is the one the arc began with (`RepeatEnds`), so the cycle is whole then. A loss
breaks the arc, which is why the theorem has none. The other half is `ServicesInv`: once FIG 0/2 was
seen as a whole, all services are known, so that "no packet component known" means that there is
none, and the types about them may be marked without having been seen. The old thread that a reset joins goes on with
the FIGs of its FIB as they were sent, so the arcs hold there, too (`CycleInv`), and one lemma about a FIG
(`Handle`) serves both threads.

The last two say that nothing is missing when the tuner is told: `CollectsAllAtWork` after any number of
resets, if it is told outside of one, and `CollectsAll` in all cases, up to one reset. No loss is assumed for
the same reason as above; section 3 shows what happens with rate B as fast as rate A, and with a second
reset. `WellDescribed` is about the multiplex: it has an audio
component, its labels are those of its services, and its user applications belong to components that FIG 0/8
numbers. The first part is there because `fig_00_08` takes nothing until an audio component is known.

The invariant (`ToldInv`) follows the collection from stage to stage. The labels are asked for when FIG 0/8
has repeated, and what was seen of the types the last stage asks for is handed over then; so from that moment on
nothing seen of labels and applications is missing (`StageInv`, `LastStage`), if all services and all component
numbers are known by then. For the services that is a matter of pace: between the first FIG 0/8 and the second lies a frame with
the whole of FIG 0/2 (`OutrunInv`, from `FrameInv`, which says what of a frame was sent). The component numbers
are the hard part. The first FIG 0/8 may come before the services and is then taken in vain, though the parser
remembers it; it is the only such FIG (`NumberedInv`), and it is also the one whose repetition ends the
cycle (`ArcRepeats`), when it is taken again. In a reset the stages do not hold for what the old thread
handles. `FirstLife` is what is left of them until the first reset has ended: the last stage begins with the end of
FIG 0/8's cycle, and the reset takes no callback of it away while the collection goes on (`LastBegun`).
After it the new parser may have callbacks of the old one's last stage.

`NtripProofs` proves, for any number of frames, connections and troubles:

| Theorem | States |
|---|---|
| `RefusedStaysUnsent` | `Spec => []RefusedGetsNothing` |
| `ChunksStayWhole` | `Spec => []WholeChunks` |

For the first one the invariant adds that connections are numbered in turn (`PastOnly`), that
nothing was sent on a connection whose login is still to come, and that the caster of a refused one is
not there any more (`LoginFirst`). The second one is about what is next to each other on the wire,
so its invariant (`ChunkInv`) says how the wire and the queue meet: frames are queued in the order of their numbers
(`FramesInOrder`), the frame in the thread's hand is older than all of them and younger than what is on the wire
(`FrameInHand`, `WireInOrder`), and the last part on the wire is the one before the part that comes next, if the
connection is still the same (`LastPart`). A frame that lost its connection is never in hand again, so none
is begun twice.

`RtcmProofs` proves about `RtcmStream`, for every base, all payloads and every way of cutting the stream:

| Theorem | States |
|---|---|
| `PassedOnWhole` | `NoCarry => (Spec => []MessagesPassedOn)` |

`NoCarry` says of each payload that its length does not meet the carry that `RtcmFrame::length` loses;
`rtcm_carry` shows that without it the property is false. The property alone is not inductive: it
does not say what is in the buffer. The invariant (`RtcmInv`) does: the buffer, and behind it what the
sender holds back, are the messages begun and not pushed, from a first byte on (`Cut`). `Cut` names the
places where the messages end, by a function, and so needs no recursion; a new message joins at its end
(`CutGrow`), and the first one can be taken away (`CutFirst`). From that the buffer begins with a preamble
(`SyncKept`) whatever the payloads look like, and the length read is the one of the message (`LengthRead`)
as soon as six bytes are there.

`TunerProofs` proves about `Tuner`, for all channels, services, bounds and interleavings of the
five threads, under `TunerAssumption`:

| Theorem | States |
|---|---|
| `ScanHasChip` | `Spec => []ScanExclusive` |
| `TunerTypes` | `Spec => []TypeOK` |
| `ServicePlays` | `~Restarts => (Spec => []SettledPlays)` |
| `ScanCoversAll` | `Spec => ScanCovers` |

`ScanHasChip`: there is no lock to argue from. The
invariant follows the chain in which the threads hand the chip on and says for each stage who is not
there: no command thread from `startServiceScan` on (`MainInv`, `CommandInv`), one `startScan` in the queue and
no scan before it is taken (`StartInv`), no FIC thread behind its join and nothing left for the parser's thread
behind that one (`TuneInv`), and none that outlives the end of the scan (`ScanInv`). `LinkInv` is the part about data: a
scan forgets the service with its first tuning, so that a collection that ends during it opens no
subchannel on the parser's thread.

`ServicePlays`: the invariant (`ServiceInv`) says where a request is. It is a `start` in the queue or in
the command thread's hand, alone there (`Starting`), or it has become the link (`Started`), and then each way to the end
is accounted for: a tuning is pending; or a thread is about to open the subchannel, with the service's number in
its hand (`OpensRightly`); or the parser's thread has yet to report; or the service plays. `LinkedInv` is why a pending
tuning is always one to the linked service's channel, so that the parser's thread, which finds the link
and not the request, opens what was asked for. `CollectInv` is why `startServiceSync` may rely on `m_ensembleCollectFinished`:
once the ensemble is collected it is set unless a tuning is pending. `TypeInv` and `JoinInv` say what the threads were called
with and who stops the command thread. `~Restarts` is the assumption on the client of section 2; without it
the property is false, as the code does nothing for such a request.

`ScanCoversAll`: a scan has been at every channel below the present one (`CoverInv`). `NextChannel` may step over a
channel only if the flag of the collection is about the channel the scan thread counts from. The flag is cleared
before the old parser's thread is joined, and that thread may set it again in between; then its own `scanNext`
comes while the scan thread is tuning, which is what `surplus` records.

`ChipProofs` proves about `ChipAccess`, for all channels and subchannels, any number of calls in any
order, and whatever the interrupts do:

| Theorem | States |
|---|---|
| `ChipTypes` | `Spec => []TypeOK` |
| `ReceptionStays` | `~Sharing => (Spec => []ReceptionSetUp)` |
| `RowsOfTheChannel` | `Spec => []TunedRegisters` |
| `AnswersAreOwn` | `~Sharing => (Spec => OwnAnswer)` |

A write goes to the page that some earlier access has selected, so that nothing can be said of an
access by itself. `Reaches(p, m, s, q, n)` says that the accesses `s` take the chip from page `p` and
registers `m` to page `q` and registers `n`; it is the state after each access, written down as two functions
on `0..Len(s)`, and so needs no recursion. Sequences are followed one behind the other
(`ReachesJoin`), and executing the first access leaves what the rest does (`ReachesStep`). Every routine is
followed once, from any page and any registers: most pass all tracked registers by (`Passes`), those of the
initialisation spare the registers of the subchannels (`Spares`), the ones that run between two tunings
leave the FIC and the MSC memory set up (`Steady`), and a tuning writes its rows (`TunedTo`), with the
bytes of the PLL and the 41 rows computed by the prover (`Tables`).

There are two invariants. `ChipInv` is for threads that do not share the chip: at most one has accesses left,
these lead to registers that are as the history variables say (`Running`), and the endpoint holds the answer it
waits for and nothing else (`Waiting`). Without `~Sharing` both properties are false: `chip_shared` shows it for
`OwnAnswer`, and the memory and subchannel registers go wrong since a page selected by one thread is used by
the other. The code has no lock that would give the assumption; that no scan shares the chip is `ScanHasChip`.
`RowsInv` needs no such assumption, so the registers of the tuning survive the sharing: either the command thread tunes alone
(`TuningAlone`; the parser's thread is joined or not there), or the rows are written and everything that is
left to do is `Harmless`: writes to six numbers none of which belongs to the tuning on any page.

`ProgrammeProofs` proves about `Programme`, for every station, any sizes of frames, chunks and
superframes, any false headers, and any number of faults:

| Theorem | States |
|---|---|
| `SlidesAreWhole` | `Spec => []SlidesWhole` |
| `RoomStays` | `Spec => []RoomLeft` |
| `SyncIsRegained` | `Spec => []SyncRegained` |
| `PadsInOrder` | `Spec => PadsDelivered`, that is, `Programme` implements `PadDelivery` |

What they assume of the transmitter is in `Programme` and `PadDelivery`. `StationAssumption`: the first field of a MOT data group
stands behind its length in the same PAD, as EN 300 401 asks, however long the field is; and no short X-PAD carries the application type one
below that of a MOT data group's beginning, since `padDataInput` continues a short X-PAD with the type plus one,
and would take the continuation for a data group without a length. `ObjectAssumption`: a body is as long as its
header says; several objects may have one transport id. `HeaderAssumption`: each AU the header of the
superframes names ends behind its beginning. `MarginAssumption`: two undisturbed superframes come before one that
counts. The first brings the scan to the beginning of a superframe, the second brings the thread, which counts for
itself and began somewhere, to the first of five frames; `SyncRegained` is false with one.

Every step of the decoder is a loop: over the units in the buffer (`SynchronizeData`), the access units of a
superframe (`Handled`), the fields of a PAD (`PadDataInput`), the segments of a body (`BodySize`). Each is a
recursive function on `0..n`; it exists and what its steps preserve holds at its end, both by `Ascends`, which is
the induction the proofs need, over a set and not an operator. The invariant (`ProgrammeInv`) has a part
for each stage. Behind the channel there are only units of the superframes sent (`SyncOk`, `Frames`), with whatever
header, so an access unit is cut out of a superframe within its bounds (`SuperOk`, `AccessUnitsWithin`), also if
the header was read by chance; and one whose CRC fits has a place in the station (`PlaceOfStation`). The PAD
decoder (`PadOk`) remembers no application whose continuation would be a beginning, and within a
PAD a length is always behind an empty group (`FieldsKeep`), so a group that is too long is a beginning as it was
sent, with its length (`RoomOk`), and one of the station's (`Rooms`). What is collected under a transport id is its segments from the first
one on, without a gap (`EntryOk`), and `motDataInput` dispatches them when their sizes add up to the header's
(`CompleteIsWhole`). If the id belongs to one object, they are the beginning of its body, and sizes that add up
can only be those of the whole of it (`BodySizeTells`, `AloneIsObject`).

`SyncRegained` needs to know where in the stream each part of the decoder is (`RegainInv`). Its part `Placed` goes along
the way of a unit, and says of superframes that arrived as they were sent, the set `hit` being the others:

 - the units that wait for the scan are in order, each followed by the next of its superframe, or, behind the
   last, by one of a later superframe with none but disturbed ones in between; so is the unit the transmitter
   sends next (`Joined`);
 - the scan, having cut `count` frames out of a superframe, is at most that many frames into an undisturbed one, and
   exactly there if the one before is undisturbed too (`Aligned`). The step is in `Crossing`: a frame that begins
   in one superframe and ends in the next, undisturbed one can only be its fifth;
 - a frame in the queue that belongs to a superframe the scan was right for (`Calm`) is one of its five, and the next
   frame begins where it ends (`FramesAdjacent`);
 - the thread, when it comes to frame `k` of such a superframe, has none or at least `k - 1` in its own count, and if
   the superframe before is such a one too, it holds these `k - 1` frames and nothing else (`Counted`): whatever
   count it began the first with, it had nothing left at its end;
 - what was to be heard of the superframes behind it was heard (`HeardUpTo`).

The channel keeps it: units that are lost, damaged or forged belong to superframes that are in `hit` from then on, and
what remains before and behind them is joined again (`Replacing`, `FollowsBeyond`). That an undisturbed superframe
which the thread holds completely is heard follows from its access units: their fields are where the header says
(`WholeFits`), so each CRC fits and each finds its place in the station (`WholeHeard`).

`PadsDelivered` has two parts: that the PADs of a step lie behind all heard before, and that the PAD decoder
comes out of the step as if it had got just these. The first needs an invariant (`OrderInv`) of its own, since it
is to hold with any faults, where `RegainInv` says nothing. A unit that arrived as it was sent has a place in
all that was sent (`Pos`). Along the way of the units, that is in the superframe kept, in each frame of the queue and in the
bytes the scan has not cut, such places rise, and all of each are below all of the next (`InOrder`): losses leave gaps,
the scan skips units and the thread throws frames away, but nothing turns round. All of them are places from some `x` on, and no PAD
of an access unit that begins at `x` or behind has been heard (`Behind`). A superframe that was heard stays in
`m_currentSuperFrame` until another one begins, so what is kept counts only while the decoder is in step (`Kept`).
Between its first and its last access unit the loop of `processData` moves `x` on (`HandOver`): a CRC fits on
the units of one access unit only, and the first of these, which arrived as it was sent, is at `x` or behind, so its PAD
is a new one; `x` moves behind that unit. A broken access unit, or one cut out with a false header, is not heard and `x` stays.
The second part is `RunExtends`: what the PAD decoder makes of a set of PADs and one behind them all is what it makes of
that one after the others, so the loop over access units and the one over PADs end with the same decoder.

`FibParserProofs` proves about `FibParser`, for any FIGs of the types 0 to 6 that fit into a FIB, any number of
them and of FIBs, and any contents of uninitialised memory:

| Theorem | States |
|---|---|
| `NoneLeftOut` | `Spec => []AllRead` |
| `AsMeantInCompany` | `AloneAsMeant` implies `Spec => []ReadAsMeant` |
| `RepeatsAreTold` | `AloneTold` implies `Spec => []RepeatRecognized` |

A FIG has no mark of its own in a FIB: where one begins follows from the lengths of all before it, and one wrong step
reads the rest of the FIB as something else. `Upto(figs, i)` is the bytes of the first `i` FIGs of a FIB,
`At(figs, i)` the bytes behind them. In front of a FIG these begin with its type and length, and are `At(figs, i+1)` behind
its last byte (`AtFig`); behind the last FIG they are the CRC alone or begin with an end marker, which
`processFib` takes for no FIG (`AtEnd`). So the FIB in work always stands at some `At(figs, i)`, and the queue holds the rest of
what was sent, FIB by FIB (`PlaceInv`); and the FIGs read are the first ones sent, each held as one of its
`Readings`, which its own bytes decide and what memory held, and what is kept for the comparison is just what was
read (`ReadRight`).

With that, what is true of a FIG alone is true of it in any company, and the two hypotheses speak of FIGs alone:
`AloneAsMeant`, that a FIG is held as it was meant or is one of the misread; and `AloneTold`, that two FIGs
of a kind come to be held as the same exactly if their entries are. These are facts about the bits of the 26 FIG classes
and the values in particular FIGs, which is TLC's part: `fig_decode` shows both for its FIGs, since it sends each of
them alone and each two of them one behind the other. The theorems make of that all longer broadcasts of the same FIGs.
`SenderAssumption` is what EN 300 401 asks of a FIG: it has a first byte with its extension, and fits into a FIB.

Only model-checked: `PendingResolved` of `PacketLink`, which is liveness; that each FIG alone is decoded right, which
is a matter of bits; and `LabelsRight` and `SlidesRight` of `Programme`, which say of a state what all PADs since some groups ago
must have led to: `PadsInOrder` brings them to statements about
`PadDelivery` alone, but what a whole label or object is would have to be assumed of a station first. Liveness under fairness stays with TLC altogether.

## 5. Not modelled

 - Bytes and arithmetic of the FEC table, the CRCs, the RS decoders: the models take
   their outcome as data. The table is in third-party hands, and its arithmetic is
   far too large for TLC.
 - `packetSynchronize` before a packet is cut out: a byte scan whose only outcome for the rest is
   which packets are lost, and `PacketData` loses any.
 - `m_seqno` as a 32 bit number: 2^31 packets are far beyond a run of the program's
   life at a DAB data rate of some hundred packets a second, about half a year; the wrap
   is out of the bounds.
 - The data group header of a data frame, which shifts the user data by 2 or 4 bytes.
 - The part of `DabEnsemble` no collection waits for: announcements, time, CIF count, programme
   types, and texts of labels.
 - `RaonTunerInput`'s destructor, USB transfers that time out, the antenna level's
   arithmetic (its accesses are in `ChipAccess`).
 - The callback dispatcher: its race is one on a `std::vector`, which has no outcomes to choose from.
 - MPEG layer II frames, audio output, character sets, tables of names, logging, third-party code.
 - `wradio.hpp` and `mscdatagroupdecoder.h` are not used by the program; neither are
   `flushBufferedData` and `PadDecoder::reset`.

## 6. Order of work, and what could follow

The modules were written in the order of section 2: the way of a packet first, with its proofs, then
the collection of the ensemble, then the tuner, its chip and the FIG decoders, and the audio
programme last. What could follow, most useful first:

 1. `PacketSync`: the byte framing of `packetSynchronize` with packets of a few bytes, in front
    of `PacketData`.
 2. Proofs of `LabelsRight` and `SlidesRight` about `PadDelivery`, with what a decoder holds after each PAD of a group that was heard.
 3. The data race of the callback dispatcher, at the level of the vector's pointers.
 4. MPEG layer II in front of `PadDecoder`.
