-------------------------------- MODULE Tuner --------------------------------
(***************************************************************************)
(* RaonTunerInput: services are started and stopped by commands on a       *)
(* queue, which the command thread executes; while the queue is empty the  *)
(* thread reads FIC and MSC data from the chip.  The FIC data goes to the  *)
(* parser, whose thread reports when the ensemble is collected; the        *)
(* service asked for is then opened, on the parser's thread.  For a scan   *)
(* the command thread is stopped; a scan thread tunes one channel after    *)
(* the other and a FIC thread reads until the ensemble is collected or     *)
(* enough time has passed.                                                 *)
(*                                                                         *)
(* A thread is at a place pc[t]; the places of UsesChip are those at which *)
(* it exchanges register accesses with the chip (module ChipAccess).       *)
(* A command's reads and writes of members between two such places are one *)
(* step.  What the ensemble collection does inside is module FicCollection.*)
(***************************************************************************)
EXTENDS Integers, Sequences, FiniteSets

CONSTANTS
  Services,      \* JDabServices: [chan |-> channel, sub |-> subchannel]
  OnAir,         \* channels with an ensemble
  HalfLocked,    \* channels with a signal that is not enough for the FIC
  NumChannels,   \* NUM_DAB_ENSEMBLES
  NFrequencies,  \* DAB_N_FREQUENCIES_IDX
  WaitLoops,     \* MAX_COLLECTION_LOOPS, in tens
  FicLoops,      \* 300 FIC reads
  MaxRequests,   \* bound: calls of the client
  MaxQueued,     \* bound: commands queued for the scan thread
  Restarts,      \* whether the client starts a service again that it stopped
  MaxFailures    \* bound: attempts to power up the chip that fail

NoService == [chan |-> -1, sub |-> -1]   \* nullptr
NoSub     == -1                          \* subchannel 0xFF
NoFreq    == -1                          \* before the first tuning
BadFreq   == -2                          \* 0xFFFFFFFF

Channels == 0..(NumChannels - 1)

ASSUME TunerAssumption ==
  /\ NumChannels \in Nat \ {0}
  /\ OnAir \subseteq Channels /\ HalfLocked \subseteq Channels \ OnAir
  /\ \A n \in NFrequencies : n \in Channels /\ n + 1 \in Channels
  /\ \A s \in Services : s.chan \in OnAir /\ s.sub \in Nat
  /\ {WaitLoops, FicLoops, MaxRequests, MaxQueued, MaxFailures} \subseteq Nat

Threads == {"main", "command", "scan", "fic", "fib"}

VARIABLES
  initialized,  \* m_isInitialized
  scanning,     \* m_isScanning
  link,         \* m_startServiceLink
  freq,         \* m_currentFrequency
  subchan,      \* m_currentSubchanId
  finished,     \* m_ensembleCollectFinished
  parser,       \* the collection: "empty", "fed" with FIC data, or "done"
  open,         \* the chip's subchannel register
  decoding,     \* the services with m_decodeAudio set
  commandQ,     \* m_commandQueue
  scanQ,        \* m_scanCommandQueue
  running,      \* threads whose ...ThreadRunning flag is set
  pc,           \* where the threads are, "off" when not started or ended
  arg,          \* what they have read or been called with
  scan,         \* m_currentScanningEnsembleNum and the two wait counters
  asked,        \* history: the service last asked for, unless stopped since
  requests,     \* calls of the client so far
  failures,     \* failed attempts to power up so far
  visited,      \* history: channels tuned in this scan
  surplus       \* history: scanNext was queued twice for a channel

memberVars == <<initialized, scanning, link, freq, subchan, finished>>
queueVars  == <<commandQ, scanQ>>
threadVars == <<running, pc, arg>>
chipVars   == <<open, decoding>>
clientVars == <<asked, requests>>
scanVars   == <<scan, visited, surplus>>
vars == <<memberVars, parser, chipVars, queueVars, threadVars, scanVars,
          clientVars, failures>>

-----------------------------------------------------------------------------
UsesChip == {"init", "close", "read", "setFrequency", "open", "readFic"}

At(t, here)    == pc[t] = here
Goto(t, there) == pc' = [pc EXCEPT ![t] = there]
Call(t, there, a) == Goto(t, there) /\ arg' = [arg EXCEPT ![t] = a]
Stay(t)        == Goto(t, "idle") /\ UNCHANGED arg

Cmd(op, a) == [op |-> op, arg |-> a]

(* scanNext is queued; it is one too many when another is queued or        *)
(* executed for the channel.  MaxQueued bounds the queue.                  *)
PushScanNext ==
  /\ scanQ' = IF Len(scanQ) < MaxQueued THEN Append(scanQ, Cmd("scanNext", 0))
                                        ELSE scanQ
  /\ surplus' = (surplus \/ ~At("scan", "idle")
                         \/ \E i \in DOMAIN scanQ : scanQ[i].op = "scanNext")

-----------------------------------------------------------------------------
(* The client's calls.  Each only queues, except startServiceScan, which   *)
(* joins threads.                                                          *)
(* Nothing is going on but reading data.                                   *)
Quiet ==
  /\ initialized
  /\ ~scanning
  /\ commandQ = <<>> /\ scanQ = <<>>
  /\ pc["command"] \in {"idle", "read"}
  /\ \A t \in {"main", "fib"} : At(t, "idle")
  /\ pc["scan"] \in {"off", "idle"}
  /\ At("fic", "off")

Request == requests < MaxRequests /\ requests' = requests + 1

(* The service has its subchannel open and its audio decoded.              *)
Playing(s) == freq = s.chan /\ open = s.sub /\ subchan = s.sub /\ s \in decoding

(* A service is asked for when its ensemble is collected or not tuned yet. *)
(* One that is still linked although it was stopped, or although a scan    *)
(* was to begin, is asked for again only by a client that Restarts.        *)
Ready(s) ==
  /\ freq = s.chan => parser = "done"
  /\ link = s /\ asked # s => Restarts

Initialize ==
  /\ ~initialized
  /\ \A i \in DOMAIN commandQ : commandQ[i].op # "init"
  /\ commandQ' = Append(commandQ, Cmd("init", 0))
  /\ UNCHANGED <<memberVars, parser, chipVars, scanQ, threadVars, scanVars,
                 clientVars, failures>>

StartService(s) ==
  /\ Quiet /\ Ready(s) /\ Request
  /\ asked' = s
  /\ commandQ' = IF link = s THEN commandQ ELSE Append(commandQ, Cmd("start", s))
  /\ UNCHANGED <<memberVars, parser, chipVars, scanQ, threadVars, scanVars, failures>>

StopService ==
  /\ Quiet /\ Request
  /\ asked # NoService /\ Playing(asked)
  /\ asked' = NoService
  /\ commandQ' = Append(commandQ, Cmd("close", subchan))
  /\ UNCHANGED <<memberVars, parser, chipVars, scanQ, threadVars, scanVars, failures>>

StopServiceScan ==
  /\ scanning /\ Request
  /\ scanQ' = Append(scanQ, Cmd("stopScan", 0))
  /\ UNCHANGED <<memberVars, parser, chipVars, commandQ, threadVars, scanVars,
                 asked, failures>>

StartServiceScan ==
  /\ Quiet /\ Request
  /\ At("main", "idle") /\ "command" \in running
  /\ asked' = NoService
  /\ running' = running \ {"command"}
  /\ Goto("main", "joinCommand")
  /\ UNCHANGED <<memberVars, parser, chipVars, queueVars, arg, scanVars, failures>>

ScanJoinsCommand ==
  /\ At("main", "joinCommand") /\ At("command", "off")
  /\ running' = running \ {"scan"}
  /\ Goto("main", "joinScan")
  /\ UNCHANGED <<memberVars, parser, chipVars, queueVars, arg, scanVars,
                 clientVars, failures>>

ScanThreadStarts ==
  /\ At("main", "joinScan") /\ At("scan", "off")
  /\ running' = running \cup {"scan"}
  /\ pc' = [pc EXCEPT !["main"] = "idle", !["scan"] = "idle"]
  /\ scanQ' = Append(scanQ, Cmd("startScan", 0))
  /\ UNCHANGED <<memberVars, parser, chipVars, commandQ, arg, scanVars,
                 clientVars, failures>>

-----------------------------------------------------------------------------
(* commandProcessing: a command, or else readData, which it queues and     *)
(* which is then the next command.                                         *)
CommandTurn ==
  /\ At("command", "idle")
  /\ IF "command" \notin running
     THEN Goto("command", "off") /\ UNCHANGED <<commandQ, arg>>
     ELSE IF commandQ = <<>>
     THEN Goto("command", "read") /\ UNCHANGED <<commandQ, arg>>
     ELSE /\ commandQ' = Tail(commandQ)
          /\ Call("command", Head(commandQ).op, Head(commandQ).arg)
  /\ UNCHANGED <<memberVars, parser, chipVars, scanQ, running, scanVars,
                 clientVars, failures>>

InitializeSync ==
  /\ At("command", "init")
  /\ \/ initialized' = TRUE /\ UNCHANGED failures
     \/ /\ ~initialized /\ failures < MaxFailures
        /\ failures' = failures + 1
        /\ UNCHANGED initialized
  /\ Stay("command")
  /\ UNCHANGED <<scanning, link, freq, subchan, finished, parser, chipVars,
                 queueVars, running, scanVars, clientVars>>

(* readFicData inside readData: the parser gets data of the channel.       *)
Feed == parser' = IF parser = "empty" /\ freq \in OnAir THEN "fed" ELSE parser

ReadData(ficInt) ==
  /\ At("command", "read")
  /\ IF ficInt THEN Feed ELSE UNCHANGED parser
  /\ Stay("command")
  /\ UNCHANGED <<memberVars, chipVars, queueVars, running, scanVars, clientVars,
                 failures>>

(* closeSubchannel writes the number without the enable bit; 0xFF has it.  *)
CloseSubchannel ==
  /\ At("command", "close")
  /\ open' = IF arg["command"] = NoSub THEN 127 ELSE NoSub
  /\ subchan' = NoSub
  /\ Stay("command")
  /\ UNCHANGED <<initialized, scanning, link, freq, finished, parser, decoding,
                 queueVars, running, scanVars, clientVars, failures>>

(* startServiceSync.  The thread goes on to setService when the ensemble   *)
(* is tuned and collected, and does nothing when it is not collected yet.  *)
MutantStartServiceSync ==
  /\ At("command", "start")
  /\ LET s == arg["command"] IN
     IF scanning
     THEN /\ Stay("command")
          /\ UNCHANGED <<link, finished, decoding, commandQ>>
     ELSE /\ decoding' = decoding \ {link}
          /\ IF freq # s.chan
             THEN /\ finished' = FALSE
                  /\ commandQ' = Append(commandQ, Cmd("tune", s.chan))
                  /\ UNCHANGED link
                  /\ Stay("command")
             ELSE /\ UNCHANGED <<finished, commandQ>>
                  /\ IF finished
                     THEN link' = s /\ Goto("command", "setService") /\ UNCHANGED arg
                     ELSE UNCHANGED link /\ Stay("command")
  /\ UNCHANGED <<initialized, scanning, freq, subchan, parser, open, scanQ,
                 running, scanVars, clientVars, failures>>

StartServiceSync ==
  /\ At("command", "start")
  /\ LET s == arg["command"] IN
     IF scanning
     THEN /\ Stay("command")
          /\ UNCHANGED <<link, finished, decoding, commandQ>>
     ELSE /\ decoding' = decoding \ {link}
          /\ IF freq # s.chan
             THEN /\ finished' = FALSE
                  /\ commandQ' = Append(commandQ, Cmd("tune", s.chan))
                  /\ link' = s
                  /\ Stay("command")
             ELSE /\ UNCHANGED <<finished, commandQ>>
                  /\ IF finished
                     THEN link' = s /\ Goto("command", "setService") /\ UNCHANGED arg
                     ELSE UNCHANGED link /\ Stay("command")
  /\ UNCHANGED <<initialized, scanning, freq, subchan, parser, open, scanQ,
                 running, scanVars, clientVars, failures>>

-----------------------------------------------------------------------------
(* setService, on the command or on the parser's thread.  While the        *)
(* collection is under way the service may be in it already or not yet.    *)
SetService(t) ==
  /\ At(t, "setService")
  /\ IF link = NoService
     THEN Stay(t) /\ UNCHANGED <<subchan, commandQ>>
     ELSE IF link.chan # freq
     THEN /\ commandQ' = Append(commandQ, Cmd("tune", link.chan))
          /\ Stay(t) /\ UNCHANGED subchan
     ELSE /\ UNCHANGED commandQ
          /\ \/ /\ parser # "empty"
                /\ subchan' = link.sub
                /\ Call(t, "open", link.sub)
             \/ /\ parser # "done"
                /\ Stay(t) /\ UNCHANGED subchan
  /\ UNCHANGED <<initialized, scanning, link, freq, finished, parser, chipVars,
                 scanQ, running, scanVars, clientVars, failures>>

(* clearAndSetupMscMemory and openSubChannel.                              *)
OpenSubChannel(t) ==
  /\ At(t, "open")
  /\ open' = arg[t]
  /\ Goto(t, "decodeAudio")
  /\ UNCHANGED <<memberVars, parser, decoding, queueVars, running, arg, scanVars,
                 clientVars, failures>>

DecodeAudio(t) ==
  /\ At(t, "decodeAudio")
  /\ decoding' = decoding \cup {link}
  /\ Stay(t)
  /\ UNCHANGED <<memberVars, parser, open, queueVars, running, scanVars,
                 clientVars, failures>>

(* checkServiceSanity passes on the parser's thread; then                  *)
(* ensembleCollectFinished is called.                                      *)
CollectionDone ==
  /\ At("fib", "idle")
  /\ parser = "fed"
  /\ parser' = "done"
  /\ finished' = TRUE
  /\ Goto("fib", "collected")
  /\ UNCHANGED <<initialized, scanning, link, freq, subchan, chipVars, queueVars,
                 running, arg, scanVars, clientVars, failures>>

MutantEnsembleCollectFinished ==
  /\ At("fib", "collected")
  /\ IF scanning THEN PushScanNext ELSE UNCHANGED <<scanQ, surplus>>
  /\ Goto("fib", IF scanning THEN "setService" ELSE "idle")
  /\ UNCHANGED <<memberVars, parser, chipVars, commandQ, running, arg, scan,
                 visited, clientVars, failures>>

EnsembleCollectFinished ==
  /\ At("fib", "collected")
  /\ IF scanning THEN PushScanNext ELSE UNCHANGED <<scanQ, surplus>>
  /\ Goto("fib", "setService")
  /\ UNCHANGED <<memberVars, parser, chipVars, commandQ, running, arg, scan,
                 visited, clientVars, failures>>

-----------------------------------------------------------------------------
(* tuneFrequencySync, on the command thread or in a scan on the scan       *)
(* thread: the FIC thread is stopped, the ensemble reset, which joins the  *)
(* parser's thread, and the chip tuned.                                    *)
Tune(t) ==
  /\ At(t, "tune")
  /\ IF ~initialized
     THEN Stay(t) /\ UNCHANGED running
     ELSE /\ Goto(t, "joinFic") /\ UNCHANGED arg
          /\ running' = IF scanning THEN running \ {"fic"} ELSE running
  /\ UNCHANGED <<memberVars, parser, chipVars, queueVars, scanVars, clientVars,
                 failures>>

MutantResetBegin(t) ==
  /\ At(t, "joinFic")
  /\ finished' = FALSE
  /\ Goto(t, "joinFib")
  /\ UNCHANGED <<initialized, scanning, link, freq, subchan, parser, chipVars,
                 queueVars, running, arg, scanVars, clientVars, failures>>

ResetBegin(t) ==
  /\ At(t, "joinFic")
  /\ scanning => At("fic", "off")
  /\ finished' = FALSE
  /\ Goto(t, "joinFib")
  /\ UNCHANGED <<initialized, scanning, link, freq, subchan, parser, chipVars,
                 queueVars, running, arg, scanVars, clientVars, failures>>

ResetEnd(t) ==
  /\ At(t, "joinFib") /\ At("fib", "idle")
  /\ parser' = "empty"
  /\ freq' = arg[t]
  /\ Goto(t, "setFrequency")
  /\ UNCHANGED <<initialized, scanning, link, subchan, finished, chipVars,
                 queueVars, running, arg, scanVars, clientVars, failures>>

(* setFrequency and softReset; in a scan the FIC thread is started.  The   *)
(* first channel of a scan is tuned by startScanCommand, which then        *)
(* forgets the service.                                                    *)
SetFrequency(t) ==
  /\ At(t, "setFrequency")
  /\ pc' = [pc EXCEPT ![t] = "idle", !["fic"] = IF scanning THEN "first" ELSE @]
  /\ running' = IF scanning THEN running \cup {"fic"} ELSE running
  /\ link' = IF t = "scan" /\ scan.num = 0 THEN NoService ELSE link
  /\ visited' = IF t = "scan" THEN visited \cup {freq} ELSE visited
  /\ UNCHANGED <<initialized, scanning, freq, subchan, finished, parser, chipVars,
                 queueVars, arg, scan, surplus, clientVars, failures>>

-----------------------------------------------------------------------------
(* processScanCommands and its commands.                                   *)
ScanTurn ==
  /\ At("scan", "idle")
  /\ IF "scan" \notin running
     THEN Goto("scan", "off") /\ UNCHANGED scanQ
     ELSE /\ scanQ # <<>>
          /\ scanQ' = Tail(scanQ)
          /\ Goto("scan", Head(scanQ).op)
  /\ UNCHANGED <<memberVars, parser, chipVars, commandQ, running, arg, scanVars,
                 clientVars, failures>>

FreshScan(n) == [num |-> n, wait |-> WaitLoops, fic |-> FicLoops]

StartScanCommand ==
  /\ At("scan", "startScan")
  /\ scanning' = TRUE
  /\ scan' = FreshScan(0)
  /\ visited' = {}
  /\ surplus' = FALSE
  /\ Call("scan", "tune", 0)
  /\ UNCHANGED <<initialized, link, freq, subchan, finished, parser, chipVars,
                 queueVars, running, clientVars, failures>>

(* Behind a collected ensemble the N frequency of a channel is skipped.    *)
MutantNextChannel ==
  scan.num + (IF scan.num + 1 \in NFrequencies THEN 2 ELSE 1)
MutantNextChannelInverted ==
  scan.num + (IF ~finished /\ scan.num + 1 \notin NFrequencies THEN 2 ELSE 1)
NextChannel ==
  scan.num + (IF finished /\ scan.num + 1 \in NFrequencies THEN 2 ELSE 1)

(* tuneFrequency queues the tuning for the command thread when a late      *)
(* scanNext comes after the scan.                                          *)
ScanNext ==
  /\ At("scan", "scanNext")
  /\ IF scan.num + 1 < NumChannels
     THEN /\ scan' = FreshScan(NextChannel)
          /\ UNCHANGED <<scanning, running>>
          /\ IF scanning
             THEN Call("scan", "tune", NextChannel) /\ UNCHANGED commandQ
             ELSE /\ commandQ' = Append(commandQ, Cmd("tune", NextChannel))
                  /\ Stay("scan")
     ELSE /\ scanning' = FALSE
          /\ scan' = FreshScan(0)
          /\ running' = running \ {"fic"}
          /\ Goto("scan", "endScan")
          /\ UNCHANGED <<commandQ, arg>>
  /\ UNCHANGED <<initialized, link, freq, subchan, finished, parser, chipVars,
                 scanQ, visited, surplus, clientVars, failures>>

StopScanCommand ==
  /\ At("scan", "stopScan")
  /\ running' = running \ {"fic"}
  /\ Goto("scan", "leaveScan")
  /\ UNCHANGED <<memberVars, parser, chipVars, queueVars, arg, scanVars,
                 clientVars, failures>>

StartReadDataThread(there) ==
  /\ running' = running \cup {"command"}
  /\ pc' = [pc EXCEPT !["scan"] = there,
                      !["command"] = IF "command" \in running THEN @ ELSE "idle"]

EndScan ==
  /\ At("scan", "endScan") /\ At("fic", "off")
  /\ StartReadDataThread("idle")
  /\ UNCHANGED <<memberVars, parser, chipVars, queueVars, arg, scanVars,
                 clientVars, failures>>

LeaveScan ==
  /\ At("scan", "leaveScan") /\ At("fic", "off")
  /\ scanning' = FALSE
  /\ scan' = [scan EXCEPT !.num = 0]
  /\ commandQ' = Append(commandQ, Cmd("tune", BadFreq))
  /\ StartReadDataThread("idle")
  /\ UNCHANGED <<initialized, link, freq, subchan, finished, parser, chipVars,
                 scanQ, arg, visited, surplus, clientVars, failures>>

-----------------------------------------------------------------------------
(* threadedFicRead: a turn is made before the flag is looked at.           *)
FicTurn ==
  /\ pc["fic"] \in {"first", "loop"}
  /\ Goto("fic", IF At("fic", "first") \/ "fic" \in running THEN "readFic" ELSE "off")
  /\ UNCHANGED <<memberVars, parser, chipVars, queueVars, running, arg, scanVars,
                 clientVars, failures>>

(* onScanReadFic.  No lock, or half of it: a wait loop is counted, in      *)
(* steps of 10 or of 10 - 8.                                               *)
MutantLockSteps == (IF freq \in OnAir \cup HalfLocked THEN {0} ELSE {})
                     \cup (IF freq \in HalfLocked THEN {} ELSE {10})
LockSteps == (IF freq \in OnAir \cup HalfLocked THEN {2} ELSE {})
               \cup (IF freq \in HalfLocked THEN {} ELSE {10})

FicNoLock ==
  /\ At("fic", "readFic")
  /\ \E step \in LockSteps :
       scan' = [scan EXCEPT !.wait = IF @ > step THEN @ - step ELSE 0]
  /\ IF scan'.wait = 0 THEN PushScanNext ELSE UNCHANGED <<scanQ, surplus>>
  /\ Goto("fic", "loop")
  /\ UNCHANGED <<memberVars, parser, chipVars, commandQ, running, arg, visited,
                 clientVars, failures>>

FicReadData ==
  /\ At("fic", "readFic")
  /\ freq \in OnAir
  /\ Feed
  /\ scan' = [scan EXCEPT !.fic = IF @ > 1 THEN @ - 1 ELSE 0]
  /\ IF scan'.fic = 0 THEN PushScanNext ELSE UNCHANGED <<scanQ, surplus>>
  /\ Goto("fic", "loop")
  /\ UNCHANGED <<memberVars, chipVars, commandQ, running, arg, visited,
                 clientVars, failures>>

(* Locked, but no FIC interrupt: nothing is counted.                       *)
FicNoInterrupt ==
  /\ At("fic", "readFic")
  /\ freq \in OnAir
  /\ Goto("fic", "loop")
  /\ UNCHANGED <<memberVars, parser, chipVars, queueVars, running, arg, scanVars,
                 clientVars, failures>>

-----------------------------------------------------------------------------
Init ==
  /\ initialized = FALSE /\ scanning = FALSE
  /\ link = NoService
  /\ freq = NoFreq /\ subchan = NoSub /\ finished = FALSE
  /\ parser = "empty"
  /\ open = NoSub /\ decoding = {}
  /\ commandQ = <<Cmd("init", 0)>> /\ scanQ = <<>>
  /\ running = {"command"}
  /\ pc = [t \in Threads |-> IF t \in {"scan", "fic"} THEN "off" ELSE "idle"]
  /\ arg = [t \in Threads |-> 0]
  /\ scan = FreshScan(0)
  /\ asked = NoService /\ requests = 0 /\ failures = 0
  /\ visited = {} /\ surplus = FALSE

MainStep == ScanJoinsCommand \/ ScanThreadStarts

ServiceStep(t) == SetService(t) \/ OpenSubChannel(t) \/ DecodeAudio(t)
TuneStep(t) == Tune(t) \/ ResetBegin(t) \/ ResetEnd(t) \/ SetFrequency(t)

CommandStep ==
  \/ CommandTurn \/ InitializeSync \/ CloseSubchannel \/ StartServiceSync
  \/ \E ficInt \in BOOLEAN : ReadData(ficInt)
  \/ ServiceStep("command") \/ TuneStep("command")

FibStep == CollectionDone \/ EnsembleCollectFinished \/ ServiceStep("fib")

ScanStep ==
  \/ ScanTurn \/ StartScanCommand \/ ScanNext \/ StopScanCommand
  \/ EndScan \/ LeaveScan \/ TuneStep("scan")

FicStep == FicTurn \/ FicNoLock \/ FicReadData \/ FicNoInterrupt

Client ==
  \/ Initialize \/ StopService \/ StopServiceScan \/ StartServiceScan
  \/ \E s \in Services : StartService(s)

Next == Client \/ MainStep \/ CommandStep \/ FibStep \/ ScanStep \/ FicStep

(* Every started thread goes on.  main initialises until it succeeds.  A   *)
(* chip that is locked to an ensemble has a FIC interrupt each frame.      *)
Fairness ==
  /\ WF_vars(Initialize) /\ WF_vars(MainStep) /\ WF_vars(CommandStep)
  /\ WF_vars(FibStep) /\ WF_vars(ScanStep) /\ WF_vars(FicStep)
  /\ SF_vars(ReadData(TRUE)) /\ SF_vars(FicReadData)

Spec == Init /\ [][Next]_vars /\ Fairness

-----------------------------------------------------------------------------
(* Types; subchannel 127 is what closing 0xFF enables.                     *)
TypeOK ==
  /\ {initialized, scanning, finished, surplus} \subseteq BOOLEAN
  /\ {link, asked} \subseteq Services \cup {NoService}
  /\ freq \in Channels \cup {NoFreq, BadFreq}
  /\ {subchan, open} \subseteq {s.sub : s \in Services} \cup {NoSub, 127}
  /\ parser \in {"empty", "fed", "done"}
  /\ scan \in [num : Channels, wait : 0..WaitLoops, fic : 0..FicLoops]
  /\ decoding \subseteq Services
  /\ visited \subseteq Channels

(* While the scan or the FIC thread exchanges register accesses with the   *)
(* chip no other thread does: startServiceScan stops the command thread,   *)
(* tuneFrequencySync the FIC thread and the parser's, and the end of a     *)
(* scan starts the command thread when the FIC thread is gone.             *)
ScanExclusive ==
  \A t \in {"scan", "fic"}, u \in Threads :
    t # u /\ pc[t] \in UsesChip => pc[u] \notin UsesChip

(* When nothing is under way and the ensemble is collected, the chip has   *)
(* the subchannel open that the data is dispatched to, of the service last *)
(* asked for, whatever the commands and the parser's thread did meanwhile. *)
SettledPlays ==
  Quiet /\ parser = "done" /\ asked # NoService => Playing(asked)

(* A service asked for is tuned, collected, opened and decoded, unless     *)
(* something else is asked for first.                                      *)
ServiceStarts == \A s \in Services : asked = s ~> Playing(s) \/ asked # s

(* A scan ends, without or with a stopServiceScan.                         *)
ScanEnds == scanning ~> ~scanning

(* A scan that ends by itself has tuned every channel, but for the N       *)
(* frequency behind a channel with an ensemble, and unless a time-out of   *)
(* the FIC thread and the end of a collection both asked for the next one. *)
ScanCovers ==
  [][scanning /\ ~scanning' /\ At("scan", "scanNext") =>
       \A c \in Channels :
         \/ c \in visited \/ surplus
         \/ c \in NFrequencies /\ c - 1 \in visited \cap OnAir]_vars

=============================================================================
