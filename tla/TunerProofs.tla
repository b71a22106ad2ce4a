----------------------------- MODULE TunerProofs -----------------------------
(***************************************************************************)
(* While a scan uses the chip, no other thread does.                        *)
(*                                                                         *)
(* What keeps the threads apart is not one lock but a chain of hand-overs:  *)
(* startServiceScan starts the scan thread when the command thread is       *)
(* joined, the scan thread starts the FIC thread when the parser's thread   *)
(* is, and the command thread again when the FIC thread is gone.  IInv says *)
(* for each stage of the chain who is not there.                           *)
(*                                                                         *)
(* The service asked for last is what plays, when nothing is under way.     *)
(* Between the call of startService and the subchannel that is open at last *)
(* are two threads: the request is a command, then a tuning that is queued  *)
(* behind it, then the link that the parser's thread finds when it has      *)
(* collected the ensemble.  The invariant says where the request is.        *)
(*                                                                         *)
(* The last part is about a scan: it leaves out no channel but the N        *)
(* frequencies behind an ensemble.                                         *)
(***************************************************************************)
EXTENDS Tuner, SequenceTheorems, TLAPS

ScanOps   == {"startScan", "scanNext", "stopScan"}
TuneSteps == {"tune", "joinFic", "joinFib", "setFrequency"}

Places ==
  [main    |-> {"idle", "joinCommand", "joinScan"},
   scan    |-> {"off", "idle", "endScan", "leaveScan"} \cup ScanOps \cup TuneSteps,
   fic     |-> {"off", "first", "loop", "readFic"},
   fib     |-> {"idle", "collected", "setService", "open", "decodeAudio"}]

(* Where the threads can be.                                               *)
PlacesInv ==
  /\ DOMAIN pc = Threads
  /\ pc["main"] \in Places.main
  /\ pc["scan"] \in Places.scan
  /\ pc["fic"]  \in Places.fic
  /\ pc["fib"]  \in Places.fib
  /\ scanQ \in Seq([op : ScanOps, arg : {0}])

Commanding  == "command" \in running \/ pc["command"] # "off"
StartQueued == \E i \in DOMAIN scanQ : scanQ[i].op = "startScan"

(* No command thread while a scan begins or goes on.                       *)
CommandInv ==
  Commanding => /\ At("fic", "off")
                /\ ~scanning
                /\ pc["scan"] \notin TuneSteps \cup {"startScan"}
                /\ ~StartQueued
                /\ pc["main"] # "joinScan"

(* startServiceScan finds no scan, and none begins but through it.          *)
MainInv ==
  pc["main"] # "idle" => /\ "command" \notin running
                         /\ At("fic", "off")
                         /\ ~scanning
                         /\ scanQ = <<>>
                         /\ pc["scan"] \in {"off", "idle"}

StartInv ==
  /\ StartQueued => Len(scanQ) = 1 /\ At("scan", "idle") /\ "scan" \in running
  /\ StartQueued \/ At("scan", "startScan") => ~scanning /\ At("fic", "off")

(* Nothing goes on but in a scan, whose end waits for the FIC thread.       *)
ScanInv ==
  /\ pc["scan"] \in TuneSteps => scanning
  /\ At("scan", "endScan") => ~scanning
  /\ ~scanning /\ ~At("fic", "off") => At("scan", "endScan")
  /\ scanning \/ StartQueued \/ At("scan", "startScan") \/ pc["main"] # "idle"
       => initialized

(* Behind the join of the FIC thread there is none, and behind that of the  *)
(* parser's thread it has nothing to do.                                   *)
TuneInv ==
  /\ pc["scan"] \in {"joinFib", "setFrequency"} => At("fic", "off")
  /\ At("scan", "setFrequency") => At("fib", "idle") /\ parser = "empty"

(* A scan has forgotten the service behind its first tuning, so the end of  *)
(* a collection opens no subchannel.                                       *)
LinkInv ==
  /\ scanning => \/ link = NoService
                 \/ scan.num = 0 /\ pc["scan"] \in TuneSteps
  /\ ~At("fic", "off") => /\ link = NoService
                          /\ pc["fib"] \notin {"open", "decodeAudio"}

IInv ==
  /\ PlacesInv
  /\ CommandInv
  /\ MainInv
  /\ StartInv
  /\ ScanInv
  /\ TuneInv
  /\ LinkInv

-----------------------------------------------------------------------------
(* The invariant holds at first, and says what is to be shown.              *)
LEMMA InitEstablishes == Init => IInv
BY DEF Init, NoService, NoFreq, NoSub, FreshScan, Cmd, Threads, At, IInv, PlacesInv, Places,
       ScanOps, TuneSteps, CommandInv, MainInv, StartInv, ScanInv, TuneInv, LinkInv,
       Commanding, StartQueued

LEMMA ScanIsAlone == IInv => ScanExclusive
BY DEF ScanExclusive, UsesChip, Threads, At, IInv, PlacesInv, Places, ScanOps, TuneSteps,
       CommandInv, StartInv, ScanInv, TuneInv, LinkInv, Commanding

-----------------------------------------------------------------------------
(* The scan thread's queue: another scanNext, and the next command.         *)
ScanQueue == scanQ \in Seq([op : ScanOps, arg : {0}])

LEMMA QueuePushed ==
  ASSUME ScanQueue, ~StartQueued, PushScanNext
  PROVE  ScanQueue' /\ ~StartQueued'
<1>1. Cmd("scanNext", 0) \in [op : ScanOps, arg : {0}] /\ Cmd("scanNext", 0).op # "startScan"
  BY DEF Cmd, ScanOps
<1>2. CASE scanQ' = scanQ
  BY <1>2 DEF ScanQueue, StartQueued
<1>3. CASE scanQ' = Append(scanQ, Cmd("scanNext", 0))
  BY <1>1, <1>3 DEF ScanQueue, StartQueued
<1> QED
  BY <1>2, <1>3 DEF PushScanNext

LEMMA FirstAndRest ==
  ASSUME NEW S, NEW s \in Seq(S), s # <<>>
  PROVE  /\ 1 \in DOMAIN s /\ Head(s) = s[1] /\ Head(s) \in S
         /\ \A i \in DOMAIN Tail(s) : i + 1 \in DOMAIN s /\ Tail(s)[i] = s[i + 1]
<1>1. Len(s) \in Nat \ {0} /\ DOMAIN s = 1 .. Len(s)
  BY EmptySeq, LenProperties
<1>2. Tail(s) \in Seq(S) /\ Len(Tail(s)) = Len(s) - 1 /\ Head(s) \in S
  BY HeadTailProperties
<1>3. DOMAIN Tail(s) = 1 .. (Len(s) - 1)
  BY <1>2, LenProperties
<1>4. \A i \in 1 .. (Len(s) - 1) : Tail(s)[i] = s[i + 1]
  BY <1>2, HeadTailProperties
<1> QED
  BY <1>1, <1>2, <1>3, <1>4

LEMMA QueueTaken ==
  ASSUME ScanQueue, scanQ # <<>>, StartQueued => Len(scanQ) = 1, scanQ' = Tail(scanQ)
  PROVE  /\ ScanQueue'
         /\ ~StartQueued'
         /\ Head(scanQ).op \in ScanOps
         /\ Head(scanQ).op = "startScan" => StartQueued
<1>1. 1 \in DOMAIN scanQ /\ Head(scanQ) = scanQ[1] /\ Head(scanQ) \in [op : ScanOps, arg : {0}]
  BY FirstAndRest DEF ScanQueue
<1>2. \A i \in DOMAIN scanQ' : i + 1 \in DOMAIN scanQ /\ scanQ'[i] = scanQ[i + 1]
  BY FirstAndRest DEF ScanQueue
<1>3. ~StartQueued'
  BY <1>2 DEF ScanQueue, StartQueued
<1> QED
  BY <1>1, <1>3 DEF ScanQueue, StartQueued

-----------------------------------------------------------------------------
(* The client's calls and the main thread, behind startServiceScan.         *)

LEMMA ClientKeeps == ASSUME IInv, Client PROVE IInv'
<1> USE DEF IInv, PlacesInv, Places, ScanOps, TuneSteps, CommandInv, MainInv, StartInv, ScanInv,
            TuneInv, LinkInv, Commanding, StartQueued, Threads, At, Goto, Call, Stay, Cmd
<1>1. CASE Initialize
  BY <1>1 DEF Initialize, memberVars, threadVars, scanVars
<1>2. CASE StopService
  BY <1>2 DEF StopService, memberVars, threadVars, scanVars
<1>3. CASE StopServiceScan
  BY <1>3 DEF StopServiceScan, memberVars, threadVars, scanVars
<1>4. CASE StartServiceScan
  BY <1>4 DEF StartServiceScan, Quiet, memberVars, queueVars, scanVars
<1>5. CASE \E s \in Services : StartService(s)
  BY <1>5 DEF StartService, memberVars, threadVars, scanVars
<1> QED
  BY <1>1, <1>2, <1>3, <1>4, <1>5 DEF Client

LEMMA MainKeeps == ASSUME IInv, MainStep PROVE IInv'
<1> USE DEF IInv, PlacesInv, Places, ScanOps, TuneSteps, CommandInv, MainInv, StartInv, ScanInv,
            TuneInv, LinkInv, Commanding, StartQueued, Threads, At, Goto, Call, Stay, Cmd
<1>1. CASE ScanJoinsCommand
  BY <1>1 DEF ScanJoinsCommand, memberVars, queueVars, scanVars
<1>2. CASE ScanThreadStarts
  BY <1>2 DEF ScanThreadStarts, memberVars, scanVars
<1> QED
  BY <1>1, <1>2 DEF MainStep

(* setService, on either thread that calls it, and tuneFrequencySync.       *)
LEMMA ServiceKeeps == ASSUME IInv, NEW t \in {"command", "fib"}, ServiceStep(t) PROVE IInv'
<1> USE DEF IInv, PlacesInv, Places, ScanOps, TuneSteps, CommandInv, MainInv, StartInv, ScanInv,
            TuneInv, LinkInv, Commanding, StartQueued, Threads, At, Goto, Call, Stay, Cmd
<1>1. CASE SetService(t)
  BY <1>1 DEF SetService, chipVars, scanVars
<1>2. CASE OpenSubChannel(t)
  BY <1>2 DEF OpenSubChannel, memberVars, queueVars, scanVars
<1>3. CASE DecodeAudio(t)
  BY <1>3 DEF DecodeAudio, memberVars, queueVars, scanVars
<1> QED
  BY <1>1, <1>2, <1>3 DEF ServiceStep

LEMMA TuneKeeps == ASSUME IInv, NEW t \in {"command", "scan"}, TuneStep(t) PROVE IInv'
<1> USE DEF IInv, PlacesInv, Places, ScanOps, TuneSteps, CommandInv, MainInv, StartInv, ScanInv,
            TuneInv, LinkInv, Commanding, StartQueued, Threads, At, Goto, Call, Stay, Cmd
<1>1. CASE Tune(t)
  BY <1>1 DEF Tune, memberVars, queueVars, scanVars
<1>2. CASE ResetBegin(t)
  BY <1>2 DEF ResetBegin, queueVars, scanVars
<1>3. CASE ResetEnd(t)
  BY <1>3 DEF ResetEnd, queueVars, scanVars
<1>4. CASE SetFrequency(t)
  BY <1>4 DEF SetFrequency, queueVars
<1> QED
  BY <1>1, <1>2, <1>3, <1>4 DEF TuneStep

LEMMA CommandKeeps == ASSUME IInv, CommandStep PROVE IInv'
<1> USE DEF IInv, PlacesInv, Places, ScanOps, TuneSteps, CommandInv, MainInv, StartInv, ScanInv,
            TuneInv, LinkInv, Commanding, StartQueued, Threads, At, Goto, Call, Stay, Cmd
<1>1. CASE CommandTurn
  BY <1>1 DEF CommandTurn, memberVars, scanVars
<1>2. CASE InitializeSync
  BY <1>2 DEF InitializeSync, queueVars, scanVars
<1>3. CASE CloseSubchannel
  BY <1>3 DEF CloseSubchannel, queueVars, scanVars
<1>4. CASE StartServiceSync
  BY <1>4 DEF StartServiceSync, scanVars
<1>5. CASE \E ficInt \in BOOLEAN : ReadData(ficInt)
  BY <1>5 DEF ReadData, Feed, memberVars, queueVars, scanVars
<1> QED
  BY <1>1, <1>2, <1>3, <1>4, <1>5, ServiceKeeps, TuneKeeps DEF CommandStep

LEMMA FibKeeps == ASSUME IInv, FibStep PROVE IInv'
<1> USE DEF IInv, PlacesInv, Places, ScanOps, TuneSteps, CommandInv, MainInv, StartInv, ScanInv,
            TuneInv, LinkInv, Commanding, StartQueued, Threads, At, Goto, Call, Stay, Cmd
<1>1. CASE CollectionDone
  BY <1>1 DEF CollectionDone, queueVars, scanVars
<1>2. CASE EnsembleCollectFinished
  <2>1. PlacesInv' /\ (scanning => ~StartQueued')
    BY <1>2, QueuePushed DEF EnsembleCollectFinished, memberVars, ScanQueue
  <2> QED
    BY <1>2, <2>1 DEF EnsembleCollectFinished, memberVars
<1> QED
  BY <1>1, <1>2, ServiceKeeps DEF FibStep

LEMMA ScanKeeps == ASSUME IInv, ScanStep PROVE IInv'
<1> USE DEF IInv, PlacesInv, Places, ScanOps, TuneSteps, CommandInv, MainInv, StartInv, ScanInv,
            TuneInv, LinkInv, Commanding, StartQueued, Threads, At, Goto, Call, Stay, Cmd
<1>1. CASE ScanTurn
  <2>1. CASE "scan" \notin running
    BY <1>1, <2>1 DEF ScanTurn, memberVars, scanVars
  <2>2. CASE "scan" \in running
    <3>1. /\ ScanQueue' /\ ~StartQueued' /\ Head(scanQ).op \in ScanOps
          /\ Head(scanQ).op = "startScan" => StartQueued
      BY <1>1, <2>2, QueueTaken DEF ScanTurn, ScanQueue
    <3> QED
      BY <1>1, <2>2, <3>1 DEF ScanTurn, memberVars, scanVars, ScanQueue
  <2> QED
    BY <2>1, <2>2
<1>2. CASE StartScanCommand
  BY <1>2 DEF StartScanCommand, FreshScan, queueVars
<1>3. CASE ScanNext
  BY <1>3 DEF ScanNext, FreshScan
<1>4. CASE StopScanCommand
  BY <1>4 DEF StopScanCommand, memberVars, queueVars, scanVars
<1>5. CASE EndScan
  BY <1>5 DEF EndScan, StartReadDataThread, memberVars, queueVars, scanVars
<1>6. CASE LeaveScan
  BY <1>6 DEF LeaveScan, StartReadDataThread
<1> QED
  BY <1>1, <1>2, <1>3, <1>4, <1>5, <1>6, TuneKeeps DEF ScanStep

LEMMA FicKeeps == ASSUME IInv, FicStep PROVE IInv'
<1> USE DEF IInv, PlacesInv, Places, ScanOps, TuneSteps, CommandInv, MainInv, StartInv, ScanInv,
            TuneInv, LinkInv, Commanding, StartQueued, Threads, At, Goto, Call, Stay, Cmd
<1>1. CASE FicTurn
  BY <1>1 DEF FicTurn, memberVars, queueVars, scanVars
<1>2. CASE FicNoLock
  <2>1. link = NoService
    BY <1>2 DEF FicNoLock
  <2>2. ScanQueue' /\ ~StartQueued'
    BY <1>2, QueuePushed DEF FicNoLock, ScanQueue
  <2> QED
    BY <1>2, <2>1, <2>2 DEF FicNoLock, memberVars, ScanQueue
<1>3. CASE FicReadData
  <2>1. link = NoService
    BY <1>3 DEF FicReadData
  <2>2. ScanQueue' /\ ~StartQueued'
    BY <1>3, QueuePushed DEF FicReadData, ScanQueue
  <2> QED
    BY <1>3, <2>1, <2>2 DEF FicReadData, Feed, memberVars, ScanQueue
<1>4. CASE FicNoInterrupt
  BY <1>4 DEF FicNoInterrupt, memberVars, queueVars, scanVars
<1> QED
  BY <1>1, <1>2, <1>3, <1>4 DEF FicStep

-----------------------------------------------------------------------------
LEMMA StepKeeps == IInv /\ [Next]_vars => IInv'
<1> SUFFICES ASSUME IInv, [Next]_vars PROVE IInv'
  OBVIOUS
<1>1. CASE UNCHANGED vars
  BY <1>1 DEF vars, memberVars, queueVars, threadVars, chipVars, clientVars, scanVars, IInv,
              PlacesInv, CommandInv, MainInv, StartInv, ScanInv, TuneInv, LinkInv, Commanding,
              StartQueued, At
<1> QED
  BY <1>1, ClientKeeps, MainKeeps, CommandKeeps, FibKeeps, ScanKeeps, FicKeeps DEF Next

(* While the scan or the FIC thread exchanges register accesses with the    *)
(* chip no other thread does: for all channels, services and bounds,        *)
(* whatever the client asks for and however the threads interleave.         *)
THEOREM ScanHasChip == Spec => []ScanExclusive
<1>1. Spec => []IInv
  BY InitEstablishes, StepKeeps, PTL DEF Spec
<1> QED
  BY <1>1, ScanIsAlone, PTL

-----------------------------------------------------------------------------
Subs         == {s.sub : s \in Services} \cup {NoSub, 127}
Frequencies  == Channels \cup {BadFreq}
BeforeReset  == {"tune", "joinFic", "joinFib"}
Opening      == {"open", "decodeAudio"}

Commands ==
  {Cmd("init", 0)} \cup {Cmd("start", s) : s \in Services}
    \cup {Cmd("close", n) : n \in Subs} \cup {Cmd("tune", f) : f \in Frequencies}

Queued == {commandQ[i] : i \in DOMAIN commandQ}

(* The values, and what a thread has been called with.                      *)
CommandPlaces ==
  {"off", "idle", "read", "init", "start", "close", "setService"} \cup Opening \cup TuneSteps

CallInv ==
  /\ pc["command"] \in CommandPlaces
  /\ DOMAIN arg = Threads
  /\ At("command", "start") => arg["command"] \in Services
  /\ pc["command"] \in BeforeReset => arg["command"] \in Frequencies
  /\ pc["scan"] \in BeforeReset => arg["scan"] \in Channels
  /\ At("scan", "setFrequency") => freq \in Channels
  /\ \A t \in {"command", "fib"} :
       /\ At(t, "open") => arg[t] \in Subs
       /\ pc[t] \in Opening => link \in Services

(* The command thread is stopped by startServiceScan only.                  *)
JoinInv == "command" \in running \/ At("command", "off") \/ At("main", "joinCommand")

TypeInv == TypeOK /\ commandQ \in Seq(Commands) /\ CallInv

-----------------------------------------------------------------------------
(* The collection: there is none but of an ensemble that is tuned, and its   *)
(* end is known but while a tuning is under way that makes it void.         *)
TuneQueued  == \E c \in Queued : c.op = "tune"
TunePending == TuneQueued \/ pc["command"] \in BeforeReset

CollectInv ==
  /\ parser # "empty" => freq \in OnAir
  /\ freq # NoFreq \/ link # NoService => initialized
  /\ pc["command"] \in {"joinFic", "joinFib", "setFrequency"} => initialized
  /\ parser = "done" => finished \/ TunePending \/ At("scan", "joinFib")

(* The service linked is of the channel that is tuned or going to be, until  *)
(* a scan tunes its first channel.                                          *)
LinkedInv ==
  link # NoService =>
    /\ \A c \in Queued : c.op = "tune" => c.arg = link.chan
    /\ pc["command"] \in BeforeReset => arg["command"] = link.chan
    /\ link.chan = freq \/ TunePending \/ At("scan", "setFrequency")
    /\ pc["scan"] \in {"off", "idle", "startScan"} \cup TuneSteps
    /\ scanning \/ \A i \in DOMAIN scanQ : scanQ[i].op = "startScan"

(* A service that is asked for: there is no scan, and the request is a       *)
(* command or has become the link.                                          *)
NoScan ==
  /\ initialized /\ ~scanning
  /\ scanQ = <<>>
  /\ At("main", "idle") /\ At("fic", "off")
  /\ pc["scan"] \in {"off", "idle"}

Starting ==
  /\ \/ commandQ = <<Cmd("start", asked)>> /\ pc["command"] \in {"off", "idle", "read"}
     \/ commandQ = <<>> /\ At("command", "start") /\ arg["command"] = asked
  /\ freq = asked.chan => parser = "done" /\ At("fib", "idle")

(* Its ensemble is going to be tuned, or is; when it is collected a thread   *)
(* is going to open the subchannel, or it plays.                            *)
OpensRightly ==
  \A t \in {"command", "fib"} :
    /\ At(t, "open") => arg[t] = link.sub /\ subchan = link.sub
    /\ At(t, "decodeAudio") => open = link.sub /\ subchan = link.sub

Started ==
  /\ link = asked
  /\ \A c \in Queued : c.op = "tune"
  /\ pc["command"] \notin {"init", "start", "close"}
  /\ TunePending \/ OpensRightly
  /\ parser = "done" => \/ TunePending
                        \/ pc["command"] \in {"setService"} \cup Opening
                        \/ ~At("fib", "idle")
                        \/ Playing(asked)

StartCommanded == At("command", "start") \/ \E c \in Queued : c.op = "start"

AskedInv ==
  /\ asked # NoService => NoScan /\ (Starting \/ Started \/ Restarts)
  /\ StartCommanded => asked # NoService /\ Starting

ServiceInv == IInv /\ TypeInv /\ JoinInv /\ CollectInv /\ LinkedInv /\ AskedInv

-----------------------------------------------------------------------------
(* Facts about the values.                                                  *)
LEMMA ServiceFacts ==
  ASSUME NEW s \in Services
  PROVE  /\ s # NoService /\ s.chan \in OnAir /\ s.chan \in Channels
         /\ s.sub \in Subs /\ s.sub # NoSub
<1>1. s.chan \in OnAir /\ s.chan \in Channels /\ s.sub \in Nat
  BY TunerAssumption
<1>2. NoService.chan = -1 /\ -1 \notin Channels
  BY TunerAssumption DEF NoService, Channels
<1> QED
  BY <1>1, <1>2 DEF Subs, NoSub

LEMMA ChannelFacts ==
  /\ 0 \in Channels /\ Channels \subseteq Nat /\ NoFreq \notin Channels /\ BadFreq \notin Channels
  /\ OnAir \subseteq Channels
  /\ \A n \in Channels : n < NumChannels
  /\ NumChannels \in Nat
BY TunerAssumption DEF Channels, NoFreq, BadFreq

LEMMA CommandFacts ==
  ASSUME NEW c \in Commands
  PROVE  /\ c.op \in {"init", "start", "close", "tune"}
         /\ c.op = "start" => c.arg \in Services /\ c = Cmd("start", c.arg)
         /\ c.op = "tune" => c.arg \in Frequencies
BY DEF Commands, Cmd

LEMMA CommandMade ==
  /\ Cmd("init", 0) \in Commands
  /\ \A s \in Services : Cmd("start", s) \in Commands
  /\ \A n \in Subs : Cmd("close", n) \in Commands
  /\ \A f \in Frequencies : Cmd("tune", f) \in Commands
  /\ \A op, a : Cmd(op, a).op = op /\ Cmd(op, a).arg = a
BY DEF Commands, Cmd

(* The queue of commands: one more, one less.                               *)
CommandQueue == commandQ \in Seq(Commands)

LEMMA QueueEmpty == ASSUME CommandQueue PROVE commandQ = <<>> <=> Queued = {}
<1>1. commandQ # <<>> => 1 \in DOMAIN commandQ
  BY FirstAndRest DEF CommandQueue
<1>2. commandQ = <<>> => DOMAIN commandQ = {}
  OBVIOUS
<1> QED
  BY <1>1, <1>2 DEF Queued

LEMMA CommandPushed ==
  ASSUME CommandQueue, NEW c \in Commands, commandQ' = Append(commandQ, c)
  PROVE  CommandQueue' /\ Queued' = Queued \cup {c}
<1>1. /\ commandQ' \in Seq(Commands) /\ Len(commandQ') = Len(commandQ) + 1
      /\ \A i \in 1..Len(commandQ) : commandQ'[i] = commandQ[i]
      /\ commandQ'[Len(commandQ) + 1] = c
  BY AppendProperties DEF CommandQueue
<1>2. /\ Len(commandQ) \in Nat /\ DOMAIN commandQ = 1..Len(commandQ)
      /\ DOMAIN commandQ' = 1..(Len(commandQ) + 1)
  BY <1>1, LenProperties DEF CommandQueue
<1>3. Queued' = {commandQ'[i] : i \in 1..(Len(commandQ) + 1)}
  BY <1>2 DEF Queued
<1>4. 1..(Len(commandQ) + 1) = 1..Len(commandQ) \cup {Len(commandQ) + 1}
  BY <1>2
<1> QED
  BY <1>1, <1>2, <1>3, <1>4 DEF Queued, CommandQueue

LEMMA CommandTaken ==
  ASSUME CommandQueue, commandQ # <<>>, commandQ' = Tail(commandQ)
  PROVE  /\ CommandQueue' /\ Head(commandQ) \in Commands
         /\ Queued = Queued' \cup {Head(commandQ)}
         /\ \A c : commandQ = <<c>> => Head(commandQ) = c /\ commandQ' = <<>>
<1>1. /\ 1 \in DOMAIN commandQ /\ Head(commandQ) = commandQ[1] /\ Head(commandQ) \in Commands
      /\ \A i \in DOMAIN commandQ' : i + 1 \in DOMAIN commandQ /\ commandQ'[i] = commandQ[i + 1]
  BY FirstAndRest DEF CommandQueue
<1>2. /\ commandQ' \in Seq(Commands) /\ Len(commandQ) \in Nat \ {0}
      /\ DOMAIN commandQ = 1..Len(commandQ) /\ DOMAIN commandQ' = 1..(Len(commandQ) - 1)
  BY HeadTailProperties, LenProperties, EmptySeq DEF CommandQueue
<1>3. ASSUME NEW i \in DOMAIN commandQ, i # 1
      PROVE  i - 1 \in DOMAIN commandQ' /\ commandQ'[i - 1] = commandQ[i]
  <2>1. i - 1 \in DOMAIN commandQ' /\ (i - 1) + 1 = i
    BY <1>2, <1>3
  <2> QED
    BY <1>1, <2>1
<1>4. Queued = Queued' \cup {Head(commandQ)}
  <2>1. ASSUME NEW c \in Queued PROVE c \in Queued' \cup {Head(commandQ)}
    <3>1. PICK i \in DOMAIN commandQ : c = commandQ[i]
      BY <2>1 DEF Queued
    <3> QED
      BY <1>1, <1>3, <3>1 DEF Queued
  <2>2. ASSUME NEW c \in Queued' PROVE c \in Queued
    <3>1. PICK i \in DOMAIN commandQ' : c = commandQ'[i]
      BY <2>2 DEF Queued
    <3> QED
      BY <1>1, <3>1 DEF Queued
  <2>3. Head(commandQ) \in Queued
    BY <1>1 DEF Queued
  <2> QED
    BY <2>1, <2>2, <2>3
<1>5. ASSUME NEW c, commandQ = <<c>> PROVE Head(commandQ) = c /\ commandQ' = <<>>
  BY <1>5
<1> QED
  BY <1>1, <1>2, <1>4, <1>5 DEF CommandQueue

-----------------------------------------------------------------------------
(* Types.                                                                  *)
LEMMA InitTypes == Init => TypeInv
<1> SUFFICES ASSUME Init PROVE TypeInv
  OBVIOUS
<1>1. commandQ \in Seq(Commands)
  BY CommandMade DEF Init
<1>2. TypeOK
  <2>1. FreshScan(0) \in [num : Channels, wait : 0..WaitLoops, fic : 0..FicLoops]
    BY ChannelFacts, TunerAssumption DEF FreshScan
  <2> QED
    BY <2>1 DEF Init, TypeOK
<1>3. CallInv
  BY DEF Init, CallInv, CommandPlaces, Opening, BeforeReset, TuneSteps, Threads, At
<1> QED
  BY <1>1, <1>2, <1>3 DEF TypeInv

LEMMA ClientTypes == ASSUME TypeInv, IInv, Client PROVE TypeInv'
<1> USE DEF TypeInv, TypeOK, CallInv, CommandPlaces, Opening, BeforeReset, TuneSteps, Threads,
            At, Goto, Call, Stay
<1>0. DOMAIN pc = Threads
  BY DEF IInv, PlacesInv
<1>1. CASE Initialize
  <2>1. CommandQueue'
    BY <1>0, <1>1, CommandMade, CommandPushed DEF Initialize, CommandQueue
  <2> QED
    BY <1>0, <1>1, <2>1 DEF Initialize, CommandQueue, memberVars, threadVars, scanVars, chipVars, clientVars
<1>2. CASE StopService
  <2>1. CommandQueue'
    BY <1>0, <1>2, CommandMade, CommandPushed DEF StopService, CommandQueue, Subs
  <2> QED
    BY <1>0, <1>2, <2>1 DEF StopService, CommandQueue, memberVars, threadVars, scanVars, chipVars
<1>3. CASE StopServiceScan
  BY <1>0, <1>3 DEF StopServiceScan, memberVars, threadVars, scanVars, chipVars
<1>4. CASE StartServiceScan
  BY <1>0, <1>4 DEF StartServiceScan, Quiet, memberVars, queueVars, scanVars, chipVars
<1>5. ASSUME NEW s \in Services, StartService(s) PROVE TypeInv'
  <2>1. CommandQueue'
    BY <1>0, <1>5, CommandMade, CommandPushed DEF StartService, CommandQueue
  <2> QED
    BY <1>0, <1>5, <2>1 DEF StartService, CommandQueue, memberVars, threadVars, scanVars, chipVars
<1> QED
  BY <1>0, <1>1, <1>2, <1>3, <1>4, <1>5 DEF Client

LEMMA MainTypes == ASSUME TypeInv, IInv, MainStep PROVE TypeInv'
<1> USE DEF TypeInv, TypeOK, CallInv, CommandPlaces, Opening, BeforeReset, TuneSteps, Threads,
            At, Goto, Call, Stay
<1>0. DOMAIN pc = Threads
  BY DEF IInv, PlacesInv
<1>1. CASE ScanJoinsCommand
  BY <1>0, <1>1 DEF ScanJoinsCommand, memberVars, queueVars, scanVars, chipVars, clientVars
<1>2. CASE ScanThreadStarts
  BY <1>0, <1>2 DEF ScanThreadStarts, memberVars, scanVars, chipVars, clientVars
<1> QED
  BY <1>0, <1>1, <1>2 DEF MainStep

LEMMA ServiceTypes ==
  ASSUME TypeInv, IInv, NEW t \in {"command", "fib"}, ServiceStep(t) PROVE TypeInv'
<1> USE DEF TypeInv, TypeOK, CallInv, CommandPlaces, Opening, BeforeReset, TuneSteps, Threads,
            At, Goto, Call, Stay
<1>0. DOMAIN pc = Threads
  BY DEF IInv, PlacesInv
<1>1. CASE SetService(t)
  <2>1. link = NoService \/ link \in Services
    OBVIOUS
  <2>2. CASE link = NoService
    BY <1>0, <1>1, <2>2 DEF SetService, chipVars, scanVars, clientVars
  <2>3. CASE link \in Services
    <3>1. link.sub \in Subs /\ link.chan \in Frequencies
      BY <1>0, <2>3, ServiceFacts DEF Frequencies
    <3>2. CommandQueue'
      BY <1>0, <1>1, <3>1, CommandMade, CommandPushed DEF SetService, CommandQueue
    <3> QED
      BY <1>0, <1>1, <2>3, <3>1, <3>2 DEF SetService, CommandQueue, chipVars, scanVars, clientVars, Subs
  <2> QED
    BY <1>0, <2>1, <2>2, <2>3
<1>2. CASE OpenSubChannel(t)
  BY <1>0, <1>2 DEF OpenSubChannel, memberVars, queueVars, scanVars, clientVars, Subs
<1>3. CASE DecodeAudio(t)
  BY <1>0, <1>3 DEF DecodeAudio, memberVars, queueVars, scanVars, clientVars
<1> QED
  BY <1>0, <1>1, <1>2, <1>3 DEF ServiceStep

LEMMA TuneTypes ==
  ASSUME TypeInv, IInv, NEW t \in {"command", "scan"}, TuneStep(t) PROVE TypeInv'
<1> USE DEF TypeInv, TypeOK, CallInv, CommandPlaces, Opening, BeforeReset, TuneSteps, Threads,
            At, Goto, Call, Stay
<1>0. DOMAIN pc = Threads
  BY DEF IInv, PlacesInv
<1>1. CASE Tune(t)
  BY <1>0, <1>1 DEF Tune, memberVars, queueVars, scanVars, chipVars, clientVars
<1>2. CASE ResetBegin(t)
  <2>1. pc[t] \in BeforeReset /\ pc' = [pc EXCEPT ![t] = "joinFib"]
    BY <1>2 DEF ResetBegin
  <2>2. TypeOK' /\ UNCHANGED <<commandQ, arg, link, freq>>
    BY <1>2 DEF ResetBegin, queueVars, scanVars, chipVars, clientVars
  <2> QED
    BY <1>0, <2>1, <2>2
<1>3. CASE ResetEnd(t)
  <2>1. /\ freq' \in Frequencies /\ (t = "scan" => freq' \in Channels)
        /\ pc[t] \in BeforeReset
        /\ pc'[t] = "setFrequency" /\ \A u \in Threads \ {t} : pc'[u] = pc[u]
    BY <1>0, <1>3 DEF ResetEnd, Frequencies
  <2>5. t = "command" => pc["scan"] # "setFrequency"
    BY <2>1 DEF IInv, CommandInv, Commanding
  <2>2. UNCHANGED <<initialized, scanning, link, subchan, finished, chipVars, queueVars, running, arg,
                   scanVars, clientVars, failures>> /\ parser' = "empty"
    BY <1>3 DEF ResetEnd
  <2>3. TypeOK'
    BY <2>1, <2>2 DEF Frequencies, queueVars, scanVars, chipVars, clientVars
  <2>4. CallInv'
    BY <2>1, <2>2, <2>5
  <2> QED
    BY <2>2, <2>3, <2>4 DEF queueVars
<1>4. CASE SetFrequency(t)
  <2>1. visited' \subseteq Channels
    BY <1>0, <1>4, ChannelFacts DEF SetFrequency
  <2>2. link' # link => pc["command"] \notin Opening /\ pc["fib"] \notin Opening
    <3>1. t = "scan" \/ link' = link
      BY <1>4 DEF SetFrequency
    <3>2. ASSUME t = "scan" PROVE pc["command"] = "off" /\ pc["fib"] = "idle"
      BY <1>4, <3>2 DEF SetFrequency, IInv, CommandInv, TuneInv, Commanding
    <3> QED
      BY <3>1, <3>2
  <2> QED
    BY <1>0, <1>4, <2>1, <2>2 DEF SetFrequency, queueVars, chipVars, clientVars
<1> QED
  BY <1>0, <1>1, <1>2, <1>3, <1>4 DEF TuneStep

LEMMA CommandTypes == ASSUME TypeInv, IInv, CommandStep PROVE TypeInv'
<1> USE DEF TypeInv, TypeOK, CallInv, CommandPlaces, Opening, BeforeReset, TuneSteps, Threads,
            At, Goto, Call, Stay
<1>0. DOMAIN pc = Threads
  BY DEF IInv, PlacesInv
<1>1. CASE CommandTurn
  <2>1. CASE "command" \notin running \/ commandQ = <<>>
    BY <1>0, <1>1, <2>1 DEF CommandTurn, memberVars, scanVars, chipVars, clientVars
  <2>2. CASE "command" \in running /\ commandQ # <<>>
    <3> DEFINE c == Head(commandQ)
    <3>1. CommandQueue' /\ c \in Commands
      BY <1>1, <2>2, CommandTaken DEF CommandTurn, CommandQueue
    <3>2. /\ c.op \in {"init", "start", "close", "tune"}
          /\ c.op = "start" => c.arg \in Services
          /\ c.op = "tune" => c.arg \in Frequencies
      BY <3>1, CommandFacts
    <3>3. pc' = [pc EXCEPT !["command"] = c.op] /\ arg' = [arg EXCEPT !["command"] = c.arg]
      BY <1>1, <2>2 DEF CommandTurn
    <3> HIDE DEF c
    <3>4. TypeOK' /\ UNCHANGED <<link, freq>>
      BY <1>1 DEF CommandTurn, memberVars, scanVars, chipVars, clientVars
    <3>5. CallInv'
      BY <1>0, <3>2, <3>3, <3>4
    <3> QED
      BY <3>1, <3>4, <3>5 DEF CommandQueue
  <2> QED
    BY <2>1, <2>2
<1>2. CASE InitializeSync
  BY <1>0, <1>2, ZenonT(60) DEF InitializeSync, queueVars, scanVars, chipVars, clientVars
<1>3. CASE CloseSubchannel
  BY <1>0, <1>3 DEF CloseSubchannel, queueVars, scanVars, clientVars
<1>4. CASE StartServiceSync
  <2> DEFINE s == arg["command"]
  <2>1. s \in Services /\ s.chan \in Frequencies
    BY <1>4, ServiceFacts DEF StartServiceSync, Frequencies
  <2>2. CommandQueue'
    BY <1>4, <2>1, CommandMade, CommandPushed DEF StartServiceSync, CommandQueue
  <2>3. /\ pc' = [pc EXCEPT !["command"] = "idle"] \/ pc' = [pc EXCEPT !["command"] = "setService"]
        /\ arg' = arg
    BY <1>4 DEF StartServiceSync
  <2>6. /\ link' = link \/ link' = s
        /\ decoding' = decoding \/ decoding' = decoding \ {link}
        /\ finished' = finished \/ finished' = FALSE
    BY <1>4 DEF StartServiceSync
  <2>7. UNCHANGED <<initialized, scanning, freq, subchan, parser, open, scanVars, clientVars>>
    BY <1>4 DEF StartServiceSync
  <2> HIDE DEF s
  <2>4. TypeOK'
    <3>1. link' \in Services \cup {NoService}
      BY <2>1, <2>6
    <3>2. decoding' \subseteq Services
      BY <2>6
    <3>3. finished' \in BOOLEAN
      BY <1>4 DEF StartServiceSync
    <3> QED
      BY <2>7, <3>1, <3>2, <3>3 DEF scanVars, clientVars
  <2>5. CallInv'
    BY <1>0, <2>1, <2>3, <2>6, <2>7
  <2> QED
    BY <2>2, <2>4, <2>5 DEF CommandQueue
<1>5. ASSUME NEW ficInt \in BOOLEAN, ReadData(ficInt) PROVE TypeInv'
  BY <1>0, <1>5 DEF ReadData, Feed, memberVars, queueVars, scanVars, chipVars, clientVars
<1> QED
  BY <1>1, <1>2, <1>3, <1>4, <1>5, ServiceTypes, TuneTypes DEF CommandStep

LEMMA FibTypes == ASSUME TypeInv, IInv, FibStep PROVE TypeInv'
<1> USE DEF TypeInv, TypeOK, CallInv, CommandPlaces, Opening, BeforeReset, TuneSteps, Threads,
            At, Goto, Call, Stay
<1>0. DOMAIN pc = Threads
  BY DEF IInv, PlacesInv
<1>1. CASE CollectionDone
  BY <1>0, <1>1 DEF CollectionDone, queueVars, scanVars, chipVars, clientVars
<1>2. CASE EnsembleCollectFinished
  BY <1>0, <1>2 DEF EnsembleCollectFinished, PushScanNext, memberVars, chipVars, clientVars
<1> QED
  BY <1>1, <1>2, ServiceTypes DEF FibStep

(* The channel that a scan goes on to.                                      *)
LEMMA NextChannelFacts ==
  ASSUME TypeOK, scan.num + 1 < NumChannels
  PROVE  /\ NextChannel \in Channels
         /\ NextChannel = scan.num + 1 \/ NextChannel = scan.num + 2
         /\ NextChannel = scan.num + 2 => finished /\ scan.num + 1 \in NFrequencies
         /\ FreshScan(NextChannel).num = NextChannel
         /\ FreshScan(NextChannel) \in [num : Channels, wait : 0..WaitLoops, fic : 0..FicLoops]
<1>1. scan.num \in Channels /\ scan.num \in Nat
  BY DEF TypeOK, Channels
<1>2. scan.num + 1 \in Channels
  BY <1>1, ChannelFacts DEF Channels
<1>3. scan.num + 1 \in NFrequencies => (scan.num + 1) + 1 \in Channels /\ (scan.num + 1) + 1 = scan.num + 2
  BY <1>1, TunerAssumption
<1>4. /\ NextChannel \in Channels
      /\ NextChannel = scan.num + 1 \/ NextChannel = scan.num + 2
      /\ NextChannel = scan.num + 2 => finished /\ scan.num + 1 \in NFrequencies
  BY <1>1, <1>2, <1>3 DEF NextChannel
<1> QED
  BY <1>4, TunerAssumption DEF FreshScan

LEMMA ScanTypes == ASSUME TypeInv, IInv, ScanStep PROVE TypeInv'
<1> USE DEF TypeInv, TypeOK, CallInv, CommandPlaces, Opening, BeforeReset, TuneSteps, Threads,
            At, Goto, Call, Stay
<1>0. DOMAIN pc = Threads
  BY DEF IInv, PlacesInv
<1>1. CASE ScanTurn
  <2>1. pc'["scan"] \in {"off"} \cup ScanOps
    BY <1>0, <1>1, QueueTaken DEF ScanTurn, ScanQueue, IInv, PlacesInv, StartInv
  <2>2. \A u \in Threads \ {"scan"} : pc'[u] = pc[u]
    BY <1>0, <1>1 DEF ScanTurn
  <2> QED
    BY <1>1, <2>1, <2>2 DEF ScanTurn, ScanOps, memberVars, scanVars, chipVars, clientVars
<1>2. CASE StartScanCommand
  <2>1. FreshScan(0) \in [num : Channels, wait : 0..WaitLoops, fic : 0..FicLoops]
    BY ChannelFacts, TunerAssumption DEF FreshScan
  <2>2. TypeOK'
    BY <1>2, <2>1 DEF StartScanCommand, chipVars, clientVars
  <2>3. CallInv' /\ UNCHANGED commandQ
    BY <1>0, <1>2, ChannelFacts DEF StartScanCommand, queueVars
  <2> QED
    BY <2>2, <2>3
<1>3. CASE ScanNext
  <2>1. CASE scan.num + 1 < NumChannels
    <3>1. NextChannel \in Channels /\ NextChannel \in Frequencies
      BY <2>1, NextChannelFacts DEF Frequencies
    <3>2. CommandQueue'
      BY <1>3, <2>1, <3>1, CommandMade, CommandPushed DEF ScanNext, CommandQueue
    <3>3. scan' \in [num : Channels, wait : 0..WaitLoops, fic : 0..FicLoops]
      BY <1>3, <2>1, NextChannelFacts DEF ScanNext
    <3> QED
      BY <1>0, <1>3, <2>1, <3>1, <3>2, <3>3 DEF ScanNext, CommandQueue, chipVars, clientVars
  <2>2. CASE ~(scan.num + 1 < NumChannels)
    <3>1. FreshScan(0) \in [num : Channels, wait : 0..WaitLoops, fic : 0..FicLoops]
      BY ChannelFacts, TunerAssumption DEF FreshScan
    <3>2. TypeOK'
      BY <1>3, <2>2, <3>1, ZenonT(60) DEF ScanNext, chipVars, clientVars
    <3>3. CallInv' /\ UNCHANGED commandQ
      BY <1>0, <1>3, <2>2 DEF ScanNext
    <3> QED
      BY <3>2, <3>3
  <2> QED
    BY <2>1, <2>2
<1>4. CASE StopScanCommand
  BY <1>0, <1>4 DEF StopScanCommand, memberVars, queueVars, scanVars, chipVars, clientVars
<1>5. CASE EndScan
  BY <1>0, <1>5 DEF EndScan, StartReadDataThread, memberVars, queueVars, scanVars, chipVars, clientVars
<1>6. CASE LeaveScan
  <2>1. CommandQueue'
    BY <1>6, CommandMade, CommandPushed DEF LeaveScan, CommandQueue, Frequencies
  <2>2. scan' \in [num : Channels, wait : 0..WaitLoops, fic : 0..FicLoops]
    BY <1>6, ChannelFacts DEF LeaveScan
  <2> QED
    BY <1>0, <1>6, <2>1, <2>2, ZenonT(60) DEF LeaveScan, StartReadDataThread, CommandQueue, chipVars, clientVars
<1> QED
  BY <1>1, <1>2, <1>3, <1>4, <1>5, <1>6, TuneTypes DEF ScanStep

LEMMA FicTypes == ASSUME TypeInv, IInv, FicStep PROVE TypeInv'
<1> USE DEF TypeInv, TypeOK, CallInv, CommandPlaces, Opening, BeforeReset, TuneSteps, Threads,
            At, Goto, Call, Stay
<1>0. DOMAIN pc = Threads
  BY DEF IInv, PlacesInv
<1>1. CASE FicTurn
  BY <1>0, <1>1 DEF FicTurn, memberVars, queueVars, scanVars, chipVars, clientVars
<1>2. CASE FicNoLock
  <2>1. \A step \in LockSteps : step \in Nat
    BY DEF LockSteps
  <2>2. scan' \in [num : Channels, wait : 0..WaitLoops, fic : 0..FicLoops] /\ surplus' \in BOOLEAN
    <3>1. PICK step \in LockSteps : scan' = [scan EXCEPT !.wait = IF @ > step THEN @ - step ELSE 0]
      BY <1>2 DEF FicNoLock
    <3>2. (IF scan.wait > step THEN scan.wait - step ELSE 0) \in 0..WaitLoops
      BY <2>1, TunerAssumption
    <3>3. surplus' \in BOOLEAN
      BY <1>2 DEF FicNoLock, PushScanNext
    <3> QED
      BY <3>1, <3>2, <3>3
  <2> QED
    BY <1>0, <1>2, <2>2 DEF FicNoLock, memberVars, chipVars, clientVars
<1>3. CASE FicReadData
  <2>1. scan' \in [num : Channels, wait : 0..WaitLoops, fic : 0..FicLoops] /\ surplus' \in BOOLEAN
    <3>1. scan' = [scan EXCEPT !.fic = IF @ > 1 THEN @ - 1 ELSE 0]
      BY <1>3 DEF FicReadData
    <3>2. (IF scan.fic > 1 THEN scan.fic - 1 ELSE 0) \in 0..FicLoops
      BY TunerAssumption
    <3>3. surplus' \in BOOLEAN
      BY <1>3 DEF FicReadData, PushScanNext
    <3> QED
      BY <3>1, <3>2, <3>3
  <2> QED
    BY <1>0, <1>3, <2>1 DEF FicReadData, Feed, memberVars, chipVars, clientVars
<1>4. CASE FicNoInterrupt
  BY <1>0, <1>4 DEF FicNoInterrupt, memberVars, queueVars, scanVars, chipVars, clientVars
<1> QED
  BY <1>1, <1>2, <1>3, <1>4 DEF FicStep

LEMMA StepTypes == ASSUME TypeInv, IInv, [Next]_vars PROVE TypeInv'
<1>1. CASE UNCHANGED vars
  BY <1>1 DEF vars, memberVars, queueVars, threadVars, chipVars, clientVars, scanVars, TypeInv, TypeOK,
              CallInv, At
<1> QED
  BY <1>1, ClientTypes, MainTypes, CommandTypes, FibTypes, ScanTypes, FicTypes DEF Next

-----------------------------------------------------------------------------
(* The collection.  A step that only adds to the queue of commands leaves    *)
(* what is pending there.                                                   *)
LEMMA QueueSame == ASSUME UNCHANGED commandQ PROVE Queued' = Queued
BY DEF Queued

LEMMA InitCollect == Init => JoinInv /\ CollectInv
<1> SUFFICES ASSUME Init PROVE JoinInv /\ CollectInv
  OBVIOUS
<1>1. /\ running = {"command"} /\ parser = "empty" /\ freq = NoFreq /\ link = NoService
      /\ pc["command"] = "idle"
  BY DEF Init, Threads
<1> QED
  BY <1>1 DEF CollectInv, JoinInv

LEMMA JoinKeeps == ASSUME JoinInv, IInv, [Next]_vars PROVE JoinInv'
<1> USE DEF JoinInv, At, Goto, Call, Stay
<1>0. DOMAIN pc = Threads /\ {"main", "command", "scan", "fic", "fib"} = Threads
  BY DEF IInv, PlacesInv, Threads
<1>1. CASE Client
  BY <1>0, <1>1 DEF Client, Initialize, StopService, StopServiceScan, StartServiceScan, StartService, Quiet,
                    threadVars
<1>2. CASE MainStep
  BY <1>0, <1>2 DEF MainStep, ScanJoinsCommand, ScanThreadStarts, IInv, MainInv, CommandInv, Commanding
<1>3. ASSUME NEW t \in {"command", "fib"}, ServiceStep(t) PROVE JoinInv'
  BY <1>0, <1>3 DEF ServiceStep, SetService, OpenSubChannel, DecodeAudio
<1>4. ASSUME NEW t \in {"command", "scan"}, TuneStep(t) PROVE JoinInv'
  BY <1>0, <1>4 DEF TuneStep, Tune, ResetBegin, ResetEnd, SetFrequency
<1>5. CASE CommandStep
  <2>1. CASE CommandTurn \/ InitializeSync \/ CloseSubchannel \/ StartServiceSync
    BY <1>0, <2>1 DEF CommandTurn, InitializeSync, CloseSubchannel, StartServiceSync
  <2>2. ASSUME NEW ficInt \in BOOLEAN, ReadData(ficInt) PROVE JoinInv'
    BY <1>0, <2>2 DEF ReadData
  <2> QED
    BY <1>3, <1>4, <1>5, <2>1, <2>2 DEF CommandStep
<1>6. CASE FibStep
  BY <1>0, <1>3, <1>6 DEF FibStep, CollectionDone, EnsembleCollectFinished
<1>7. CASE ScanStep
  <2>1. CASE ScanTurn \/ StartScanCommand \/ ScanNext \/ StopScanCommand
    BY <1>0, <2>1 DEF ScanTurn, StartScanCommand, ScanNext, StopScanCommand
  <2>2. CASE EndScan \/ LeaveScan
    BY <1>0, <2>2 DEF EndScan, LeaveScan, StartReadDataThread
  <2> QED
    BY <1>4, <1>7, <2>1, <2>2 DEF ScanStep
<1>8. CASE FicStep
  BY <1>0, <1>8 DEF FicStep, FicTurn, FicNoLock, FicReadData, FicNoInterrupt
<1>9. CASE UNCHANGED vars
  BY <1>9 DEF vars, threadVars
<1> QED
  BY <1>1, <1>2, <1>5, <1>6, <1>7, <1>8, <1>9 DEF Next

LEMMA ClientCollect == ASSUME CollectInv, TypeInv, IInv, Client PROVE CollectInv'
<1> USE DEF CollectInv, TunePending, TuneQueued, BeforeReset, At
<1>1. /\ Queued \subseteq Queued'
      /\ UNCHANGED <<parser, freq, link, initialized, finished>>
      /\ pc' = pc \/ pc' = [pc EXCEPT !["main"] = "joinCommand"]
  <2> USE DEF CommandQueue, TypeInv, memberVars, threadVars, chipVars, Goto
  <2>1. CASE Initialize
    BY <2>1, CommandMade, CommandPushed DEF Initialize
  <2>2. CASE StopService
    BY <2>2, CommandMade, CommandPushed DEF StopService, TypeOK, Subs
  <2>3. CASE StopServiceScan
    BY <2>3, QueueSame DEF StopServiceScan
  <2>4. CASE StartServiceScan
    BY <2>4, QueueSame DEF StartServiceScan, queueVars
  <2>5. ASSUME NEW s \in Services, StartService(s) PROVE Queued \subseteq Queued' /\ UNCHANGED <<memberVars, parser, pc>>
    BY <2>5, QueueSame, CommandMade, CommandPushed DEF StartService
  <2> QED
    BY <2>1, <2>2, <2>3, <2>4, <2>5 DEF Client
<1>2. pc'["command"] = pc["command"] /\ pc'["scan"] = pc["scan"]
  BY <1>1 DEF IInv, PlacesInv, Threads
<1> QED
  BY <1>1, <1>2

LEMMA MainCollect == ASSUME CollectInv, TypeInv, IInv, MainStep PROVE CollectInv'
<1> USE DEF CollectInv, TunePending, TuneQueued, BeforeReset, At, Goto, IInv, PlacesInv, Threads
<1>1. CASE ScanJoinsCommand
  BY <1>1, QueueSame DEF ScanJoinsCommand, memberVars, queueVars
<1>2. CASE ScanThreadStarts
  BY <1>2, QueueSame DEF ScanThreadStarts, memberVars
<1> QED
  BY <1>1, <1>2 DEF MainStep

LEMMA ServiceCollect ==
  ASSUME CollectInv, TypeInv, IInv, NEW t \in {"command", "fib"}, ServiceStep(t) PROVE CollectInv'
<1> USE DEF CollectInv, TunePending, TuneQueued, BeforeReset, At, Goto, Call, Stay
<1>0. DOMAIN pc = Threads /\ {"command", "scan", t} \subseteq Threads /\ t # "scan"
  BY DEF IInv, PlacesInv, Threads
<1>1. CASE SetService(t)
  <2>1. Queued \subseteq Queued'
    <3>1. CASE UNCHANGED commandQ
      BY <3>1, QueueSame
    <3>2. CASE link # NoService /\ commandQ' = Append(commandQ, Cmd("tune", link.chan))
      <4>1. link \in Services
        BY <3>2 DEF TypeInv, TypeOK
      <4>2. Cmd("tune", link.chan) \in Commands
        BY <4>1, ServiceFacts, CommandMade DEF Frequencies
      <4> QED
        BY <3>2, <4>2, CommandPushed DEF CommandQueue, TypeInv
    <3> QED
      BY <1>1, <3>1, <3>2 DEF SetService
  <2>2. UNCHANGED <<initialized, link, freq, finished, parser>> /\ pc[t] = "setService"
    BY <1>1 DEF SetService
  <2>3. pc' = [pc EXCEPT ![t] = "idle"] \/ pc' = [pc EXCEPT ![t] = "open"]
    BY <1>1 DEF SetService
  <2> QED
    BY <1>0, <2>1, <2>2, <2>3
<1>2. CASE OpenSubChannel(t)
  BY <1>0, <1>2, QueueSame DEF OpenSubChannel, memberVars, queueVars
<1>3. CASE DecodeAudio(t)
  BY <1>0, <1>3, QueueSame DEF DecodeAudio, memberVars, queueVars
<1> QED
  BY <1>1, <1>2, <1>3 DEF ServiceStep

LEMMA TuneCollect ==
  ASSUME CollectInv, TypeInv, IInv, NEW t \in {"command", "scan"}, TuneStep(t) PROVE CollectInv'
<1> USE DEF CollectInv, TunePending, TuneQueued, BeforeReset, At, Goto, Call, Stay
<1>0. DOMAIN pc = Threads /\ "command" \in Threads /\ "scan" \in Threads /\ "fic" \in Threads
  BY DEF IInv, PlacesInv, Threads
<1>1. CASE Tune(t)
  <2>1. parser # "empty" => initialized
    BY ChannelFacts
  <2> QED
    BY <1>0, <1>1, <2>1, QueueSame DEF Tune, memberVars, queueVars
<1>2. CASE ResetBegin(t)
  BY <1>0, <1>2, QueueSame DEF ResetBegin, queueVars
<1>3. CASE ResetEnd(t)
  <2>1. initialized
    BY <1>3 DEF ResetEnd, IInv, ScanInv, TuneSteps
  <2> QED
    BY <1>0, <1>3, <2>1, QueueSame DEF ResetEnd, queueVars
<1>4. CASE SetFrequency(t)
  BY <1>0, <1>4, QueueSame DEF SetFrequency, queueVars
<1> QED
  BY <1>1, <1>2, <1>3, <1>4 DEF TuneStep

LEMMA CommandCollect == ASSUME ServiceInv, CommandStep PROVE CollectInv'
<1> USE DEF ServiceInv, CollectInv, TunePending, TuneQueued, BeforeReset, At, Goto, Call, Stay
<1>0. DOMAIN pc = Threads /\ "command" \in Threads /\ "scan" \in Threads
  BY DEF IInv, PlacesInv, Threads
<1>1. CASE CommandTurn
  <2>1. CASE UNCHANGED commandQ
    BY <1>0, <1>1, <2>1, QueueSame DEF CommandTurn, memberVars
  <2>2. CASE commandQ # <<>> /\ commandQ' = Tail(commandQ) /\ pc' = [pc EXCEPT !["command"] = Head(commandQ).op]
    <3> DEFINE c == Head(commandQ)
    <3>1. c \in Commands /\ Queued = Queued' \cup {c}
      BY <2>2, CommandTaken DEF TypeInv, CommandQueue
    <3>2. c.op \in {"init", "start", "close", "tune"}
      BY <3>1, CommandFacts
    <3>3. pc' = [pc EXCEPT !["command"] = c.op] /\ pc["command"] = "idle"
      BY <1>1, <2>2 DEF CommandTurn
    <3> HIDE DEF c
    <3> QED
      BY <1>0, <1>1, <3>1, <3>2, <3>3 DEF CommandTurn, memberVars
  <2> QED
    BY <1>1, <2>1, <2>2 DEF CommandTurn
<1>2. CASE InitializeSync
  BY <1>0, <1>2, QueueSame DEF InitializeSync, queueVars
<1>3. CASE CloseSubchannel
  BY <1>0, <1>3, QueueSame DEF CloseSubchannel, queueVars
<1>4. CASE StartServiceSync
  <2> DEFINE s == arg["command"]
  <2>1. s \in Services /\ Cmd("tune", s.chan) \in Commands /\ Cmd("tune", s.chan).op = "tune"
    BY <1>4, ServiceFacts, CommandMade DEF StartServiceSync, TypeInv, CallInv, Frequencies
  <2>2. \/ Queued' = Queued /\ finished' = finished
        \/ Queued' = Queued \cup {Cmd("tune", s.chan)}
    BY <1>4, <2>1, QueueSame, CommandPushed DEF StartServiceSync, TypeInv, CommandQueue
  <2>3. UNCHANGED <<parser, freq, initialized>> /\ pc["command"] = "start"
    BY <1>4 DEF StartServiceSync
  <2>4. link' # link => link' = s
    BY <1>4 DEF StartServiceSync
  <2>5. pc' = [pc EXCEPT !["command"] = "idle"] \/ pc' = [pc EXCEPT !["command"] = "setService"]
    BY <1>4 DEF StartServiceSync
  <2>6. initialized
    BY <2>3 DEF AskedInv, StartCommanded, NoScan
  <2> HIDE DEF s
  <2> QED
    BY <1>0, <2>1, <2>2, <2>3, <2>4, <2>5, <2>6
<1>5. ASSUME NEW ficInt \in BOOLEAN, ReadData(ficInt) PROVE CollectInv'
  BY <1>0, <1>5, QueueSame DEF ReadData, Feed, memberVars, queueVars
<1> QED
  BY <1>1, <1>2, <1>3, <1>4, <1>5, ServiceCollect, TuneCollect DEF CommandStep

LEMMA FibCollect == ASSUME CollectInv, TypeInv, IInv, FibStep PROVE CollectInv'
<1> USE DEF CollectInv, TunePending, TuneQueued, BeforeReset, At, Goto, Call, Stay
<1>0. DOMAIN pc = Threads /\ "command" \in Threads /\ "scan" \in Threads
  BY DEF IInv, PlacesInv, Threads
<1>1. CASE CollectionDone
  BY <1>0, <1>1, QueueSame DEF CollectionDone, queueVars
<1>2. CASE EnsembleCollectFinished
  BY <1>0, <1>2, QueueSame DEF EnsembleCollectFinished, memberVars
<1> QED
  BY <1>1, <1>2, ServiceCollect DEF FibStep

LEMMA ScanCollect == ASSUME CollectInv, JoinInv, TypeInv, IInv, ScanStep PROVE CollectInv'
<1> USE DEF CollectInv, TunePending, TuneQueued, BeforeReset, At, Goto, Call, Stay
<1>0. DOMAIN pc = Threads /\ "command" \in Threads /\ "scan" \in Threads
  BY DEF IInv, PlacesInv, Threads
<1>1. CASE ScanTurn
  BY <1>0, <1>1, QueueSame DEF ScanTurn, memberVars
<1>2. CASE StartScanCommand
  BY <1>0, <1>2, QueueSame DEF StartScanCommand, queueVars
<1>3. CASE ScanNext
  <2>1. Queued \subseteq Queued'
    <3>1. CASE UNCHANGED commandQ
      BY <3>1, QueueSame
    <3>2. CASE scan.num + 1 < NumChannels /\ commandQ' = Append(commandQ, Cmd("tune", NextChannel))
      BY <3>2, NextChannelFacts, CommandMade, CommandPushed DEF CommandQueue, TypeInv, Frequencies
    <3> QED
      BY <1>3, <3>1, <3>2 DEF ScanNext
  <2>2. UNCHANGED <<initialized, link, freq, finished, parser>> /\ pc["scan"] = "scanNext"
    BY <1>3 DEF ScanNext
  <2>3. pc'["command"] = pc["command"]
    BY <1>0, <1>3 DEF ScanNext
  <2> QED
    BY <2>1, <2>2, <2>3
<1>4. CASE StopScanCommand
  BY <1>0, <1>4, QueueSame DEF StopScanCommand, memberVars, queueVars
<1>5. CASE EndScan
  <2>1. \/ pc'["command"] = pc["command"]
        \/ pc'["command"] = "idle" /\ pc["command"] = "off"
    BY <1>0, <1>5 DEF EndScan, StartReadDataThread, IInv, MainInv, JoinInv
  <2> QED
    BY <1>0, <1>5, <2>1, QueueSame DEF EndScan, StartReadDataThread, memberVars, queueVars
<1>6. CASE LeaveScan
  <2>1. Queued \subseteq Queued'
    BY <1>6, CommandMade, CommandPushed DEF LeaveScan, CommandQueue, TypeInv, Frequencies
  <2>2. \/ pc'["command"] = pc["command"]
        \/ pc'["command"] = "idle" /\ pc["command"] = "off"
    BY <1>0, <1>6 DEF LeaveScan, StartReadDataThread, IInv, MainInv, JoinInv
  <2> QED
    BY <1>6, <2>1, <2>2 DEF LeaveScan
<1> QED
  BY <1>1, <1>2, <1>3, <1>4, <1>5, <1>6, TuneCollect DEF ScanStep

LEMMA FicCollect == ASSUME CollectInv, TypeInv, IInv, FicStep PROVE CollectInv'
<1> USE DEF CollectInv, TunePending, TuneQueued, BeforeReset, At, Goto
<1>0. DOMAIN pc = Threads /\ "command" \in Threads /\ "scan" \in Threads
  BY DEF IInv, PlacesInv, Threads
<1>1. CASE FicTurn
  BY <1>0, <1>1, QueueSame DEF FicTurn, memberVars, queueVars
<1>2. CASE FicNoLock
  BY <1>0, <1>2, QueueSame DEF FicNoLock, memberVars
<1>3. CASE FicReadData
  BY <1>0, <1>3, QueueSame DEF FicReadData, Feed, memberVars
<1>4. CASE FicNoInterrupt
  BY <1>0, <1>4, QueueSame DEF FicNoInterrupt, memberVars, queueVars
<1> QED
  BY <1>1, <1>2, <1>3, <1>4 DEF FicStep
-----------------------------------------------------------------------------
(* The link.                                                               *)
LEMMA InitLinked == Init => LinkedInv
BY DEF Init, LinkedInv

LEMMA ClientLinked == ASSUME ServiceInv, Client PROVE LinkedInv'
<1> USE DEF ServiceInv, LinkedInv, TunePending, TuneQueued, BeforeReset, At
<1>1. /\ \A c \in Queued' : c \in Queued \/ c.op # "tune"
      /\ Queued \subseteq Queued'
      /\ UNCHANGED <<freq, link, scanning, arg>>
      /\ pc' = pc \/ pc' = [pc EXCEPT !["main"] = "joinCommand"]
      /\ UNCHANGED scanQ \/ scanning
  <2> USE DEF CommandQueue, TypeInv, memberVars, threadVars, chipVars, Goto
  <2>1. CASE Initialize
    BY <2>1, CommandMade, CommandPushed DEF Initialize
  <2>2. CASE StopService
    BY <2>2, CommandMade, CommandPushed DEF StopService, TypeOK, Subs
  <2>3. CASE StopServiceScan
    BY <2>3, QueueSame DEF StopServiceScan
  <2>4. CASE StartServiceScan
    BY <2>4, QueueSame DEF StartServiceScan, queueVars
  <2>5. ASSUME NEW s \in Services, StartService(s)
        PROVE  /\ \A c \in Queued' : c \in Queued \/ c.op # "tune"
               /\ Queued \subseteq Queued'
               /\ UNCHANGED <<memberVars, threadVars, scanQ>>
    BY <2>5, QueueSame, CommandMade, CommandPushed DEF StartService
  <2> QED
    BY <2>1, <2>2, <2>3, <2>4, <2>5 DEF Client
<1>2. pc'["command"] = pc["command"] /\ pc'["scan"] = pc["scan"]
  BY <1>1 DEF IInv, PlacesInv, Threads
<1> QED
  BY <1>1, <1>2

LEMMA MainLinked == ASSUME ServiceInv, MainStep PROVE LinkedInv'
<1> USE DEF ServiceInv, LinkedInv, TunePending, TuneQueued, BeforeReset, At, Goto
<1>0. DOMAIN pc = Threads /\ {"main", "command", "scan"} \subseteq Threads
  BY DEF IInv, PlacesInv, Threads
<1>1. CASE ScanJoinsCommand
  BY <1>0, <1>1, QueueSame DEF ScanJoinsCommand, memberVars, queueVars
<1>2. CASE ScanThreadStarts
  <2>1. scanQ' = <<Cmd("startScan", 0)>>
    BY <1>2 DEF ScanThreadStarts, IInv, MainInv
  <2>2. \A i \in DOMAIN scanQ' : scanQ'[i].op = "startScan"
    BY <2>1 DEF Cmd
  <2> QED
    BY <1>0, <1>2, <2>2, QueueSame DEF ScanThreadStarts, memberVars
<1> QED
  BY <1>1, <1>2 DEF MainStep

LEMMA ServiceLinked ==
  ASSUME ServiceInv, NEW t \in {"command", "fib"}, ServiceStep(t) PROVE LinkedInv'
<1> USE DEF ServiceInv, LinkedInv, TunePending, TuneQueued, BeforeReset, At, Goto, Call, Stay
<1>0. DOMAIN pc = Threads /\ {"command", "scan", t} \subseteq Threads /\ t # "scan"
  BY DEF IInv, PlacesInv, Threads
<1>1. CASE SetService(t)
  <2>1. \/ Queued' = Queued
        \/ link # NoService /\ Queued' = Queued \cup {Cmd("tune", link.chan)}
    <3>1. CASE UNCHANGED commandQ
      BY <3>1, QueueSame
    <3>2. CASE link # NoService /\ commandQ' = Append(commandQ, Cmd("tune", link.chan))
      <4>1. link \in Services
        BY <3>2 DEF TypeInv, TypeOK
      <4>2. Cmd("tune", link.chan) \in Commands
        BY <4>1, ServiceFacts, CommandMade DEF Frequencies
      <4> QED
        BY <3>2, <4>2, CommandPushed DEF CommandQueue, TypeInv
    <3> QED
      BY <1>1, <3>1, <3>2 DEF SetService
  <2>2. UNCHANGED <<scanning, link, freq, scanQ>> /\ pc[t] = "setService"
    BY <1>1 DEF SetService
  <2>3. \/ pc' = [pc EXCEPT ![t] = "idle"] /\ arg' = arg
        \/ pc' = [pc EXCEPT ![t] = "open"] /\ arg' = [arg EXCEPT ![t] = link.sub]
    BY <1>1 DEF SetService
  <2>4. arg'["command"] = arg["command"] \/ pc'["command"] \notin BeforeReset
    BY <1>0, <2>3 DEF TypeInv, CallInv
  <2>5. Cmd("tune", link.chan).arg = link.chan
    BY CommandMade
  <2> QED
    BY <1>0, <2>1, <2>2, <2>3, <2>4, <2>5
<1>2. CASE OpenSubChannel(t)
  BY <1>0, <1>2, QueueSame DEF OpenSubChannel, memberVars, queueVars
<1>3. CASE DecodeAudio(t)
  BY <1>0, <1>3, QueueSame DEF DecodeAudio, memberVars, queueVars
<1> QED
  BY <1>1, <1>2, <1>3 DEF ServiceStep

LEMMA TuneLinked ==
  ASSUME ServiceInv, NEW t \in {"command", "scan"}, TuneStep(t) PROVE LinkedInv'
<1> USE DEF ServiceInv, LinkedInv, TunePending, TuneQueued, BeforeReset, TuneSteps, At, Goto, Call, Stay
<1>0. DOMAIN pc = Threads /\ {"command", "scan", "fic"} \subseteq Threads
  BY DEF IInv, PlacesInv, Threads
<1>1. CASE Tune(t)
  <2>1. link # NoService => initialized
    BY DEF CollectInv
  <2> QED
    BY <1>0, <1>1, <2>1, QueueSame DEF Tune, memberVars, queueVars
<1>2. CASE ResetBegin(t)
  BY <1>0, <1>2, QueueSame DEF ResetBegin, queueVars
<1>3. CASE ResetEnd(t)
  BY <1>0, <1>3, QueueSame DEF ResetEnd, queueVars
<1>4. CASE SetFrequency(t)
  <2>1. CASE t = "command"
    BY <1>0, <1>4, <2>1, QueueSame DEF SetFrequency, queueVars, IInv, CommandInv, Commanding
  <2>2. CASE t = "scan"
    <3>1. link' = NoService
      BY <1>4, <2>2 DEF SetFrequency, IInv, ScanInv, LinkInv
    <3> QED
      BY <3>1
  <2> QED
    BY <2>1, <2>2
<1> QED
  BY <1>1, <1>2, <1>3, <1>4 DEF TuneStep

LEMMA CommandLinked == ASSUME ServiceInv, CommandStep PROVE LinkedInv'
<1> USE DEF ServiceInv, LinkedInv, TunePending, TuneQueued, BeforeReset, At, Goto, Call, Stay
<1>0. DOMAIN pc = Threads /\ DOMAIN arg = Threads /\ "command" \in Threads /\ "scan" \in Threads
  BY DEF IInv, PlacesInv, Threads, TypeInv, CallInv
<1>1. CASE CommandTurn
  <2>1. CASE UNCHANGED commandQ
    BY <1>0, <1>1, <2>1, QueueSame DEF CommandTurn, memberVars
  <2>2. CASE commandQ # <<>> /\ commandQ' = Tail(commandQ) /\ "command" \in running
    <3> DEFINE c == Head(commandQ)
    <3>1. c \in Commands /\ Queued = Queued' \cup {c}
      BY <2>2, CommandTaken DEF TypeInv, CommandQueue
    <3>2. c.op \in {"init", "start", "close", "tune"}
      BY <3>1, CommandFacts
    <3>3. /\ pc' = [pc EXCEPT !["command"] = c.op] /\ arg' = [arg EXCEPT !["command"] = c.arg]
          /\ pc["command"] = "idle"
      BY <1>1, <2>2 DEF CommandTurn
    <3>4. UNCHANGED <<memberVars, scanQ>>
      BY <1>1 DEF CommandTurn
    <3> HIDE DEF c
    <3> QED
      BY <1>0, <3>1, <3>2, <3>3, <3>4 DEF memberVars
  <2> QED
    BY <1>1, <2>1, <2>2 DEF CommandTurn
<1>2. CASE InitializeSync
  BY <1>0, <1>2, QueueSame DEF InitializeSync, queueVars
<1>3. CASE CloseSubchannel
  BY <1>0, <1>3, QueueSame DEF CloseSubchannel, queueVars
<1>4. CASE StartServiceSync
  <2> DEFINE s == arg["command"]
  <2>1. s \in Services /\ Cmd("tune", s.chan) \in Commands
    BY <1>4, ServiceFacts, CommandMade DEF StartServiceSync, TypeInv, CallInv, Frequencies
  <2>2. commandQ = <<>> /\ scanQ = <<>> /\ pc["scan"] \in {"off", "idle"} /\ pc["command"] = "start"
    BY <1>4 DEF StartServiceSync, AskedInv, StartCommanded, Starting, NoScan
  <2>3. Queued = {}
    BY <2>2, QueueEmpty DEF TypeInv, CommandQueue
  <2>4. \/ Queued' = {} /\ (link' = s => freq = s.chan \/ link' = link)
        \/ Queued' = {Cmd("tune", s.chan)} /\ link' = s
    BY <1>4, <2>1, <2>3, QueueSame, CommandPushed DEF StartServiceSync, TypeInv, CommandQueue
  <2>5. link' = link \/ link' = s
    BY <1>4 DEF StartServiceSync
  <2>6. pc' = [pc EXCEPT !["command"] = "idle"] \/ pc' = [pc EXCEPT !["command"] = "setService"]
    BY <1>4 DEF StartServiceSync
  <2>7. UNCHANGED <<freq, scanQ, scanning>>
    BY <1>4 DEF StartServiceSync
  <2>8. Cmd("tune", s.chan).op = "tune" /\ Cmd("tune", s.chan).arg = s.chan
    BY CommandMade
  <2> HIDE DEF s
  <2> QED
    BY <1>0, <2>2, <2>3, <2>4, <2>5, <2>6, <2>7, <2>8
<1>5. ASSUME NEW ficInt \in BOOLEAN, ReadData(ficInt) PROVE LinkedInv'
  BY <1>0, <1>5, QueueSame DEF ReadData, memberVars, queueVars
<1> QED
  BY <1>1, <1>2, <1>3, <1>4, <1>5, ServiceLinked, TuneLinked DEF CommandStep

LEMMA FibLinked == ASSUME ServiceInv, FibStep PROVE LinkedInv'
<1> USE DEF ServiceInv, LinkedInv, TunePending, TuneQueued, BeforeReset, At, Goto
<1>0. DOMAIN pc = Threads /\ {"command", "scan", "fib"} \subseteq Threads
  BY DEF IInv, PlacesInv, Threads
<1>1. CASE CollectionDone
  BY <1>0, <1>1, QueueSame DEF CollectionDone, queueVars
<1>2. CASE EnsembleCollectFinished
  BY <1>0, <1>2, QueueSame DEF EnsembleCollectFinished, memberVars
<1> QED
  BY <1>1, <1>2, ServiceLinked DEF FibStep

LEMMA ScanLinked == ASSUME ServiceInv, ScanStep PROVE LinkedInv'
<1> USE DEF ServiceInv, LinkedInv, TunePending, TuneQueued, BeforeReset, TuneSteps, At, Goto, Call, Stay
<1>0. DOMAIN pc = Threads /\ {"command", "scan"} \subseteq Threads
  BY DEF IInv, PlacesInv, Threads
<1>1. CASE ScanTurn
  <2>1. CASE link = NoService
    BY <1>1, <2>1 DEF ScanTurn, memberVars
  <2>2. CASE link # NoService
    <3>1. \A i \in DOMAIN scanQ : scanQ[i].op = "startScan"
      BY <1>1, <2>2 DEF ScanTurn, IInv, LinkInv
    <3>2. pc' = [pc EXCEPT !["scan"] = "off"] \/ pc' = [pc EXCEPT !["scan"] = "startScan"]
      <4>1. scanQ # <<>> => Head(scanQ).op = "startScan"
        BY <3>1, FirstAndRest DEF IInv, PlacesInv
      <4> QED
        BY <1>1, <4>1 DEF ScanTurn
    <3>3. \A i \in DOMAIN scanQ' : scanQ'[i].op = "startScan"
      <4>1. scanQ # <<>> => \A i \in DOMAIN Tail(scanQ) : Tail(scanQ)[i].op = "startScan"
        BY <3>1, FirstAndRest DEF IInv, PlacesInv
      <4> QED
        BY <1>1, <3>1, <4>1 DEF ScanTurn
    <3>4. UNCHANGED <<memberVars, commandQ, arg>> /\ pc["scan"] = "idle"
      BY <1>1 DEF ScanTurn
    <3> QED
      BY <1>0, <3>2, <3>3, <3>4, QueueSame DEF memberVars
  <2> QED
    BY <2>1, <2>2
<1>2. CASE StartScanCommand
  BY <1>0, <1>2, QueueSame DEF StartScanCommand, queueVars
<1>3. CASE ScanNext \/ StopScanCommand \/ EndScan \/ LeaveScan
  <2>1. link = NoService /\ link' = link
    BY <1>3 DEF ScanNext, StopScanCommand, EndScan, LeaveScan, memberVars
  <2> QED
    BY <2>1
<1> QED
  BY <1>1, <1>2, <1>3, TuneLinked DEF ScanStep

LEMMA FicLinked == ASSUME ServiceInv, FicStep PROVE LinkedInv'
<1>1. link = NoService /\ link' = link
  BY DEF ServiceInv, IInv, LinkInv, At, FicStep, FicTurn, FicNoLock, FicReadData, FicNoInterrupt, memberVars
<1> QED
  BY <1>1 DEF LinkedInv
-----------------------------------------------------------------------------
(* The request.  A step that leaves it alone keeps what is known of it.      *)
LEMMA OneQueued == ASSUME NEW c, commandQ = <<c>> PROVE Queued = {c}
BY DEF Queued

LEMMA NothingAsked ==
  ASSUME AskedInv, asked = NoService, asked' = NoService,
         \A c \in Queued' : c \in Queued \/ c.op # "start",
         pc'["command"] = "start" => pc["command"] = "start"
  PROVE  AskedInv'
BY DEF AskedInv, StartCommanded, At

LEMMA RequestKept ==
  ASSUME AskedInv, asked # NoService, asked' = asked, NoScan',
         Starting => Starting' \/ (Started' /\ ~StartCommanded'),
         Started => Started',
         ~StartCommanded => ~StartCommanded'
  PROVE  AskedInv'
BY DEF AskedInv

(* Behind the request for an ensemble that is tuned no tuning is pending.    *)
LEMMA StartingAlone ==
  ASSUME ServiceInv, Starting, asked # NoService
  PROVE  /\ ~TunePending /\ pc["command"] \in {"off", "idle", "read", "start"}
         /\ link # NoService => link.chan = freq
         /\ pc["fib"] # "idle" => freq # asked.chan
         /\ parser = "done" => finished
<1>1. Queued = {Cmd("start", asked)} \/ Queued = {}
  BY OneQueued, QueueEmpty DEF Starting, ServiceInv, TypeInv, CommandQueue
<1>2. ~TunePending /\ pc["command"] \in {"off", "idle", "read", "start"}
  BY <1>1, CommandMade DEF Starting, TunePending, TuneQueued, BeforeReset, At
<1>3. pc["scan"] \in {"off", "idle"}
  BY DEF ServiceInv, AskedInv, NoScan
<1> QED
  BY <1>2, <1>3 DEF Starting, At, ServiceInv, LinkedInv, CollectInv

LEMMA InitAsked == Init => AskedInv
<1> SUFFICES ASSUME Init PROVE AskedInv
  OBVIOUS
<1>1. asked = NoService /\ pc["command"] = "idle"
  BY DEF Init, Threads
<1>2. Queued = {Cmd("init", 0)}
  BY OneQueued DEF Init
<1> QED
  BY <1>1, <1>2, CommandMade DEF AskedInv, StartCommanded, At

LEMMA ClientAsked == ASSUME ServiceInv, Client PROVE AskedInv'
<1> USE DEF ServiceInv
<1>0. DOMAIN pc = Threads /\ {"main", "command", "scan", "fic", "fib"} = Threads
  BY DEF IInv, PlacesInv, Threads
<1>1. CASE Initialize
  <2>1. asked = NoService
    BY <1>1 DEF Initialize, AskedInv, NoScan
  <2>2. Queued' = Queued \cup {Cmd("init", 0)}
    BY <1>1, CommandMade, CommandPushed DEF Initialize, TypeInv, CommandQueue
  <2> QED
    BY <1>1, <2>1, <2>2, NothingAsked, CommandMade DEF Initialize, threadVars, clientVars
<1>2. CASE StopService
  <2>1. Queued = {}
    BY <1>2, QueueEmpty DEF StopService, Quiet, TypeInv, CommandQueue
  <2>2. Queued' = {Cmd("close", subchan)}
    BY <1>2, <2>1, CommandMade, CommandPushed DEF StopService, TypeInv, TypeOK, CommandQueue, Subs
  <2>3. asked' = NoService /\ pc'["command"] # "start"
    BY <1>2 DEF StopService, Quiet, threadVars
  <2> QED
    BY <2>2, <2>3, CommandMade DEF AskedInv, StartCommanded, At
<1>3. CASE StopServiceScan
  <2>1. asked = NoService
    BY <1>3 DEF StopServiceScan, AskedInv, NoScan
  <2> QED
    BY <1>3, <2>1, NothingAsked, QueueSame DEF StopServiceScan, threadVars
<1>4. CASE StartServiceScan
  <2>1. Queued' = {}
    BY <1>4, QueueEmpty, QueueSame DEF StartServiceScan, Quiet, TypeInv, CommandQueue, queueVars
  <2>2. asked' = NoService /\ pc'["command"] # "start"
    BY <1>0, <1>4 DEF StartServiceScan, Quiet, Goto
  <2> QED
    BY <2>1, <2>2 DEF AskedInv, StartCommanded, At
<1>5. ASSUME NEW s \in Services, StartService(s) PROVE AskedInv'
  <2>1. /\ Quiet /\ Ready(s) /\ asked' = s /\ s # NoService
        /\ UNCHANGED <<memberVars, parser, chipVars, scanQ, threadVars>>
    BY <1>5, ServiceFacts DEF StartService
  <2>2. commandQ = <<>> /\ Queued = {} /\ pc["command"] \in {"idle", "read"} /\ At("fib", "idle")
    BY <2>1, QueueEmpty DEF Quiet, TypeInv, CommandQueue
  <2>3. NoScan'
    BY <2>1 DEF Quiet, NoScan, At, memberVars, threadVars
  <2>4. CASE link # s
    <3>1. commandQ' = <<Cmd("start", s)>>
      BY <1>5, <2>2, <2>4 DEF StartService
    <3>2. Starting'
      BY <2>1, <2>2, <3>1 DEF Starting, Ready, At, memberVars, threadVars
    <3> QED
      BY <2>1, <2>3, <3>2 DEF AskedInv
  <2>5. CASE link = s
    <3>1. commandQ' = commandQ /\ Queued' = {}
      BY <1>5, <2>2, <2>5, QueueSame DEF StartService
    <3>2. ~StartCommanded'
      BY <2>1, <2>2, <3>1 DEF StartCommanded, At, threadVars
    <3>3. CASE asked = s
      <4>1. ~Starting
        BY <2>2 DEF Starting, At
      <4>2. Started => Started'
        BY <2>1, <3>1, <3>3, QueueSame
           DEF Started, TunePending, TuneQueued, OpensRightly, Playing, At, memberVars, chipVars, threadVars
      <4> QED
        BY <2>1, <2>3, <3>2, <3>3, <4>1, <4>2 DEF AskedInv
    <3>4. CASE asked # s
      BY <2>1, <2>3, <2>5, <3>2, <3>4 DEF AskedInv, Ready
    <3> QED
      BY <3>3, <3>4
  <2> QED
    BY <2>4, <2>5
<1> QED
  BY <1>1, <1>2, <1>3, <1>4, <1>5 DEF Client

LEMMA MainAsked == ASSUME ServiceInv, MainStep PROVE AskedInv'
<1>0. DOMAIN pc = Threads /\ {"main", "command", "scan", "fic", "fib"} = Threads
  BY DEF ServiceInv, IInv, PlacesInv, Threads
<1>1. asked = NoService /\ asked' = asked
  BY DEF MainStep, ScanJoinsCommand, ScanThreadStarts, ServiceInv, AskedInv, NoScan, At, clientVars
<1>2. UNCHANGED commandQ /\ pc'["command"] = pc["command"]
  BY <1>0 DEF MainStep, ScanJoinsCommand, ScanThreadStarts, Goto, queueVars
<1> QED
  BY <1>1, <1>2, NothingAsked, QueueSame DEF ServiceInv

LEMMA ServiceAsked ==
  ASSUME ServiceInv, NEW t \in {"command", "fib"}, ServiceStep(t) PROVE AskedInv'
<1> USE DEF ServiceInv, At, Goto, Call, Stay
<1>0. /\ DOMAIN pc = Threads /\ {"main", "command", "scan", "fic", "fib"} = Threads
      /\ DOMAIN arg = Threads /\ t \in Threads
  BY DEF IInv, PlacesInv, Threads, TypeInv, CallInv
<1>1. /\ UNCHANGED <<asked, link, freq, parser, initialized, scanning, scanQ>>
      /\ pc'[t] \in {"idle", "open", "decodeAudio"} /\ pc[t] \in {"setService", "open", "decodeAudio"}
      /\ \A u \in Threads \ {t} : pc'[u] = pc[u]
  BY <1>0 DEF ServiceStep, SetService, OpenSubChannel, DecodeAudio, memberVars, clientVars, queueVars
<1>2. \/ Queued' = Queued /\ commandQ' = commandQ
      \/ /\ link \in Services /\ link.chan # freq
         /\ Queued' = Queued \cup {Cmd("tune", link.chan)}
         /\ pc'[t] = "idle" /\ At(t, "setService")
  <2>1. CASE UNCHANGED commandQ
    BY <2>1, QueueSame
  <2>2. CASE /\ link # NoService /\ commandQ' = Append(commandQ, Cmd("tune", link.chan))
             /\ link.chan # freq /\ Stay(t) /\ At(t, "setService")
    <3>1. link \in Services
      BY <2>2 DEF TypeInv, TypeOK
    <3>2. Cmd("tune", link.chan) \in Commands
      BY <3>1, ServiceFacts, CommandMade DEF Frequencies
    <3> QED
      BY <1>0, <2>2, <3>1, <3>2, CommandPushed DEF CommandQueue, TypeInv
  <2> QED
    BY <2>1, <2>2 DEF ServiceStep, SetService, OpenSubChannel, DecodeAudio, queueVars
<1>3. \A c \in Queued' : c \in Queued \/ c.op = "tune"
  BY <1>2, CommandMade
<1>4. ~StartCommanded => ~StartCommanded'
  BY <1>0, <1>1, <1>3 DEF StartCommanded
<1>5. CASE asked = NoService
  BY <1>0, <1>1, <1>3, <1>5, NothingAsked
<1>6. CASE asked # NoService
  <2>1. NoScan'
    BY <1>0, <1>1, <1>6 DEF AskedInv, NoScan
  <2>2. ASSUME Starting PROVE Starting'
    <3>1. commandQ' = commandQ
      <4>1. link \in Services => link.chan = freq
        BY <1>6, <2>2, StartingAlone, ServiceFacts
      <4> QED
        BY <1>2, <4>1
    <3>2. t = "fib" /\ freq # asked.chan
      BY <1>1, <1>6, <2>2, StartingAlone
    <3>3. arg'["command"] = arg["command"]
      BY <1>0, <3>2 DEF ServiceStep, SetService, OpenSubChannel, DecodeAudio
    <3> QED
      BY <1>0, <1>1, <2>2, <3>1, <3>2, <3>3 DEF Starting
  <2>3. ASSUME Started PROVE Started'
    <3>1. \A c \in Queued' : c.op = "tune"
      BY <1>3, <2>3 DEF Started
    <3>2. pc'["command"] \notin {"init", "start", "close"}
      BY <1>0, <1>1, <2>3 DEF Started
    <3>3. TunePending => TunePending'
      BY <1>0, <1>1, <1>2 DEF TunePending, TuneQueued, BeforeReset
    <3>4. CASE TunePending'
      BY <1>1, <2>3, <3>1, <3>2, <3>4 DEF Started
    <3>5. CASE ~TunePending'
      <4>1. OpensRightly /\ ~TunePending /\ commandQ' = commandQ
        BY <1>2, <2>3, <3>3, <3>5, CommandMade DEF Started, TunePending, TuneQueued
      <4>2. link # NoService /\ link = asked /\ link.chan = freq
        BY <1>6, <2>3, <4>1 DEF Started, LinkedInv, AskedInv, NoScan
      <4>3. /\ OpensRightly'
            /\ parser = "done" => pc'[t] \in Opening \/ Playing(asked)'
        <5>1. CASE SetService(t)
          <6>1. \/ /\ subchan' = link.sub /\ arg' = [arg EXCEPT ![t] = link.sub]
                   /\ pc' = [pc EXCEPT ![t] = "open"]
                \/ /\ parser # "done" /\ UNCHANGED <<subchan, arg>>
                   /\ pc' = [pc EXCEPT ![t] = "idle"]
            BY <4>2, <5>1 DEF SetService
          <6>2. open' = open
            BY <5>1 DEF SetService, chipVars
          <6>3. OpensRightly'
            BY <1>0, <1>1, <4>1, <6>1, <6>2 DEF OpensRightly
          <6> QED
            BY <1>0, <6>1, <6>3 DEF Opening
        <5>2. CASE OpenSubChannel(t)
          <6>1. arg[t] = link.sub /\ subchan = link.sub
            BY <4>1, <5>2 DEF OpenSubChannel, OpensRightly
          <6>2. open' = link.sub /\ UNCHANGED <<subchan, arg>> /\ pc' = [pc EXCEPT ![t] = "decodeAudio"]
            BY <5>2, <6>1 DEF OpenSubChannel, memberVars
          <6>3. OpensRightly'
            BY <1>0, <1>1, <4>1, <6>1, <6>2 DEF OpensRightly
          <6> QED
            BY <1>0, <6>2, <6>3 DEF Opening
        <5>3. CASE DecodeAudio(t)
          <6>1. /\ decoding' = decoding \cup {link} /\ UNCHANGED <<open, subchan, arg>>
                /\ pc' = [pc EXCEPT ![t] = "idle"]
            BY <5>3 DEF DecodeAudio, memberVars
          <6>2. open = link.sub /\ subchan = link.sub
            BY <4>1, <5>3 DEF DecodeAudio, OpensRightly
          <6>3. OpensRightly'
            BY <1>0, <1>1, <4>1, <6>1 DEF OpensRightly
          <6>4. Playing(asked)'
            BY <1>1, <4>2, <6>1, <6>2 DEF Playing
          <6> QED
            BY <6>3, <6>4
        <5> QED
          BY <5>1, <5>2, <5>3 DEF ServiceStep
      <4> QED
        BY <1>0, <1>1, <2>3, <3>1, <3>2, <4>3 DEF Started, Opening
    <3> QED
      BY <3>4, <3>5
  <2> QED
    BY <1>1, <1>4, <1>6, <2>1, <2>2, <2>3, RequestKept
<1> QED
  BY <1>5, <1>6

LEMMA TuneAsked ==
  ASSUME ServiceInv, NEW t \in {"command", "scan"}, TuneStep(t) PROVE AskedInv'
<1> USE DEF ServiceInv, At, Goto, Call, Stay
<1>0. DOMAIN pc = Threads /\ {"main", "command", "scan", "fic", "fib"} = Threads /\ t \in Threads
  BY DEF IInv, PlacesInv, Threads
<1>1. /\ UNCHANGED <<asked, initialized, scanning, subchan, open, decoding, commandQ, scanQ, arg>>
      /\ pc'[t] \in TuneSteps \cup {"idle"} /\ pc[t] \in TuneSteps
      /\ \A u \in Threads \ {t, "fic"} : pc'[u] = pc[u]
      /\ ~scanning => pc'["fic"] = pc["fic"]
  BY <1>0 DEF TuneStep, Tune, ResetBegin, ResetEnd, SetFrequency, TuneSteps, memberVars, clientVars, queueVars,
              chipVars
<1>2. Queued' = Queued
  BY <1>1, QueueSame
<1>3. pc'["command"] = "start" => pc["command"] = "start"
  BY <1>0, <1>1 DEF TuneSteps
<1>4. CASE asked = NoService
  BY <1>1, <1>2, <1>3, <1>4, NothingAsked
<1>5. CASE asked # NoService
  <2>1. t = "command" /\ ~scanning /\ initialized /\ pc["scan"] # "setFrequency"
    BY <1>1, <1>5 DEF AskedInv, NoScan, TuneSteps
  <2>2. NoScan'
    BY <1>0, <1>1, <1>5, <2>1 DEF AskedInv, NoScan
  <2>3. ~Starting
    BY <1>1, <1>5, <2>1, StartingAlone DEF TuneSteps
  <2>4. ~StartCommanded => ~StartCommanded'
    BY <1>2, <1>3 DEF StartCommanded
  <2>5. ASSUME Started PROVE Started'
    <3>1. link' = link /\ pc'["command"] \notin {"init", "start", "close"} /\ UNCHANGED <<asked, Queued>>
      BY <1>1, <1>2, <2>1 DEF TuneStep, Tune, ResetBegin, ResetEnd, SetFrequency, memberVars, TuneSteps
    <3>2. CASE TunePending'
      BY <2>5, <3>1, <3>2 DEF Started
    <3>3. CASE ~TunePending'
      <4>1. ~TuneQueued
        BY <1>2, <3>3 DEF TunePending, TuneQueued
      <4>2. CASE ResetEnd("command")
        BY <1>0, <2>1, <2>5, <3>1, <4>2 DEF ResetEnd, Started, OpensRightly
      <4>3. CASE SetFrequency("command")
        <5>1. /\ ~TunePending /\ pc["command"] = "setFrequency" /\ pc'["command"] = "idle"
              /\ pc'["fib"] = pc["fib"] /\ UNCHANGED <<parser, freq>>
          BY <1>0, <4>1, <4>3 DEF SetFrequency, TunePending, BeforeReset
        <5>2. OpensRightly'
          BY <1>0, <1>1, <2>5, <3>1, <5>1 DEF Started, OpensRightly
        <5>3. parser = "done" => ~At("fib", "idle") \/ Playing(asked)
          BY <2>5, <5>1 DEF Started, Opening
        <5> QED
          BY <1>1, <2>5, <3>1, <5>1, <5>2, <5>3 DEF Started, Playing
      <4> QED
        BY <1>0, <2>1, <3>3, <4>1, <4>2, <4>3
           DEF TuneStep, Tune, ResetBegin, TunePending, BeforeReset
    <3> QED
      BY <3>2, <3>3
  <2> QED
    BY <1>1, <1>5, <2>2, <2>3, <2>4, <2>5, RequestKept
<1> QED
  BY <1>4, <1>5

(* The command thread takes a command.                                      *)
LEMMA TurnAsked == ASSUME ServiceInv, CommandTurn PROVE AskedInv'
<1> USE DEF ServiceInv, At, Goto, Call, Stay
<1>0. DOMAIN pc = Threads /\ {"main", "command", "scan", "fic", "fib"} = Threads /\ DOMAIN arg = Threads
  BY DEF IInv, PlacesInv, Threads, TypeInv, CallInv
<1>1. /\ UNCHANGED <<asked, memberVars, parser, chipVars, scanQ>> /\ pc["command"] = "idle"
      /\ \A u \in Threads \ {"command"} : pc'[u] = pc[u] /\ arg'[u] = arg[u]
  BY <1>0 DEF CommandTurn, clientVars
<1>2. asked # NoService => NoScan' /\ "command" \in running
  BY <1>0, <1>1 DEF AskedInv, NoScan, JoinInv, memberVars
<1>3. CASE UNCHANGED commandQ
  <2>1. Queued' = Queued /\ pc'["command"] \in {"off", "read"} /\ arg' = arg
    BY <1>0, <1>3, QueueSame DEF CommandTurn
  <2>2. CASE asked = NoService
    BY <1>1, <2>1, <2>2, NothingAsked
  <2>3. CASE asked # NoService
    <3>1. commandQ = <<>>
      BY <1>0, <1>2, <1>3, <2>1, <2>3, CommandTaken DEF CommandTurn
    <3>2. ~Starting
      BY <1>1, <3>1 DEF Starting
    <3>3. TunePending => TunePending'
      BY <1>1, <2>1 DEF TunePending, TuneQueued, BeforeReset
    <3>4. OpensRightly => OpensRightly'
      BY <1>1, <2>1, <1>0 DEF OpensRightly, memberVars, chipVars
    <3>5. Started => Started'
      BY <1>0, <1>1, <2>1, <3>3, <3>4 DEF Started, Playing, Opening, memberVars, chipVars
    <3>6. ~StartCommanded'
      BY <2>1, <2>3, <3>2 DEF AskedInv, StartCommanded
    <3> QED
      BY <1>1, <1>2, <2>3, <3>2, <3>5, <3>6, RequestKept
  <2> QED
    BY <2>2, <2>3
<1>4. CASE commandQ # <<>> /\ commandQ' = Tail(commandQ) /\ "command" \in running
  <2> DEFINE c == Head(commandQ)
  <2>1. /\ c \in Commands /\ Queued = Queued' \cup {c}
        /\ \A d : commandQ = <<d>> => c = d /\ commandQ' = <<>>
    BY <1>4, CommandTaken DEF TypeInv, CommandQueue
  <2>2. c.op \in {"init", "start", "close", "tune"}
    BY <2>1, CommandFacts
  <2>3. pc'["command"] = c.op /\ arg'["command"] = c.arg
    BY <1>0, <1>4 DEF CommandTurn
  <2> HIDE DEF c
  <2>4. ~StartCommanded => ~StartCommanded'
    BY <2>1, <2>3 DEF StartCommanded
  <2>5. CASE asked = NoService
    <3>1. ~StartCommanded'
      BY <2>4, <2>5 DEF AskedInv
    <3> QED
      BY <1>1, <2>5, <3>1 DEF AskedInv
  <2>6. CASE asked # NoService
    <3>1. ASSUME Starting PROVE Starting'
      <4>1. commandQ = <<Cmd("start", asked)>>
        BY <1>1, <3>1 DEF Starting
      <4>2. c = Cmd("start", asked) /\ commandQ' = <<>>
        BY <2>1, <4>1
      <4>3. c.op = "start" /\ c.arg = asked
        BY <4>2, CommandMade
      <4> QED
        BY <1>0, <1>1, <2>3, <3>1, <4>2, <4>3 DEF Starting, memberVars
    <3>2. ASSUME Started PROVE Started'
      <4>1. c.op = "tune"
        BY <2>1, <3>2 DEF Started
      <4>2. TunePending'
        BY <2>3, <4>1 DEF TunePending, BeforeReset
      <4> QED
        BY <1>1, <2>1, <2>3, <3>2, <4>1, <4>2 DEF Started, memberVars
    <3> QED
      BY <1>1, <1>2, <2>4, <2>6, <3>1, <3>2, RequestKept
  <2> QED
    BY <2>5, <2>6
<1> QED
  BY <1>3, <1>4 DEF CommandTurn

(* startServiceSync: the request becomes the link, and a tuning if needed.   *)
LEMMA StartAsked == ASSUME ServiceInv, StartServiceSync PROVE AskedInv'
<1> USE DEF ServiceInv, At, Goto, Call, Stay
<1>0. DOMAIN pc = Threads /\ {"main", "command", "scan", "fic", "fib"} = Threads
  BY DEF IInv, PlacesInv, Threads
<1>1. /\ asked # NoService /\ Starting /\ NoScan /\ arg["command"] = asked /\ commandQ = <<>>
      /\ pc["command"] = "start"
  BY DEF StartServiceSync, AskedInv, StartCommanded, Starting
<1>2. asked \in Services /\ Cmd("tune", asked.chan) \in Commands
  BY <1>1, ServiceFacts, CommandMade DEF TypeInv, CallInv, Frequencies
<1>3. UNCHANGED <<asked, initialized, scanning, freq, parser, scanQ>>
  BY DEF StartServiceSync, clientVars, scanVars
<1>4. Queued = {}
  BY <1>1, QueueEmpty DEF TypeInv, CommandQueue
<1>5. NoScan'
  BY <1>0, <1>1, <1>3 DEF NoScan, StartServiceSync
<1>6. CASE freq # asked.chan
  <2>1. /\ link' = asked /\ pc'["command"] = "idle"
        /\ commandQ' = Append(commandQ, Cmd("tune", asked.chan))
    BY <1>0, <1>1, <1>6 DEF StartServiceSync, NoScan
  <2>2. Queued' = {Cmd("tune", asked.chan)}
    BY <1>2, <1>4, <2>1, CommandPushed DEF TypeInv, CommandQueue
  <2>3. Started' /\ ~StartCommanded'
    BY <1>3, <2>1, <2>2, CommandMade DEF Started, StartCommanded, TunePending, TuneQueued
  <2> QED
    BY <1>3, <1>5, <2>3 DEF AskedInv
<1>7. CASE freq = asked.chan
  <2>1. finished /\ At("fib", "idle")
    BY <1>1, <1>7, StartingAlone DEF Starting
  <2>2. /\ link' = asked /\ pc'["command"] = "setService" /\ pc'["fib"] = "idle" /\ Queued' = {}
    BY <1>0, <1>1, <1>4, <1>7, <2>1, QueueSame DEF StartServiceSync, NoScan
  <2>3. OpensRightly'
    BY <2>2 DEF OpensRightly
  <2>4. Started' /\ ~StartCommanded'
    BY <1>3, <2>2, <2>3 DEF Started, StartCommanded
  <2> QED
    BY <1>3, <1>5, <2>4 DEF AskedInv
<1> QED
  BY <1>6, <1>7

LEMMA CommandAsked == ASSUME ServiceInv, CommandStep PROVE AskedInv'
<1> USE DEF ServiceInv, At, Goto, Call, Stay
<1>0. DOMAIN pc = Threads /\ {"main", "command", "scan", "fic", "fib"} = Threads
  BY DEF IInv, PlacesInv, Threads
<1>1. CASE InitializeSync \/ CloseSubchannel
  <2>1. /\ pc["command"] \in {"init", "close"} /\ pc'["command"] = "idle"
        /\ UNCHANGED <<asked, scanning, scanQ, commandQ>> /\ (initialized => initialized')
        /\ \A u \in Threads \ {"command"} : pc'[u] = pc[u]
    BY <1>0, <1>1 DEF InitializeSync, CloseSubchannel, clientVars, queueVars
  <2>2. Queued' = Queued
    BY <2>1, QueueSame
  <2>3. CASE asked = NoService
    BY <2>1, <2>2, <2>3, NothingAsked
  <2>4. CASE asked # NoService
    <3>1. ~Starting /\ ~Started
      BY <2>1 DEF Starting, Started
    <3>2. NoScan'
      BY <1>0, <2>1, <2>4 DEF AskedInv, NoScan, TypeInv, TypeOK
    <3>3. ~StartCommanded => ~StartCommanded'
      BY <2>1, <2>2 DEF StartCommanded
    <3> QED
      BY <2>1, <2>4, <3>1, <3>2, <3>3, RequestKept
  <2> QED
    BY <2>3, <2>4
<1>2. ASSUME NEW ficInt \in BOOLEAN, ReadData(ficInt) PROVE AskedInv'
  <2>1. /\ pc["command"] = "read" /\ pc'["command"] = "idle" /\ \A u \in Threads \ {"command"} : pc'[u] = pc[u]
        /\ UNCHANGED <<asked, memberVars, chipVars, queueVars, arg>>
        /\ parser' = "done" <=> parser = "done"
    BY <1>0, <1>2 DEF ReadData, Feed, clientVars
  <2>2. Queued' = Queued
    BY <2>1, QueueSame DEF queueVars
  <2>3. CASE asked = NoService
    BY <2>1, <2>2, <2>3, NothingAsked
  <2>4. CASE asked # NoService
    <3>1. NoScan'
      BY <1>0, <2>1, <2>4 DEF AskedInv, NoScan, memberVars, queueVars
    <3>2. Starting => Starting'
      BY <1>0, <2>1 DEF Starting, memberVars, queueVars
    <3>3. TunePending => TunePending'
      BY <2>1, <2>2 DEF TunePending, TuneQueued, BeforeReset
    <3>4. OpensRightly => OpensRightly'
      BY <1>0, <2>1 DEF OpensRightly, memberVars, chipVars
    <3>5. Started => Started'
      BY <1>0, <2>1, <2>2, <3>3, <3>4 DEF Started, Playing, Opening, memberVars, chipVars
    <3>6. ~StartCommanded => ~StartCommanded'
      BY <2>1, <2>2 DEF StartCommanded
    <3> QED
      BY <2>1, <2>4, <3>1, <3>2, <3>5, <3>6, RequestKept
  <2> QED
    BY <2>3, <2>4
<1> QED
  BY <1>1, <1>2, TurnAsked, StartAsked, ServiceAsked, TuneAsked DEF CommandStep

(* The end of a collection.                                                 *)
LEMMA FibAsked == ASSUME ServiceInv, FibStep PROVE AskedInv'
<1> USE DEF ServiceInv, At, Goto, Call, Stay
<1>0. DOMAIN pc = Threads /\ {"main", "command", "scan", "fic", "fib"} = Threads
  BY DEF IInv, PlacesInv, Threads
<1>1. CASE CollectionDone \/ EnsembleCollectFinished
  <2>1. /\ UNCHANGED <<asked, initialized, scanning, link, freq, subchan, chipVars, commandQ, arg>>
        /\ pc'["fib"] \in {"collected", "setService"}
        /\ \A u \in Threads \ {"fib"} : pc'[u] = pc[u]
        /\ ~scanning => scanQ' = scanQ
        /\ pc["fib"] = "idle" => parser # "done"
    BY <1>0, <1>1 DEF CollectionDone, EnsembleCollectFinished, memberVars, clientVars, queueVars
  <2>2. Queued' = Queued
    BY <2>1, QueueSame
  <2>3. CASE asked = NoService
    BY <1>0, <2>1, <2>2, <2>3, NothingAsked
  <2>4. CASE asked # NoService
    <3>1. NoScan'
      BY <1>0, <2>1, <2>4 DEF AskedInv, NoScan
    <3>2. Starting => Starting'
      BY <1>0, <2>1 DEF Starting
    <3>3. TunePending => TunePending'
      BY <1>0, <2>1, <2>2 DEF TunePending, TuneQueued
    <3>4. OpensRightly => OpensRightly'
      BY <1>0, <2>1 DEF OpensRightly, chipVars
    <3>5. Started => Started'
      BY <1>0, <2>1, <2>2, <3>3, <3>4 DEF Started
    <3>6. ~StartCommanded => ~StartCommanded'
      BY <1>0, <2>1, <2>2 DEF StartCommanded
    <3> QED
      BY <2>1, <2>4, <3>1, <3>2, <3>5, <3>6, RequestKept
  <2> QED
    BY <2>3, <2>4
<1> QED
  BY <1>1, ServiceAsked DEF FibStep

(* The scan thread has something to do only when no service is asked for.    *)
LEMMA ScanAsked == ASSUME ServiceInv, ScanStep PROVE AskedInv'
<1> USE DEF ServiceInv, At, Goto, Call, Stay
<1>0. DOMAIN pc = Threads /\ {"main", "command", "scan", "fic", "fib"} = Threads
  BY DEF IInv, PlacesInv, Threads
<1>1. CASE ScanTurn
  <2>1. UNCHANGED <<asked, memberVars, parser, chipVars, commandQ, arg>>
        /\ \A u \in Threads \ {"scan"} : pc'[u] = pc[u]
    BY <1>0, <1>1 DEF ScanTurn, clientVars
  <2>2. Queued' = Queued
    BY <2>1, QueueSame
  <2>3. CASE asked = NoService
    BY <1>0, <2>1, <2>2, <2>3, NothingAsked
  <2>4. CASE asked # NoService
    <3>1. NoScan'
      BY <1>0, <1>1, <2>1, <2>4 DEF ScanTurn, AskedInv, NoScan, memberVars
    <3>2. Starting => Starting'
      BY <1>0, <2>1 DEF Starting, memberVars
    <3>3. TunePending => TunePending'
      BY <1>0, <2>1, <2>2 DEF TunePending, TuneQueued
    <3>4. OpensRightly => OpensRightly'
      BY <1>0, <2>1 DEF OpensRightly, memberVars, chipVars
    <3>5. Started => Started'
      BY <1>0, <2>1, <2>2, <3>3, <3>4 DEF Started, Playing, memberVars, chipVars
    <3>6. ~StartCommanded => ~StartCommanded'
      BY <1>0, <2>1, <2>2 DEF StartCommanded
    <3> QED
      BY <2>1, <2>4, <3>1, <3>2, <3>5, <3>6, RequestKept
  <2> QED
    BY <2>3, <2>4
<1>2. CASE StartScanCommand \/ ScanNext \/ StopScanCommand \/ EndScan \/ LeaveScan
  <2>1. asked = NoService /\ asked' = asked
    BY <1>2 DEF StartScanCommand, ScanNext, StopScanCommand, EndScan, LeaveScan, AskedInv, NoScan, clientVars
  <2>2. pc'["command"] = pc["command"] \/ pc'["command"] = "idle"
    BY <1>0, <1>2 DEF StartScanCommand, ScanNext, StopScanCommand, EndScan, LeaveScan, StartReadDataThread
  <2>3. Queued' = Queued \/ \E f \in Frequencies : Queued' = Queued \cup {Cmd("tune", f)}
    <3>1. CASE UNCHANGED commandQ
      BY <3>1, QueueSame
    <3>2. ASSUME NEW f \in Frequencies, commandQ' = Append(commandQ, Cmd("tune", f))
          PROVE Queued' = Queued \cup {Cmd("tune", f)}
      BY <3>2, CommandMade, CommandPushed DEF TypeInv, CommandQueue
    <3>3. BadFreq \in Frequencies /\ (scan.num + 1 < NumChannels => NextChannel \in Frequencies)
      BY NextChannelFacts DEF Frequencies, TypeInv
    <3> QED
      BY <1>2, <3>1, <3>2, <3>3
         DEF StartScanCommand, ScanNext, StopScanCommand, EndScan, LeaveScan, queueVars
  <2>4. \A c \in Queued' : c \in Queued \/ c.op # "start"
    BY <2>3, CommandMade
  <2> QED
    BY <2>1, <2>2, <2>4, NothingAsked
<1> QED
  BY <1>1, <1>2, TuneAsked DEF ScanStep

LEMMA FicAsked == ASSUME ServiceInv, FicStep PROVE AskedInv'
<1>0. DOMAIN pc = Threads /\ {"main", "command", "scan", "fic", "fib"} = Threads
  BY DEF ServiceInv, IInv, PlacesInv, Threads
<1>1. asked = NoService /\ asked' = asked
  BY DEF FicStep, FicTurn, FicNoLock, FicReadData, FicNoInterrupt, ServiceInv, AskedInv, NoScan, At, clientVars
<1>2. UNCHANGED commandQ /\ pc'["command"] = pc["command"]
  BY <1>0 DEF FicStep, FicTurn, FicNoLock, FicReadData, FicNoInterrupt, Goto, queueVars
<1> QED
  BY <1>1, <1>2, NothingAsked, QueueSame DEF ServiceInv

-----------------------------------------------------------------------------
LEMMA InitService == Init => ServiceInv
BY InitEstablishes, InitTypes, InitCollect, InitLinked, InitAsked DEF ServiceInv

LEMMA CollectKeeps == ASSUME ServiceInv, [Next]_vars PROVE CollectInv'
<1>1. CASE UNCHANGED vars
  BY <1>1 DEF ServiceInv, CollectInv, TunePending, TuneQueued, Queued, At, vars, memberVars, queueVars, threadVars
<1> QED
  BY <1>1, ClientCollect, MainCollect, CommandCollect, FibCollect, ScanCollect, FicCollect DEF ServiceInv, Next

LEMMA LinkedKeeps == ASSUME ServiceInv, [Next]_vars PROVE LinkedInv'
<1>1. CASE UNCHANGED vars
  BY <1>1 DEF ServiceInv, LinkedInv, TunePending, TuneQueued, Queued, At, vars, memberVars, queueVars, threadVars
<1> QED
  BY <1>1, ClientLinked, MainLinked, CommandLinked, FibLinked, ScanLinked, FicLinked DEF Next

LEMMA AskedKeeps == ASSUME ServiceInv, [Next]_vars PROVE AskedInv'
<1>1. CASE UNCHANGED vars
  BY <1>1 DEF ServiceInv, AskedInv, StartCommanded, NoScan, Starting, Started, OpensRightly, Playing, TunePending,
              TuneQueued, Queued, At, vars, memberVars, queueVars, threadVars, chipVars, clientVars
<1> QED
  BY <1>1, ClientAsked, MainAsked, CommandAsked, FibAsked, ScanAsked, FicAsked DEF Next

LEMMA ServiceHolds == Spec => []ServiceInv
<1>1. ServiceInv /\ [Next]_vars => ServiceInv'
  <2> SUFFICES ASSUME ServiceInv, [Next]_vars PROVE ServiceInv'
    OBVIOUS
  <2>1. IInv' /\ TypeInv' /\ JoinInv'
    BY StepKeeps, StepTypes, JoinKeeps DEF ServiceInv
  <2> QED
    BY <2>1, CollectKeeps, LinkedKeeps, AskedKeeps DEF ServiceInv
<1> QED
  BY <1>1, InitService, PTL DEF Spec

(* Every variable has its type: a channel number stays in the tables for    *)
(* every set of N frequencies, and a subchannel number is one of a service, *)
(* none, or the 127 that closing none leaves.                               *)
THEOREM TunerTypes == Spec => []TypeOK
<1>1. ServiceInv => TypeOK
  BY DEF ServiceInv, TypeInv
<1> QED
  BY <1>1, ServiceHolds, PTL

(* When nothing is under way and the ensemble is collected, the service     *)
(* asked for last plays: for all services and channels and however the      *)
(* command thread's setService, the parser's and the tuning interleave.     *)
(* A client that starts a service again that it stopped is not served.      *)
THEOREM ServicePlays == ASSUME ~Restarts PROVE Spec => []SettledPlays
<1>1. ServiceInv => SettledPlays
  <2> SUFFICES ASSUME ServiceInv, Quiet, parser = "done", asked # NoService PROVE Playing(asked)
    BY DEF SettledPlays
  <2>1. commandQ = <<>> /\ Queued = {} /\ pc["command"] \in {"idle", "read"} /\ At("fib", "idle")
    BY QueueEmpty DEF Quiet, ServiceInv, TypeInv, CommandQueue
  <2>2. ~Starting /\ ~TunePending
    BY <2>1 DEF Starting, TunePending, TuneQueued, BeforeReset, At
  <2>3. Started
    BY <2>2 DEF ServiceInv, AskedInv
  <2> QED
    BY <2>1, <2>2, <2>3 DEF Started, Opening
<1> QED
  BY <1>1, ServiceHolds, PTL

-----------------------------------------------------------------------------
(***************************************************************************)
(* A scan leaves out no channel but the N frequencies behind an ensemble.   *)
(*                                                                         *)
(* What is at stake is the number that the scan thread counts on when it    *)
(* takes a scanNext: the channel must be tuned, and m_ensembleCollectFinished *)
(* must be about it and not about the channel before, although the parser's *)
(* thread may set it after the tuning has begun and cleared it.  Then the    *)
(* collection's own scanNext is still to come, and is one too many.         *)
(***************************************************************************)

(* A scan has been at every channel below the present one, and at that one   *)
(* when it is tuned.                                                        *)
Covered(c) == c \in visited \/ (c \in NFrequencies /\ c - 1 \in visited \cap OnAir)

CoverInv ==
  scanning /\ ~surplus =>
    /\ \A c \in Channels : c < scan.num => Covered(c)
    /\ pc["scan"] \in BeforeReset => arg["scan"] = scan.num
    /\ pc["scan"] \notin BeforeReset =>
         /\ freq = scan.num
         /\ finished => parser = "done"
    /\ pc["scan"] \notin TuneSteps => scan.num \in visited
    /\ At("scan", "joinFib") /\ finished => At("fib", "collected")

-----------------------------------------------------------------------------
LEMMA InitCovers == Init => CoverInv
BY DEF Init, CoverInv

(* What leaves the channels, the scan thread and the collection alone, or    *)
(* happens when there is no scan, keeps what is covered.                    *)
LEMMA CoverKept ==
  ASSUME CoverInv, UNCHANGED <<scanning, visited, freq, finished>>, scan'.num = scan.num,
         surplus => surplus', parser = "done" => parser' = "done",
         pc'["scan"] = pc["scan"], arg'["scan"] = arg["scan"],
         At("scan", "joinFib") /\ finished => pc'["fib"] = pc["fib"] \/ surplus'
  PROVE  CoverInv'
BY DEF CoverInv, Covered, At, BeforeReset, TuneSteps

LEMMA NoScanKept == ASSUME ~scanning, scanning' = scanning PROVE CoverInv'
BY DEF CoverInv

LEMMA ClientCovers == ASSUME CoverInv, ServiceInv, Client PROVE CoverInv'
<1>1. /\ UNCHANGED <<memberVars, parser, scanVars, arg>>
      /\ pc' = pc \/ pc' = [pc EXCEPT !["main"] = "joinCommand"]
  BY DEF Client, Initialize, StopService, StopServiceScan, StartServiceScan, StartService, Goto, threadVars
<1>2. pc'["scan"] = pc["scan"] /\ pc'["fib"] = pc["fib"]
  BY <1>1 DEF ServiceInv, IInv, PlacesInv, Threads
<1> QED
  BY <1>1, <1>2, CoverKept DEF memberVars, scanVars

LEMMA MainCovers == ASSUME ServiceInv, MainStep PROVE CoverInv'
<1>1. ~scanning /\ scanning' = scanning
  BY DEF MainStep, ScanJoinsCommand, ScanThreadStarts, ServiceInv, IInv, MainInv, At, memberVars
<1> QED
  BY <1>1, NoScanKept

LEMMA CommandCovers == ASSUME ServiceInv, CommandStep PROVE CoverInv'
<1>1. pc["command"] # "off" /\ scanning' = scanning
  BY DEF CommandStep, CommandTurn, InitializeSync, CloseSubchannel, StartServiceSync, ReadData, ServiceStep,
         SetService, OpenSubChannel, DecodeAudio, TuneStep, Tune, ResetBegin, ResetEnd, SetFrequency, At,
         memberVars
<1>2. ~scanning
  BY <1>1 DEF ServiceInv, IInv, CommandInv, Commanding
<1> QED
  BY <1>1, <1>2, NoScanKept

(* The end of a collection.  It may come between the two parts of a reset,   *)
(* and its scanNext then is one too many.                                   *)
LEMMA FibCovers == ASSUME CoverInv, ServiceInv, FibStep PROVE CoverInv'
<1> USE DEF At, Goto, Call, Stay
<1>0. /\ DOMAIN pc = Threads /\ DOMAIN arg = Threads
      /\ {"main", "command", "scan", "fic", "fib"} = Threads
  BY DEF ServiceInv, IInv, PlacesInv, TypeInv, CallInv, Threads
<1>1. CASE CollectionDone
  <2>1. /\ UNCHANGED <<scanning, scan, visited, surplus, freq, arg>> /\ pc'["scan"] = pc["scan"]
        /\ parser' = "done" /\ pc'["fib"] = "collected"
    BY <1>0, <1>1 DEF CollectionDone, scanVars
  <2> QED
    BY <2>1 DEF CoverInv, Covered
<1>2. CASE EnsembleCollectFinished
  <2>1. CASE scanning
    <3>1. pc["scan"] # "idle" => surplus'
      BY <1>2, <2>1 DEF EnsembleCollectFinished, PushScanNext
    <3>2. surplus => surplus'
      BY <1>2, <2>1 DEF EnsembleCollectFinished, PushScanNext
    <3>3. UNCHANGED <<memberVars, parser, scan, visited, arg>> /\ pc'["scan"] = pc["scan"]
      BY <1>0, <1>2 DEF EnsembleCollectFinished
    <3> QED
      BY <3>1, <3>2, <3>3, CoverKept DEF memberVars
  <2>2. CASE ~scanning
    BY <1>2, <2>2, NoScanKept DEF EnsembleCollectFinished, memberVars
  <2>3. scanning \in BOOLEAN
    BY DEF ServiceInv, TypeInv, TypeOK
  <2> QED
    BY <2>1, <2>2, <2>3
<1>3. CASE ServiceStep("fib")
  <2>1. UNCHANGED <<scanning, freq, finished, parser, scanVars>>
    BY <1>3 DEF ServiceStep, SetService, OpenSubChannel, DecodeAudio, memberVars
  <2>2. pc'["scan"] = pc["scan"] /\ arg'["scan"] = arg["scan"] /\ pc["fib"] # "collected"
    BY <1>0, <1>3 DEF ServiceStep, SetService, OpenSubChannel, DecodeAudio
  <2>3. scanning /\ ~surplus => ~(At("scan", "joinFib") /\ finished)
    BY <2>2 DEF CoverInv
  <2> QED
    BY <2>1, <2>2, <2>3 DEF CoverInv, Covered, scanVars
<1> QED
  BY <1>1, <1>2, <1>3 DEF FibStep

(* The next channel, the tuning of it and the reset before.                 *)
LEMMA NextCovers == ASSUME CoverInv, ServiceInv, ScanNext PROVE CoverInv'
<1> USE DEF At, Goto, Call, Stay
<1>0. DOMAIN pc = Threads /\ DOMAIN arg = Threads /\ "scan" \in Threads
  BY DEF ServiceInv, IInv, PlacesInv, TypeInv, CallInv, Threads
<1> SUFFICES ASSUME scanning', ~surplus' PROVE CoverInv'
  BY DEF CoverInv
<1>1. scanning /\ ~surplus /\ scan.num + 1 < NumChannels /\ pc["scan"] = "scanNext"
  BY DEF ScanNext
<1>2. /\ pc'["scan"] = "tune" /\ arg'["scan"] = NextChannel /\ scan'.num = NextChannel
      /\ visited' = visited
  BY <1>0, <1>1, NextChannelFacts DEF ScanNext, ServiceInv, TypeInv
<1>3. /\ \A c \in Channels : c < scan.num => Covered(c)
      /\ freq = scan.num /\ scan.num \in visited
      /\ finished => parser = "done"
  BY <1>1 DEF CoverInv, BeforeReset, TuneSteps
<1>4. scan.num \in Nat
  BY ChannelFacts DEF ServiceInv, TypeInv, TypeOK
<1>5. ASSUME NEW c \in Channels, c < NextChannel PROVE Covered(c)
  <2>1. c \in Nat
    BY ChannelFacts
  <2>2. /\ NextChannel = scan.num + 1 \/ NextChannel = scan.num + 2
        /\ NextChannel = scan.num + 2 => finished /\ scan.num + 1 \in NFrequencies
    BY <1>1, NextChannelFacts DEF ServiceInv, TypeInv
  <2>3. CASE c < scan.num
    BY <1>3, <2>3
  <2>4. CASE c = scan.num
    BY <1>3, <2>4 DEF Covered
  <2>5. CASE c = scan.num + 1
    <3>1. NextChannel = scan.num + 2
      BY <1>4, <1>5, <2>2, <2>5
    <3>2. c \in NFrequencies /\ freq \in OnAir
      BY <1>3, <2>2, <2>5, <3>1 DEF ServiceInv, CollectInv
    <3>3. c - 1 = scan.num
      BY <1>4, <2>5
    <3> QED
      BY <1>3, <3>2, <3>3 DEF Covered
  <2> QED
    BY <1>4, <1>5, <2>1, <2>2, <2>3, <2>4, <2>5
<1> QED
  BY <1>2, <1>5 DEF CoverInv, Covered, BeforeReset, TuneSteps

LEMMA TuneCovers == ASSUME CoverInv, ServiceInv, TuneStep("scan") PROVE CoverInv'
<1> USE DEF At, Goto, Call, Stay
<1>0. DOMAIN pc = Threads /\ DOMAIN arg = Threads /\ {"scan", "fic", "fib"} \subseteq Threads
  BY DEF ServiceInv, IInv, PlacesInv, TypeInv, CallInv, Threads
<1>1. CASE Tune("scan")
  <2>1. scanning => initialized
    BY DEF ServiceInv, IInv, ScanInv
  <2>2. CASE initialized
    BY <1>0, <1>1, <2>2 DEF Tune, CoverInv, Covered, BeforeReset, TuneSteps, memberVars, scanVars
  <2>3. CASE ~initialized
    BY <1>1, <2>1, <2>3, NoScanKept DEF Tune, memberVars, ServiceInv, IInv, ScanInv, TuneSteps
  <2> QED
    BY <2>2, <2>3
<1>2. CASE ResetBegin("scan")
  BY <1>0, <1>2 DEF ResetBegin, CoverInv, Covered, BeforeReset, TuneSteps, scanVars
<1>3. CASE ResetEnd("scan")
  <2>1. scanning /\ ~surplus => ~finished
    BY <1>3 DEF ResetEnd, CoverInv
  <2> QED
    BY <1>0, <1>3, <2>1 DEF ResetEnd, CoverInv, Covered, BeforeReset, TuneSteps, scanVars
<1>4. CASE SetFrequency("scan")
  <2>1. /\ UNCHANGED <<scanning, freq, finished, parser, scan, surplus, arg>>
        /\ visited' = visited \cup {freq} /\ pc'["scan"] = "idle" /\ pc["scan"] = "setFrequency"
    BY <1>0, <1>4 DEF SetFrequency
  <2> QED
    BY <2>1 DEF CoverInv, Covered, BeforeReset, TuneSteps
<1> QED
  BY <1>1, <1>2, <1>3, <1>4 DEF TuneStep

LEMMA ScanStepCovers == ASSUME CoverInv, ServiceInv, ScanStep PROVE CoverInv'
<1> USE DEF At, Goto, Call, Stay
<1>0. DOMAIN pc = Threads /\ DOMAIN arg = Threads /\ {"scan", "fib"} \subseteq Threads
  BY DEF ServiceInv, IInv, PlacesInv, TypeInv, CallInv, Threads
<1>1. CASE ScanTurn
  <2>1. pc'["scan"] \notin TuneSteps
    <3>1. scanQ # <<>> => Head(scanQ) \in [op : ScanOps, arg : {0}]
      BY FirstAndRest DEF ServiceInv, IInv, PlacesInv
    <3> QED
      BY <1>0, <1>1, <3>1 DEF ScanTurn, ScanOps, TuneSteps
  <2>2. UNCHANGED <<memberVars, parser, scanVars, arg>> /\ pc["scan"] = "idle"
    BY <1>1 DEF ScanTurn
  <2> QED
    BY <2>1, <2>2 DEF CoverInv, Covered, BeforeReset, TuneSteps, memberVars, scanVars
<1>2. CASE StartScanCommand
  <2>1. scan'.num = 0 /\ pc'["scan"] = "tune" /\ arg'["scan"] = 0
    BY <1>0, <1>2 DEF StartScanCommand, FreshScan
  <2> QED
    BY <2>1, ChannelFacts DEF CoverInv, BeforeReset, TuneSteps
<1>3. CASE ScanNext
  BY <1>3, NextCovers
<1>4. CASE StopScanCommand
  BY <1>0, <1>4 DEF StopScanCommand, CoverInv, Covered, BeforeReset, TuneSteps, memberVars, scanVars
<1>5. CASE EndScan
  BY <1>5, NoScanKept DEF EndScan, ServiceInv, IInv, ScanInv, memberVars
<1>6. CASE LeaveScan
  BY <1>6 DEF LeaveScan, CoverInv
<1> QED
  BY <1>1, <1>2, <1>3, <1>4, <1>5, <1>6, TuneCovers DEF ScanStep

LEMMA FicCovers == ASSUME CoverInv, ServiceInv, FicStep PROVE CoverInv'
<1> USE DEF At, Goto
<1>0. DOMAIN pc = Threads /\ {"main", "command", "scan", "fic", "fib"} = Threads
  BY DEF ServiceInv, IInv, PlacesInv, Threads
<1>1. UNCHANGED <<memberVars, visited, arg>> /\ pc'["scan"] = pc["scan"] /\ pc'["fib"] = pc["fib"]
  BY <1>0 DEF FicStep, FicTurn, FicNoLock, FicReadData, FicNoInterrupt, scanVars
<1>2. parser = "done" => parser' = "done"
  BY DEF FicStep, FicTurn, FicNoLock, FicReadData, FicNoInterrupt, Feed
<1>3. surplus => surplus'
  BY DEF FicStep, FicTurn, FicNoLock, FicReadData, FicNoInterrupt, PushScanNext, scanVars
<1>4. scan'.num = scan.num
  BY DEF FicStep, FicTurn, FicNoLock, FicReadData, FicNoInterrupt, scanVars, ServiceInv, TypeInv, TypeOK
<1> QED
  BY <1>1, <1>2, <1>3, <1>4, CoverKept DEF memberVars

LEMMA CoverHolds == Spec => []CoverInv
<1>1. ServiceInv /\ CoverInv /\ [Next]_vars => CoverInv'
  <2> SUFFICES ASSUME ServiceInv, CoverInv, [Next]_vars PROVE CoverInv'
    OBVIOUS
  <2>1. CASE UNCHANGED vars
    BY <2>1 DEF CoverInv, Covered, At, vars, memberVars, threadVars, scanVars
  <2> QED
    BY <2>1, ClientCovers, MainCovers, CommandCovers, FibCovers, ScanStepCovers, FicCovers DEF Next
<1> QED
  BY <1>1, InitCovers, ServiceHolds, PTL DEF Spec

-----------------------------------------------------------------------------
(* Only the scan thread ends a scan.                                        *)
LEMMA ScanEnded ==
  ASSUME ServiceInv, Next, scanning, ~scanning', At("scan", "scanNext")
  PROVE  ScanNext
<1>1. ~Client
  BY DEF Client, Initialize, StopService, StopServiceScan, StartServiceScan, StartService, memberVars
<1>2. ~MainStep
  BY DEF MainStep, ScanJoinsCommand, ScanThreadStarts, memberVars
<1>3. ~CommandStep
  BY DEF CommandStep, CommandTurn, InitializeSync, CloseSubchannel, StartServiceSync, ReadData, ServiceStep,
         SetService, OpenSubChannel, DecodeAudio, TuneStep, Tune, ResetBegin, ResetEnd, SetFrequency, memberVars
<1>4. ~FibStep
  BY DEF FibStep, CollectionDone, EnsembleCollectFinished, ServiceStep, SetService, OpenSubChannel,
         DecodeAudio, memberVars
<1>5. ~FicStep
  BY DEF FicStep, FicTurn, FicNoLock, FicReadData, FicNoInterrupt, memberVars
<1>6. CASE ScanStep
  BY <1>6 DEF ScanStep, ScanTurn, StartScanCommand, StopScanCommand, EndScan, LeaveScan, TuneStep, Tune,
              ResetBegin, ResetEnd, SetFrequency, At
<1> QED
  BY <1>1, <1>2, <1>3, <1>4, <1>5, <1>6 DEF Next

(* A scan that ends by itself has tuned every channel, but for the N         *)
(* frequency behind a channel with an ensemble, and unless the end of a     *)
(* collection and a time-out both asked for the next one: for every band,   *)
(* every set of N frequencies and however the four threads interleave.      *)
THEOREM ScanCoversAll == Spec => ScanCovers
<1>1. ASSUME ServiceInv, CoverInv, [Next]_vars, scanning, ~scanning', At("scan", "scanNext"),
             NEW c \in Channels
      PROVE  c \in visited \/ surplus \/ (c \in NFrequencies /\ c - 1 \in visited \cap OnAir)
  <2>1. ScanNext
    BY <1>1, ScanEnded DEF vars, memberVars
  <2>2. ~(scan.num + 1 < NumChannels)
    BY <1>1, <2>1 DEF ScanNext
  <2>3. c \in Nat /\ c < NumChannels /\ scan.num \in Nat /\ NumChannels \in Nat
    BY <1>1, ChannelFacts DEF ServiceInv, TypeInv, TypeOK
  <2>4. c < scan.num \/ c = scan.num
    BY <2>2, <2>3
  <2>5. ~surplus => scan.num \in visited /\ \A d \in Channels : d < scan.num => Covered(d)
    BY <1>1 DEF CoverInv, At, TuneSteps
  <2> QED
    BY <2>4, <2>5 DEF Covered
<1>2. ServiceInv /\ CoverInv /\ [Next]_vars =>
        [scanning /\ ~scanning' /\ At("scan", "scanNext") =>
           \A c \in Channels :
             \/ c \in visited \/ surplus
             \/ c \in NFrequencies /\ c - 1 \in visited \cap OnAir]_vars
  BY <1>1
<1> QED
  BY <1>2, ServiceHolds, CoverHolds, PTL DEF Spec, ScanCovers
=============================================================================
