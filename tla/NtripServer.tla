----------------------------- MODULE NtripServer -----------------------------
(***************************************************************************)
(* ntripServer: the thread that receives the MSC data gives it RTCM frames *)
(* with pushRtcm, a thread of its own keeps a connection to the NTRIP      *)
(* caster and sends the frames there, each as one chunk of an HTTP body:   *)
(* the size, the data, a line end, with one send for each.  The destructor *)
(* asks the thread to stop and joins it.                                   *)
(*                                                                         *)
(* The caster and the network are the environment: a connection attempt    *)
(* may fail, the login may be refused, not be answered in time or answered *)
(* shortly, and the caster may go away at any time.  Sends after that have *)
(* no effect, but succeed or fail with ECONNRESET, until one fails with    *)
(* EPIPE.  m_connected and m_shutdown are plain bools shared by the        *)
(* threads; every call of the loops reads them anew.                       *)
(***************************************************************************)
EXTENDS Integers, Sequences

CONSTANTS
  MaxFrames,   \* bound: frames offered to pushRtcm
  MaxTrouble   \* bound: attempts failed, logins refused, casters gone and
               \* sends without effect, in all

ASSUME NtripAssumption == MaxFrames \in Nat /\ MaxTrouble \in Nat

VARIABLES
  connected,   \* m_connected
  shutdown,    \* m_shutdown
  queue,       \* m_rtcmQueue
  thread,      \* where ntripThread is
  frame,       \* the frame it has popped, 0 for none
  peer,        \* the caster's side of m_socket
  pushing,     \* the frame pushRtcm has tested m_connected for, 0 for none
  offered,     \* frames given to pushRtcm so far
  trouble,     \* troubles so far
  conn,        \* history: connections made so far
  refused,     \* history: connections whose login the caster refused
  wire,        \* history: what arrived at the caster, <<connection, part, frame>>
  taken        \* history: frames popped from the queue

linkVars   == <<connected, peer, conn, refused>>
threadVars == <<thread, frame, wire, taken>>
pushVars   == <<pushing, offered>>
vars == <<linkVars, threadVars, pushVars, shutdown, queue, trouble>>

-----------------------------------------------------------------------------
(* pushRtcm: the test of m_connected, then the push. *)
PushTest ==
  /\ pushing = 0
  /\ offered < MaxFrames
  /\ thread # "ended"
  /\ offered' = offered + 1
  /\ pushing' = IF connected THEN offered + 1 ELSE 0
  /\ UNCHANGED <<linkVars, threadVars, shutdown, queue, trouble>>

PushQueue ==
  /\ pushing # 0
  /\ queue' = Append(queue, pushing)
  /\ pushing' = 0
  /\ UNCHANGED <<linkVars, threadVars, offered, shutdown, trouble>>

(* The destructor, before it joins the thread.  Nothing keeps it from      *)
(* running while pushRtcm does.                                            *)
Shutdown ==
  /\ ~shutdown
  /\ shutdown' = TRUE
  /\ UNCHANGED <<linkVars, threadVars, pushVars, queue, trouble>>

-----------------------------------------------------------------------------
(* ntripThread.  ntripSendRtcm's three sends are its parts of a chunk. *)
MutantParts == <<"data", "size", "crlf">>
Parts       == <<"size", "data", "crlf">>

At(here) == thread = here
Goto(there) == thread' = there

Trouble ==
  /\ trouble < MaxTrouble
  /\ trouble' = trouble + 1

(* The Mutant... definitions are not part of the model: each is a faulty   *)
(* form of the one that follows it, for a run in which a property must     *)
(* fail.                                                                   *)
MutantDropConnection == UNCHANGED <<connected, peer>>

DropConnection ==
  /\ connected' = FALSE
  /\ peer' = "none"

(* while (!m_shutdown) if (!m_connected) ... *)
Loop ==
  /\ At("loop")
  /\ Goto(IF shutdown THEN "ended" ELSE IF connected THEN "pop" ELSE "connect")
  /\ UNCHANGED <<linkVars, frame, wire, taken, pushVars, shutdown, queue, trouble>>

(* connectCaster; when it fails the thread sleeps and goes round the loop. *)
MutantAfterFailure == "ended"
AfterFailure       == "loop"

ConnectCaster ==
  /\ At("connect")
  /\ \/ /\ connected' = TRUE
        /\ peer' = "up"
        /\ conn' = conn + 1
        /\ Goto("login")
        /\ UNCHANGED trouble
     \/ /\ Trouble
        /\ Goto(AfterFailure)
        /\ UNCHANGED <<connected, peer, conn>>
  /\ UNCHANGED <<refused, frame, wire, taken, pushVars, shutdown, queue>>

(* loginCaster: only an answer of more than 15 bytes that is not 200 OK    *)
(* counts as a refusal; an end of file, a timeout and a short answer do    *)
(* not, and neither does a send that fails.                                *)
LoginCaster ==
  /\ At("login")
  /\ Goto("loop")
  /\ \/ /\ peer' \in (IF peer = "closing" THEN {"closing", "closed"} ELSE {peer})
        /\ UNCHANGED <<connected, refused, trouble>>
     \/ /\ peer = "up"
        /\ Trouble
        /\ refused' = refused \cup {conn}
        /\ DropConnection
  /\ UNCHANGED <<conn, frame, wire, taken, pushVars, shutdown, queue>>

(* tryPop with its timeout. *)
MutantTimeout == "pop"
Timeout       == "loop"

TryPop ==
  /\ At("pop")
  /\ IF queue = <<>>
     THEN Goto(Timeout) /\ UNCHANGED <<queue, frame, taken>>
     ELSE /\ frame' = Head(queue)
          /\ queue' = Tail(queue)
          /\ taken' = Append(taken, Head(queue))
          /\ Goto(Parts[1])
  /\ UNCHANGED <<linkVars, wire, pushVars, shutdown, trouble>>

(* One send of ntripSendRtcm arrives, is without effect, or fails with     *)
(* EPIPE: only that ends it.                                               *)
SendArrives(part) ==
  /\ peer = "up"
  /\ wire' = Append(wire, <<conn, part, frame>>)
  /\ UNCHANGED <<connected, peer, trouble>>

SendVanishes ==
  /\ peer = "closing"
  /\ \/ peer' = "closed" /\ UNCHANGED trouble
     \/ UNCHANGED peer /\ Trouble
  /\ UNCHANGED <<connected, wire>>

SendFails ==
  /\ peer = "closed"
  /\ DropConnection
  /\ UNCHANGED <<wire, trouble>>

Send(i) ==
  /\ At(Parts[i])
  /\ \/ /\ SendArrives(Parts[i]) \/ SendVanishes
        /\ Goto(IF i < Len(Parts) THEN Parts[i + 1] ELSE "loop")
     \/ SendFails /\ Goto("loop")
  /\ frame' = IF thread' = "loop" THEN 0 ELSE frame
  /\ UNCHANGED <<conn, refused, taken, pushVars, shutdown, queue>>

ThreadStep ==
  \/ Loop \/ ConnectCaster \/ LoginCaster \/ TryPop
  \/ \E i \in 1..Len(Parts) : Send(i)

(* The caster goes away. *)
CasterGone ==
  /\ peer = "up"
  /\ peer' = "closing"
  /\ Trouble
  /\ UNCHANGED <<connected, conn, refused, threadVars, pushVars, shutdown, queue>>

Init ==
  /\ connected = FALSE /\ shutdown = FALSE
  /\ queue = <<>>
  /\ thread = "loop"
  /\ frame = 0
  /\ peer = "none"
  /\ pushing = 0 /\ offered = 0
  /\ trouble = 0
  /\ conn = 0
  /\ refused = {}
  /\ wire = <<>>
  /\ taken = <<>>

Next == PushTest \/ PushQueue \/ Shutdown \/ ThreadStep \/ CasterGone

(* The thread runs, and so does a pushRtcm that has begun.  No fairness    *)
(* for the environment: that it makes only MaxTrouble troubles says that   *)
(* the caster comes back and reads what it is sent.                        *)
Spec ==
  /\ Init
  /\ [][Next]_vars
  /\ WF_vars(ThreadStep)
  /\ WF_vars(PushQueue)

-----------------------------------------------------------------------------
(* What comes behind a part in a series of whole chunks: the next part of  *)
(* the same frame, or the first of the frame popped next.                  *)
Follows(before, next) ==
  IF before[2] = "crlf"
  THEN /\ next[2] = "size"
       /\ \E k \in 1..(Len(taken) - 1) : taken[k] = before[3] /\ taken[k + 1] = next[3]
  ELSE /\ <<before[2], next[2]>> \in {<<"size", "data">>, <<"data", "crlf">>}
       /\ next[3] = before[3]

(* What a connection has carried is a series of whole chunks, the last one *)
(* perhaps in part, and they are consecutive frames of the queue.  A chunk *)
(* cut by a lost connection is neither completed nor repeated on the next  *)
(* one, which begins with a frame behind all that were sent before         *)
(* (ntripSendRtcm, dropConnection).                                        *)
WholeChunks ==
  \A i \in 1..Len(wire) :
    IF i > 1 /\ wire[i - 1][1] = wire[i][1]
    THEN Follows(wire[i - 1], wire[i])
    ELSE /\ wire[i][2] = "size"
         /\ \A j \in 1..(i - 1) : wire[j][1] < wire[i][1] /\ wire[j][3] < wire[i][3]

(* A caster that refused the login is sent nothing more, whatever is still *)
(* queued (loginCaster, dropConnection, the loop of ntripThread).          *)
RefusedGetsNothing == \A i \in 1..Len(wire) : wire[i][1] \notin refused

(* The destructor's join returns, wherever the thread is when it is asked  *)
(* to stop and whatever the caster does.                                   *)
ShutdownCompletes == shutdown ~> thread = "ended"

(* While the server is not shut down, a frame in the queue is sent or lost *)
(* with a connection in the end: the thread recovers from every trouble,   *)
(* including one in the middle of a chunk.                                 *)
QueueDrains == queue # <<>> ~> (queue = <<>> \/ shutdown)

=============================================================================
