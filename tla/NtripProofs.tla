----------------------------- MODULE NtripProofs -----------------------------
(***************************************************************************)
(* A caster that refused the login is sent nothing more.  The queue, the    *)
(* flag m_connected and the socket are shared, and nothing but the order of *)
(* the steps ties a frame to the connection it was popped for: what is      *)
(* shown is that the steps never lead from a refusal to a send on it.       *)
(***************************************************************************)
EXTENDS NtripServer, SequenceTheorems, TLAPS

Chunks == Seq(Nat \X {"size", "data", "crlf"} \X Nat)

(* What the steps keep of the values: numbers, and the queue of frames.     *)
TypeInv ==
  /\ offered \in Nat /\ pushing \in Nat /\ frame \in Nat /\ conn \in Nat
  /\ queue \in Seq(Nat)
  /\ wire \in Chunks

(* Connections are numbered in turn: none is refused or carries anything    *)
(* before it is made.                                                       *)
PastOnly ==
  /\ \A c \in refused : c \in Nat /\ c <= conn
  /\ \A i \in DOMAIN wire : wire[i][1] <= conn

(* The login is the first thing a connection does, and the caster is there  *)
(* only until it has refused.                                               *)
LoginFirst ==
  /\ At("login") => \A i \in DOMAIN wire : wire[i][1] # conn
  /\ peer = "up" => conn \notin refused

Unsent == \A i \in DOMAIN wire : wire[i][1] \notin refused

IInv == TypeInv /\ PastOnly /\ LoginFirst /\ Unsent

-----------------------------------------------------------------------------
LEMMA InitEstablishes == Init => IInv
BY EmptySeq DEF Init, IInv, TypeInv, PastOnly, LoginFirst, Unsent, Chunks, At

LEMMA UnsentIsEnough == IInv => RefusedGetsNothing
BY LenProperties DEF IInv, TypeInv, Unsent, Chunks, RefusedGetsNothing

(* A step that leaves the connections and the wire alone, and is not the    *)
(* one to the login.                                                        *)
LEMMA Elsewhere ==
  ASSUME IInv, UNCHANGED <<conn, refused, wire>>, TypeInv',
         peer' = "up" => peer = "up", At("login")' => At("login")
  PROVE  IInv'
BY DEF IInv, PastOnly, LoginFirst, Unsent, At

(* One send: what arrives is the connection's own, and that is not refused. *)
LEMMA SendKeeps == ASSUME IInv, NEW i \in 1..Len(Parts), Send(i) PROVE IInv'
<1>1. Parts[i] \in {"size", "data", "crlf"} /\ ~At("login") /\ ~At("login")'
  BY DEF Send, Parts, At, Goto
<1>2. UNCHANGED <<offered, pushing, queue, conn, refused>> /\ frame' \in Nat
  BY DEF Send, IInv, TypeInv, pushVars
<1>3. CASE SendArrives(Parts[i])
  <2> DEFINE w == <<conn, Parts[i], frame>>
  <2>1. w \in Nat \X {"size", "data", "crlf"} \X Nat /\ w[1] = conn
    BY <1>1 DEF IInv, TypeInv
  <2>2. wire' = Append(wire, w) /\ conn \notin refused /\ peer' = "up"
    BY <1>3 DEF SendArrives, IInv, LoginFirst
  <2> HIDE DEF w
  <2>3. /\ wire' \in Chunks
        /\ \A j \in DOMAIN wire' : \/ j \in DOMAIN wire /\ wire'[j] = wire[j]
                                  \/ wire'[j] = w
    <3>1. wire \in Chunks
      BY DEF IInv, TypeInv
    <3>2. wire \in Seq(Nat \X {"size", "data", "crlf"} \X Nat)
      BY <3>1 DEF Chunks
    <3>3. /\ Append(wire, w) \in Seq(Nat \X {"size", "data", "crlf"} \X Nat)
          /\ Len(Append(wire, w)) = Len(wire) + 1
          /\ \A k \in 1..Len(wire) : Append(wire, w)[k] = wire[k]
          /\ Append(wire, w)[Len(wire) + 1] = w
      BY <2>1, <3>2, AppendProperties
    <3>4. Len(wire) \in Nat /\ DOMAIN wire = 1..Len(wire) /\ DOMAIN Append(wire, w) = 1..Len(Append(wire, w))
      BY <3>2, <3>3, LenProperties
    <3>5. \A j \in DOMAIN Append(wire, w) : j \in DOMAIN wire \/ j = Len(wire) + 1
      BY <3>3, <3>4
    <3> QED
      BY <2>2, <3>3, <3>4, <3>5 DEF Chunks
  <2> QED
    BY <1>1, <1>2, <2>1, <2>2, <2>3, SMTT(40) DEF IInv, TypeInv, PastOnly, LoginFirst, Unsent
<1>4. CASE SendVanishes
  BY <1>1, <1>2, <1>4, Elsewhere DEF SendVanishes, IInv, TypeInv
<1>5. CASE SendFails
  BY <1>1, <1>2, <1>5, Elsewhere DEF SendFails, DropConnection, IInv, TypeInv
<1> QED
  BY <1>3, <1>4, <1>5 DEF Send

-----------------------------------------------------------------------------
LEMMA StepKeeps == IInv /\ [Next]_vars => IInv'
<1> SUFFICES ASSUME IInv, [Next]_vars PROVE IInv'
  OBVIOUS
<1> USE DEF linkVars, threadVars, pushVars, At, Goto
<1>1. CASE PushTest
  BY <1>1, Elsewhere DEF PushTest, IInv, TypeInv
<1>2. CASE PushQueue
  <2>1. queue' \in Seq(Nat)
    BY <1>2, AppendProperties DEF PushQueue, IInv, TypeInv
  <2> QED
    BY <1>2, <2>1, Elsewhere DEF PushQueue, IInv, TypeInv
<1>3. CASE Shutdown
  BY <1>3, Elsewhere DEF Shutdown, IInv, TypeInv
<1>4. CASE Loop
  BY <1>4, Elsewhere DEF Loop, IInv, TypeInv
<1>5. CASE ConnectCaster
  BY <1>5 DEF ConnectCaster, AfterFailure, IInv, TypeInv, PastOnly, LoginFirst, Unsent, Chunks
<1>6. CASE LoginCaster
  BY <1>6 DEF LoginCaster, DropConnection, IInv, TypeInv, PastOnly, LoginFirst, Unsent
<1>7. CASE TryPop
  <2>1. queue' \in Seq(Nat) /\ frame' \in Nat
    BY <1>7, HeadTailProperties DEF TryPop, IInv, TypeInv
  <2> QED
    BY <1>7, <2>1, Elsewhere DEF TryPop, Timeout, Parts, IInv, TypeInv
<1>8. CASE CasterGone
  BY <1>8, Elsewhere DEF CasterGone, IInv, TypeInv
<1>9. CASE UNCHANGED vars
  BY <1>9, Elsewhere DEF vars, IInv, TypeInv
<1> QED
  BY <1>1, <1>2, <1>3, <1>4, <1>5, <1>6, <1>7, <1>8, <1>9, SendKeeps DEF Next, ThreadStep

(* A caster that refused the login is sent nothing more: for any number of  *)
(* frames, connections and troubles, wherever the thread is when they come  *)
(* (loginCaster, dropConnection, the loop of ntripThread).                  *)
THEOREM RefusedStaysUnsent == Spec => []RefusedGetsNothing
<1>1. Spec => []IInv
  BY InitEstablishes, StepKeeps, PTL DEF Spec
<1> QED
  BY <1>1, UnsentIsEnough, PTL

-----------------------------------------------------------------------------
(* Whole chunks.  The frames are numbered as they are offered: those that   *)
(* were popped, those in the queue and the one being pushed are in order.   *)
InOrder(s) == \A i, j \in DOMAIN s : i < j => s[i] < s[j]

FramesInOrder ==
  /\ taken \in Seq(Nat)
  /\ InOrder(taken) /\ InOrder(queue)
  /\ \A i \in DOMAIN taken, j \in DOMAIN queue : taken[i] < queue[j]
  /\ \A i \in DOMAIN taken : taken[i] <= offered /\ (pushing # 0 => taken[i] < pushing)
  /\ \A i \in DOMAIN queue : queue[i] <= offered /\ (pushing # 0 => queue[i] < pushing)
  /\ pushing <= offered

(* The frame in hand is the one popped last, and none of it is sent before   *)
(* its size.                                                                *)
FrameInHand ==
  /\ thread \in {"size", "data", "crlf"} => Len(taken) > 0 /\ frame = taken[Len(taken)]
  /\ At("size") => \A i \in DOMAIN wire : wire[i][3] < frame

(* What arrived came on one connection after the other, of frames popped.   *)
WireInOrder ==
  /\ \A i, j \in DOMAIN wire : i < j => wire[i][1] <= wire[j][1]
  /\ \A i \in DOMAIN wire : \E k \in DOMAIN taken : wire[i][3] = taken[k]

(* While the caster is there, what arrived last on this connection is just  *)
(* before what the thread is going to send.                                 *)
Begun == Len(wire) > 0 /\ wire[Len(wire)][1] = conn

LastPart ==
  peer = "up" =>
    /\ At("size") /\ Begun => /\ wire[Len(wire)][2] = "crlf"
                              /\ Len(taken) > 1
                              /\ wire[Len(wire)][3] = taken[Len(taken) - 1]
    /\ At("data") => Begun /\ wire[Len(wire)][2] = "size" /\ wire[Len(wire)][3] = frame
    /\ At("crlf") => Begun /\ wire[Len(wire)][2] = "data" /\ wire[Len(wire)][3] = frame
    /\ thread \notin {"size", "data", "crlf"} /\ Begun =>
         /\ wire[Len(wire)][2] = "crlf"
         /\ Len(taken) > 0
         /\ wire[Len(wire)][3] = taken[Len(taken)]

ChunkInv == FramesInOrder /\ FrameInHand /\ WireInOrder /\ LastPart /\ WholeChunks

-----------------------------------------------------------------------------
(* One more at the end of a sequence, and one less at its start.            *)
LEMMA Appended ==
  ASSUME NEW S, NEW s \in Seq(S), NEW e \in S
  PROVE  /\ Len(s) \in Nat /\ DOMAIN s = 1..Len(s)
         /\ Append(s, e) \in Seq(S)
         /\ Len(Append(s, e)) = Len(s) + 1 /\ DOMAIN Append(s, e) = 1..(Len(s) + 1)
         /\ \A i \in 1..Len(s) : Append(s, e)[i] = s[i]
         /\ Append(s, e)[Len(s) + 1] = e
<1>1. Append(s, e) \in Seq(S) /\ Len(Append(s, e)) = Len(s) + 1
  BY AppendProperties
<1>2. DOMAIN Append(s, e) = 1..Len(Append(s, e)) /\ Len(s) \in Nat /\ DOMAIN s = 1..Len(s)
  BY <1>1, LenProperties
<1> QED
  BY <1>1, <1>2, AppendProperties

LEMMA FirstAndRest ==
  ASSUME NEW S, NEW s \in Seq(S), s # <<>>
  PROVE  /\ Len(s) \in Nat \ {0} /\ DOMAIN s = 1..Len(s)
         /\ Head(s) = s[1] /\ Head(s) \in S
         /\ Tail(s) \in Seq(S) /\ Len(Tail(s)) = Len(s) - 1 /\ DOMAIN Tail(s) = 1..(Len(s) - 1)
         /\ \A i \in 1..(Len(s) - 1) : Tail(s)[i] = s[i + 1]
<1>1. Len(s) \in Nat \ {0} /\ DOMAIN s = 1 .. Len(s)
  BY EmptySeq, LenProperties
<1>2. Tail(s) \in Seq(S) /\ Len(Tail(s)) = Len(s) - 1 /\ Head(s) \in S
  BY HeadTailProperties
<1>3. DOMAIN Tail(s) = 1 .. (Len(s) - 1)
  BY <1>2, LenProperties
<1>4. \A i \in 1 .. (Len(s) - 1) : Tail(s)[i] = s[i + 1]
  BY <1>2, HeadTailProperties
<1> QED
  BY <1>1, <1>2, <1>3, <1>4

LEMMA OrderOfRest ==
  ASSUME NEW s \in Seq(Nat), s # <<>>, InOrder(s)
  PROVE  /\ InOrder(Tail(s))
         /\ \A i \in DOMAIN Tail(s) : s[1] < Tail(s)[i]
<1>1. \A i \in DOMAIN Tail(s) : /\ i \in Nat /\ 1 \in DOMAIN s /\ i + 1 \in DOMAIN s /\ 1 < i + 1
                              /\ Tail(s)[i] = s[i + 1]
  BY FirstAndRest
<1>2. ASSUME NEW i \in DOMAIN Tail(s), NEW j \in DOMAIN Tail(s), i < j
      PROVE  Tail(s)[i] < Tail(s)[j]
  <2>1. i + 1 \in DOMAIN s /\ j + 1 \in DOMAIN s /\ i + 1 < j + 1
    BY <1>1, <1>2
  <2>2. s[i + 1] < s[j + 1]
    BY <2>1 DEF InOrder
  <2> QED
    BY <1>1, <2>2
<1>3. ASSUME NEW i \in DOMAIN Tail(s) PROVE s[1] < Tail(s)[i]
  BY <1>1 DEF InOrder
<1> QED
  BY <1>2, <1>3 DEF InOrder

LEMMA OrderOfMore ==
  ASSUME NEW s \in Seq(Nat), InOrder(s), NEW e \in Nat, \A i \in DOMAIN s : s[i] < e
  PROVE  InOrder(Append(s, e))
<1>1. /\ Len(s) \in Nat /\ DOMAIN s = 1..Len(s) /\ DOMAIN Append(s, e) = 1..(Len(s) + 1)
      /\ \A i \in 1..Len(s) : Append(s, e)[i] = s[i]
      /\ Append(s, e)[Len(s) + 1] = e
  BY Appended
<1> QED
  BY <1>1 DEF InOrder

LEMMA InitChunks == Init => ChunkInv
<1>1. /\ <<>> \in Seq(Nat) /\ Len(<<>>) = 0
      /\ DOMAIN <<>> = {}
  BY EmptySeq
<1> QED
  BY <1>1 DEF Init, ChunkInv, FramesInOrder, InOrder, FrameInHand, WireInOrder, LastPart, WholeChunks,
              At, Begun

(* What pushRtcm and the caster do.                                         *)
LEMMA ThreadStays ==
  ASSUME ChunkInv, UNCHANGED <<linkVars, threadVars>>, FramesInOrder'
  PROVE  ChunkInv'
BY DEF ChunkInv, FrameInHand, WireInOrder, LastPart, WholeChunks, Follows, Begun, At, linkVars, threadVars

LEMMA PushTestChunks == ASSUME IInv, ChunkInv, PushTest PROVE ChunkInv'
<1>1. UNCHANGED <<taken, queue>> /\ offered' = offered + 1 /\ pushing' \in {0, offered + 1} /\ pushing = 0
  BY DEF PushTest, threadVars
<1>2. InOrder(taken)' /\ InOrder(queue)'
  BY <1>1 DEF ChunkInv, FramesInOrder, InOrder
<1>3. taken \in Seq(Nat) /\ queue \in Seq(Nat) /\ offered \in Nat
  BY DEF ChunkInv, FramesInOrder, IInv, TypeInv
<1>4. /\ \A i \in DOMAIN taken : taken[i] \in Nat /\ taken[i] <= offered
      /\ \A i \in DOMAIN queue : queue[i] \in Nat /\ queue[i] <= offered
  BY <1>3, ElementOfSeq, LenProperties DEF ChunkInv, FramesInOrder
<1>5. FramesInOrder'
  BY <1>1, <1>2, <1>3, <1>4 DEF ChunkInv, FramesInOrder
<1> QED
  BY <1>5, ThreadStays DEF PushTest

LEMMA PushQueueChunks == ASSUME IInv, ChunkInv, PushQueue PROVE ChunkInv'
<1>1. queue \in Seq(Nat) /\ pushing \in Nat /\ queue' = Append(queue, pushing)
  BY DEF PushQueue, IInv, TypeInv
<1>2. /\ \A j \in DOMAIN queue' : \/ j \in DOMAIN queue /\ queue'[j] = queue[j]
                                  \/ j = Len(queue) + 1 /\ queue'[j] = pushing
      /\ DOMAIN queue' = 1..(Len(queue) + 1) /\ DOMAIN queue = 1..Len(queue) /\ Len(queue) \in Nat
  BY <1>1, Appended
<1>3. UNCHANGED <<linkVars, threadVars, offered>> /\ pushing # 0 /\ pushing' = 0
  BY DEF PushQueue
<1>4. FramesInOrder'
  <2> USE <1>1, <1>2, <1>3 DEF ChunkInv, FramesInOrder, InOrder, IInv, TypeInv, threadVars
  <2>1. InOrder(queue)'
    OBVIOUS
  <2>2. \A i \in DOMAIN taken, j \in DOMAIN queue' : taken[i] < queue'[j]
    OBVIOUS
  <2> QED
    BY <2>1, <2>2
<1> QED
  BY <1>3, <1>4, ThreadStays

(* A step that sends nothing, pops nothing and moves the thread between      *)
(* chunks, on the same connection while the caster is there.                *)
LEMMA BetweenChunks ==
  ASSUME ChunkInv, UNCHANGED <<wire, taken, queue, pushing, offered>>,
         thread \notin {"size", "data", "crlf"}, thread' \notin {"size", "data", "crlf"},
         peer' = "up" => peer = "up" /\ conn' = conn
  PROVE  ChunkInv'
BY DEF ChunkInv, FramesInOrder, InOrder, FrameInHand, WireInOrder, LastPart, WholeChunks, Follows,
       Begun, At

LEMMA GoneChunks ==
  ASSUME ChunkInv, UNCHANGED <<wire, taken, queue, pushing, offered, thread, frame>>, peer' # "up"
  PROVE  ChunkInv'
BY DEF ChunkInv, FramesInOrder, InOrder, FrameInHand, WireInOrder, LastPart, WholeChunks, Follows,
       Begun, At

LEMMA ConnectChunks == ASSUME IInv, ChunkInv, ConnectCaster PROVE ChunkInv'
<1>1. CASE peer' = peer /\ conn' = conn
  BY <1>1, BetweenChunks DEF ConnectCaster, pushVars, At, Goto, AfterFailure
<1>2. CASE peer' = "up" /\ conn' = conn + 1
  <2>1. ~Begun'
    BY <1>2, LenProperties DEF Begun, IInv, TypeInv, Chunks, PastOnly, ConnectCaster
  <2> QED
    BY <1>2, <2>1 DEF ConnectCaster, pushVars, At, Goto, AfterFailure, ChunkInv, FramesInOrder, InOrder,
                      FrameInHand, WireInOrder, LastPart, WholeChunks, Follows, Begun
<1> QED
  BY <1>1, <1>2 DEF ConnectCaster

LEMMA TryPopChunks == ASSUME IInv, ChunkInv, TryPop PROVE ChunkInv'
<1>1. CASE queue = <<>>
  BY <1>1, BetweenChunks DEF TryPop, Timeout, At, Goto, linkVars, pushVars
<1>2. CASE queue # <<>>
  <2> DEFINE f == Head(queue)
  <2>1. /\ queue \in Seq(Nat) /\ taken \in Seq(Nat)
        /\ thread' = "size" /\ thread \notin {"size", "data", "crlf"}
        /\ frame' = f /\ queue' = Tail(queue) /\ taken' = Append(taken, f)
        /\ UNCHANGED <<connected, peer, conn, refused, wire, pushing, offered>>
    BY <1>2 DEF TryPop, Parts, At, Goto, IInv, TypeInv, ChunkInv, FramesInOrder, linkVars, pushVars
  <2>2. /\ Len(queue) \in Nat \ {0} /\ DOMAIN queue = 1..Len(queue) /\ f = queue[1] /\ f \in Nat
        /\ DOMAIN queue' = 1..(Len(queue) - 1)
        /\ \A i \in 1..(Len(queue) - 1) : queue'[i] = queue[i + 1]
    BY <1>2, <2>1, FirstAndRest
  <2>3. /\ Len(taken) \in Nat /\ DOMAIN taken = 1..Len(taken) /\ taken' \in Seq(Nat)
        /\ Len(taken') = Len(taken) + 1 /\ DOMAIN taken' = 1..(Len(taken) + 1)
        /\ \A i \in 1..Len(taken) : taken'[i] = taken[i]
        /\ taken'[Len(taken) + 1] = f
    BY <2>1, <2>2, Appended
  <2> HIDE DEF f
  <2>4. FramesInOrder'
    <3>1. \A i \in DOMAIN taken : taken[i] < f
      BY <2>2 DEF ChunkInv, FramesInOrder
    <3>2. InOrder(taken')
      BY <2>1, <2>2, <3>1, OrderOfMore DEF ChunkInv, FramesInOrder
    <3>3. InOrder(queue') /\ \A i \in DOMAIN queue' : f < queue'[i]
      BY <1>2, <2>1, <2>2, OrderOfRest DEF ChunkInv, FramesInOrder
    <3>4. \A i \in DOMAIN queue' : i + 1 \in DOMAIN queue /\ queue'[i] = queue[i + 1]
      BY <2>2
    <3>5. \A i \in DOMAIN taken' : \/ i \in DOMAIN taken /\ taken'[i] = taken[i]
                                  \/ taken'[i] = f
      BY <2>3
    <3>6. \A i \in DOMAIN taken, j \in DOMAIN queue' : taken[i] < queue'[j]
      BY <3>4 DEF ChunkInv, FramesInOrder
    <3>7. \A i \in DOMAIN taken', j \in DOMAIN queue' : taken'[i] < queue'[j]
      BY <3>3, <3>5, <3>6
    <3>8. f <= offered /\ (pushing # 0 => f < pushing)
      BY <2>2 DEF ChunkInv, FramesInOrder
    <3>9. \A i \in DOMAIN taken' : taken'[i] <= offered /\ (pushing # 0 => taken'[i] < pushing)
      BY <3>5, <3>8 DEF ChunkInv, FramesInOrder
    <3>10. \A i \in DOMAIN queue' : queue'[i] <= offered /\ (pushing # 0 => queue'[i] < pushing)
      BY <3>4 DEF ChunkInv, FramesInOrder
    <3> QED
      BY <2>1, <2>3, <3>2, <3>3, <3>7, <3>9, <3>10 DEF ChunkInv, FramesInOrder
  <2>5. FrameInHand'
    BY <2>1, <2>2, <2>3 DEF ChunkInv, FramesInOrder, FrameInHand, WireInOrder, At
  <2>6. WireInOrder'
    BY <2>1, <2>3 DEF ChunkInv, WireInOrder
  <2>7. LastPart'
    <3>1. Len(taken') - 1 = Len(taken) /\ (Len(taken) > 0 => Len(taken') > 1)
      BY <2>3
    <3>2. Len(taken) > 0 => taken'[Len(taken)] = taken[Len(taken)]
      BY <2>3
    <3>3. ASSUME peer' = "up", Begun'
          PROVE  /\ wire'[Len(wire')][2] = "crlf"
                 /\ Len(taken) > 0
                 /\ wire'[Len(wire')][3] = taken[Len(taken)]
      BY <2>1, <3>3 DEF ChunkInv, LastPart, Begun
    <3> QED
      BY <2>1, <3>1, <3>2, <3>3 DEF LastPart, At
  <2>8. WholeChunks'
    <3>1. \A k \in 1..(Len(taken) - 1) : /\ k \in 1..(Len(taken') - 1)
                                         /\ taken'[k] = taken[k] /\ taken'[k + 1] = taken[k + 1]
      BY <2>3
    <3> QED
      BY <2>1, <3>1 DEF ChunkInv, WholeChunks, Follows
  <2> QED
    BY <2>4, <2>5, <2>6, <2>7, <2>8 DEF ChunkInv
<1> QED
  BY <1>1, <1>2

-----------------------------------------------------------------------------
(* One send: what arrives follows what arrived last, or begins a chunk on a   *)
(* connection that has carried nothing.                                     *)
LEMMA ArrivesInPlace ==
  ASSUME IInv, ChunkInv, NEW i \in 1..3, At(Parts[i]), peer = "up", NEW w, w = <<conn, Parts[i], frame>>
  PROVE  /\ Begun => Follows(wire[Len(wire)], w)
         /\ ~Begun => /\ w[2] = "size"
                      /\ \A j \in DOMAIN wire : wire[j][1] < w[1] /\ wire[j][3] < w[3]
<1> USE DEF At, Parts
<1>1. wire \in Chunks /\ taken \in Seq(Nat) /\ conn \in Nat
  BY DEF IInv, TypeInv, ChunkInv, FramesInOrder
<1>2. /\ Len(wire) \in Nat /\ DOMAIN wire = 1..Len(wire)
      /\ Len(taken) \in Nat /\ DOMAIN taken = 1..Len(taken)
      /\ \A j \in DOMAIN wire : wire[j] \in Nat \X {"size", "data", "crlf"} \X Nat
  BY <1>1, LenProperties, ElementOfSeq DEF Chunks
<1>3. thread \in {"size", "data", "crlf"} /\ thread = Parts[i]
  OBVIOUS
<1>4. ASSUME Begun PROVE Follows(wire[Len(wire)], w)
  <2>1. CASE thread = "size"
    <3>1. Len(taken) - 1 \in 1..(Len(taken) - 1) /\ (Len(taken) - 1) + 1 = Len(taken)
      BY <1>2, <1>4, <2>1 DEF ChunkInv, LastPart
    <3> QED
      BY <1>3, <1>4, <2>1, <3>1 DEF ChunkInv, FrameInHand, LastPart, Follows
  <2>2. CASE thread \in {"data", "crlf"}
    BY <1>3, <1>4, <2>2 DEF ChunkInv, FrameInHand, LastPart, Follows
  <2> QED
    BY <1>3, <2>1, <2>2
<1>5. ASSUME ~Begun PROVE w[2] = "size" /\ \A j \in DOMAIN wire : wire[j][3] < w[3]
  BY <1>3, <1>5 DEF ChunkInv, FrameInHand, LastPart
<1>6. ASSUME ~Begun, NEW j \in DOMAIN wire PROVE wire[j][1] < w[1]
  <2>1. wire[Len(wire)][1] # conn /\ wire[Len(wire)][1] <= conn /\ Len(wire) \in DOMAIN wire
    BY <1>2, <1>6 DEF Begun, IInv, PastOnly
  <2>2. wire[j][1] <= wire[Len(wire)][1]
    BY <1>2, <1>6, <2>1 DEF ChunkInv, WireInOrder
  <2>3. w[1] = conn
    OBVIOUS
  <2>4. wire[j][1] \in Nat /\ wire[Len(wire)][1] \in Nat
    BY <1>2, <2>1
  <2> QED
    BY <1>1, <2>1, <2>2, <2>3, <2>4
<1> QED
  BY <1>4, <1>5, <1>6

LEMMA SendChunks == ASSUME IInv, ChunkInv, NEW i \in 1..Len(Parts), Send(i) PROVE ChunkInv'
<1> USE DEF At
<1>1. /\ i \in 1..3 /\ Len(Parts) = 3 /\ thread = Parts[i]
      /\ UNCHANGED <<conn, queue, taken, pushing, offered>>
      /\ thread' # "loop" => frame' = frame
      /\ thread \in {"size", "data", "crlf"}
  BY DEF Send, Parts, pushVars
<1>2. FramesInOrder'
  BY <1>1 DEF ChunkInv, FramesInOrder, InOrder
<1>3. \/ thread' = "loop"
      \/ thread = "size" /\ thread' = "data"
      \/ thread = "data" /\ thread' = "crlf"
  BY <1>1 DEF Send, Goto, Parts
<1>4. CASE SendArrives(Parts[i])
  <2> DEFINE w == <<conn, Parts[i], frame>>
  <2>1. /\ wire' = Append(wire, w) /\ UNCHANGED peer /\ peer = "up"
        /\ w[1] = conn /\ w[2] = thread /\ w[3] = frame
        /\ thread' = IF i < 3 THEN Parts[i + 1] ELSE "loop"
    BY <1>1, <1>4 DEF SendArrives, SendFails, Send, Goto
  <2>2. w \in Nat \X {"size", "data", "crlf"} \X Nat
    BY <1>1 DEF IInv, TypeInv
  <2>3. /\ Begun => Follows(wire[Len(wire)], w)
        /\ ~Begun => /\ w[2] = "size"
                     /\ \A j \in DOMAIN wire : wire[j][1] < w[1] /\ wire[j][3] < w[3]
    BY <1>1, <2>1, ArrivesInPlace
  <2> HIDE DEF w
  <2>4. /\ Len(wire) \in Nat /\ DOMAIN wire = 1..Len(wire)
        /\ Len(wire') = Len(wire) + 1 /\ DOMAIN wire' = 1..(Len(wire) + 1)
        /\ \A j \in 1..Len(wire) : wire'[j] = wire[j]
        /\ wire'[Len(wire) + 1] = w
    BY <2>1, <2>2, Appended DEF IInv, TypeInv, Chunks
  <2>5. FrameInHand'
    BY <1>1, <1>3 DEF ChunkInv, FrameInHand
  <2>6. WireInOrder'
    <3>1. \A j, k \in DOMAIN wire' : j < k => wire'[j][1] <= wire'[k][1]
      BY <2>1, <2>4 DEF ChunkInv, WireInOrder, IInv, PastOnly, TypeInv
    <3>2. \E k \in DOMAIN taken : frame = taken[k]
      BY <1>1, LenProperties DEF ChunkInv, FrameInHand, FramesInOrder
    <3>3. \A j \in DOMAIN wire' : \E k \in DOMAIN taken : wire'[j][3] = taken[k]
      BY <2>1, <2>4, <3>2 DEF ChunkInv, WireInOrder
    <3> QED
      BY <1>1, <3>1, <3>3 DEF WireInOrder
  <2>7. LastPart'
    <3>1. Begun' /\ wire'[Len(wire')] = w
      BY <1>1, <2>1, <2>4 DEF Begun
    <3>2. /\ thread = "size" => thread' = "data"
          /\ thread = "data" => thread' = "crlf"
          /\ thread = "crlf" => thread' = "loop"
      BY <1>1, <2>1 DEF Parts
    <3> QED
      BY <1>1, <2>1, <3>1, <3>2 DEF LastPart, ChunkInv, FrameInHand
  <2>8. WholeChunks'
    <3> SUFFICES ASSUME NEW j \in 1..(Len(wire) + 1)
                 PROVE  (IF j > 1 /\ wire[j - 1][1] = wire[j][1]
                         THEN Follows(wire[j - 1], wire[j])
                         ELSE /\ wire[j][2] = "size"
                              /\ \A k \in 1..(j - 1) :
                                   wire[k][1] < wire[j][1] /\ wire[k][3] < wire[j][3])'
      BY <2>4 DEF WholeChunks
    <3>1. CASE j \in 1..Len(wire)
      <4>1. /\ wire'[j] = wire[j]
            /\ j > 1 => wire'[j - 1] = wire[j - 1]
            /\ \A k \in 1..(j - 1) : wire'[k] = wire[k]
        <5>1. /\ j > 1 => j - 1 \in 1..Len(wire)
              /\ \A k \in 1..(j - 1) : k \in 1..Len(wire)
          BY <2>4, <3>1
        <5> QED
          BY <2>4, <3>1, <5>1
      <4>2. IF j > 1 /\ wire[j - 1][1] = wire[j][1]
            THEN Follows(wire[j - 1], wire[j])
            ELSE /\ wire[j][2] = "size"
                 /\ \A k \in 1..(j - 1) : wire[k][1] < wire[j][1] /\ wire[k][3] < wire[j][3]
        BY <3>1 DEF ChunkInv, WholeChunks
      <4>3. taken' = taken
        BY <1>1
      <4> QED
        BY <4>1, <4>2, <4>3 DEF Follows
    <3>2. CASE j = Len(wire) + 1
      <4>1. wire'[j] = w /\ \A k \in 1..(j - 1) : wire'[k] = wire[k] /\ k \in DOMAIN wire
        BY <2>4, <3>2
      <4>2. (j > 1 /\ wire'[j - 1][1] = wire'[j][1]) <=> Begun
        <5>1. j - 1 = Len(wire) /\ (j > 1 <=> Len(wire) > 0)
          BY <2>4, <3>2
        <5>2. j > 1 => wire'[j - 1] = wire[Len(wire)]
          BY <2>4, <5>1
        <5> QED
          BY <2>1, <4>1, <5>1, <5>2 DEF Begun
      <4> QED
        BY <1>1, <2>3, <2>4, <3>2, <4>1, <4>2 DEF Follows
    <3> QED
      BY <3>1, <3>2
  <2> QED
    BY <1>2, <2>5, <2>6, <2>7, <2>8 DEF ChunkInv
<1>5. CASE SendVanishes \/ SendFails
  <2>1. wire' = wire /\ peer' # "up"
    BY <1>5 DEF SendVanishes, SendFails, DropConnection
  <2> QED
    BY <1>1, <1>2, <1>3, <2>1 DEF ChunkInv, FrameInHand, WireInOrder, LastPart, WholeChunks, Follows
<1> QED
  BY <1>4, <1>5 DEF Send

-----------------------------------------------------------------------------
LEMMA StepKeepsChunks == IInv /\ ChunkInv /\ [Next]_vars => ChunkInv'
<1> SUFFICES ASSUME IInv, ChunkInv, [Next]_vars PROVE ChunkInv'
  OBVIOUS
<1>1. CASE Shutdown
  BY <1>1, ThreadStays DEF Shutdown, ChunkInv, FramesInOrder, InOrder, threadVars, pushVars
<1>2. CASE Loop
  BY <1>2, BetweenChunks DEF Loop, At, Goto, linkVars, pushVars
<1>3. CASE LoginCaster
  BY <1>3, BetweenChunks DEF LoginCaster, DropConnection, At, Goto, pushVars
<1>4. CASE CasterGone
  BY <1>4, GoneChunks DEF CasterGone, threadVars, pushVars
<1>5. CASE UNCHANGED vars
  BY <1>5, ThreadStays DEF vars, ChunkInv, FramesInOrder, InOrder, threadVars, pushVars
<1> QED
  BY <1>1, <1>2, <1>3, <1>4, <1>5, PushTestChunks, PushQueueChunks, ConnectChunks, TryPopChunks,
     SendChunks DEF Next, ThreadStep

(* What a connection has carried is a series of whole chunks of consecutive  *)
(* frames, the last one perhaps in part, and no frame is begun again on the  *)
(* next connection: for any number of frames, connections and troubles,     *)
(* wherever in a chunk they come (ntripSendRtcm, dropConnection).           *)
THEOREM ChunksStayWhole == Spec => []WholeChunks
<1>1. Spec => [](IInv /\ ChunkInv)
  BY InitEstablishes, InitChunks, StepKeeps, StepKeepsChunks, PTL DEF Spec
<1>2. ChunkInv => WholeChunks
  BY DEF ChunkInv
<1> QED
  BY <1>1, <1>2, PTL
=============================================================================
