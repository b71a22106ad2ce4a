------------------------------ MODULE Programme ------------------------------
(***************************************************************************)
(* A DAB+ programme with labels and slides: DabServiceComponentMscStream-   *)
(* Audio with its superframe decoder, which has a queue and a thread of its *)
(* own, and its PAD decoder, which that thread calls.  In front of it a     *)
(* transmitter, and a channel that loses, damages and forges: units may be   *)
(* lost (the tuner clears its memory), damaged, zero, or may by chance look  *)
(* like the beginning of a superframe; reception begins anywhere.           *)
(***************************************************************************)
EXTENDS AudioFrames, PadDelivery

CONSTANTS
  ChunkSize,      \* units per call of componentMscDataInput
  FaultAt,        \* places in a chunk where something may happen
  FalseHeaders,   \* headers that are read where the fire code fits by chance
  MaxFaults,      \* bound: faults, the beginning in mid-superframe included
  SuperFrameMargin \* superframes before one that counts

ASSUME ChannelAssumption ==
  /\ ChunkSize \in Nat \ {0} /\ FaultAt \subseteq 1 .. ChunkSize
  /\ \A h \in FalseHeaders : IsHeader(h)

(* Of the superframes before one that count, the first brings the scan to a  *)
(* superframe's beginning, and the next the count of the thread.            *)
ASSUME MarginAssumption == SuperFrameMargin \in Nat /\ SuperFrameMargin >= 2

VARIABLES
  air,       \* units sent
  sync,      \* m_unsyncDataBuffer, m_unsyncSync, m_unsyncFrameCount
  queue,     \* m_conQueue
  super,     \* m_currentSuperFrame and its state
  faults,    \* faults so far
  hit        \* history: superframes that did not arrive as they were sent

vars == <<station, air, sync, queue, super, pad, faults, hit, heard, shown, slides>>

SentPerSuperFrame == 5 * FrameSize
AUs               == NumAUs(Header)
SuperFrames       == Len(station) \div AUs
SuperFrameOf(n)   == (n - 1) \div SentPerSuperFrame + 1

(* The n-th unit sent.                                                     *)
Sent(n) ==
  LET at == ((n - 1) % SentPerSuperFrame) + 1
  IN  [sf |-> SuperFrameOf(n), at |-> at, ok |-> "ok",
       header |-> IF at = 1 THEN Header ELSE NoHeader]

Init ==
  /\ DeliveryInit
  /\ air \in 0 .. (SentPerSuperFrame - 1)
  /\ faults = IF air = 0 THEN 0 ELSE 1
  /\ hit = IF air = 0 THEN {} ELSE {1}
  /\ sync = NoSync
  /\ queue = <<>>
  /\ super = NoSuperFrame

-----------------------------------------------------------------------------
(* componentMscDataInput, componentDataInput.                              *)
Input(units) ==
  LET y == SynchronizeData(sync, units)
  IN  /\ sync' = [y EXCEPT !.frames = <<>>]
      /\ queue' = queue \o y.frames
      /\ UNCHANGED <<super, deliveryVars>>

(* The next units; a call finds the thread waiting for it.                  *)
NextChunk == [k \in 1 .. Min({ChunkSize, SuperFrames * SentPerSuperFrame - air}) |->
               Sent(air + k)]

More == queue = <<>> /\ air < SuperFrames * SentPerSuperFrame

Receive ==
  /\ More
  /\ Input(NextChunk)
  /\ air' = air + Len(NextChunk)
  /\ UNCHANGED <<faults, hit>>

(* The units of the chunk, with those from at to upTo replaced.              *)
Faulty(at, upTo, units) ==
  /\ More
  /\ faults < MaxFaults
  /\ upTo <= Len(NextChunk)
  /\ Input(SubSeq(NextChunk, 1, at - 1) \o units \o
           SubSeq(NextChunk, upTo + 1, Len(NextChunk)))
  /\ air' = air + Len(NextChunk)
  /\ faults' = faults + 1
  /\ hit' = hit \union {NextChunk[k].sf : k \in at..upTo}

Lose    == \E at \in FaultAt, upTo \in {1, ChunkSize} :
             at <= upTo /\ Faulty(at, upTo, <<>>)
Damage  == \E at \in FaultAt :
             Faulty(at, at, <<[NextChunk[at] EXCEPT !.ok = "bad", !.header = NoHeader]>>)
Silence == \E at \in FaultAt :
             Faulty(at, ChunkSize, [k \in 1..(ChunkSize - at + 1) |->
               [NextChunk[at] EXCEPT !.ok = "zero", !.header = ZeroHeader]])
Chance  == \E at \in FaultAt, h \in FalseHeaders :
             /\ at <= Len(NextChunk)
             /\ NextChunk[at].at # 1
             /\ Faulty(at, at, <<[NextChunk[at] EXCEPT !.header = h]>>)

-----------------------------------------------------------------------------
(* The place of an AU among those of the station.                           *)
Place(au) ==
  (au[1].sf - 1) * AUs + (CHOOSE j \in 1..AUs : Starts(Header)[j] = au[1].at)

(* The PAD decoder gets the PADs of the AUs whose CRC fits.                 *)
Handled(r, aus) ==
  LET after[k \in 0 .. Len(aus)] ==
        IF k = 0 THEN Unheard(r)
        ELSE IF CrcFits(aus[k]) THEN Hear(after[k-1], Place(aus[k])) ELSE after[k-1]
  IN  after[Len(aus)]

(* The thread takes a frame from its queue.                                 *)
ProcessFrame ==
  /\ queue # <<>>
  /\ queue' = Tail(queue)
  /\ super' = ProcessData(super, Head(queue))
  /\ Record(Handled(pad, super'.aus))
  /\ UNCHANGED <<station, air, sync, faults, hit>>

Next == Receive \/ Lose \/ Damage \/ Silence \/ Chance \/ ProcessFrame

Spec == Init /\ [][Next]_vars

-----------------------------------------------------------------------------
(* A superframe is decoded if it and the few before it arrive undisturbed,  *)
(* whatever came before: the scan for the fire code and the count of the    *)
(* thread find their place again.                                          *)
SyncRegained ==
  queue = <<>> /\ sync.data # <<>> =>
    \A s \in 1 .. (sync.data[1].sf - 1) :
      (s - SuperFrameMargin) .. s \intersect hit = {} => Heard((s - 1) * AUs + 1, s * AUs)

=============================================================================
