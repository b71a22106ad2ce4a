----------------------------- MODULE PacketData -----------------------------
(***************************************************************************)
(* The receive path of an MSC packet mode data component                   *)
(* (DabServiceComponentMscPacketData) with its FEC buffer (DabDataFec) and *)
(* its frame aggregator (DabDataFrameAggregator), from the moment          *)
(* packetSynchronize has cut a packet out of the byte stream.              *)
(*                                                                         *)
(* Every packet is looked at twice.  On arrival packetDeduplicate hands it *)
(* on if it is plainly the next one; if not it plugs the stream.  When the *)
(* last FEC packet of a group arrives the group is run through the RS      *)
(* decoder and packetDeduplicate sees every packet of it again.            *)
(*                                                                         *)
(* A packet is a record: the sequence number packetSynchronize gave it,    *)
(* the header bytes as they are in its buffer, the header as it was        *)
(* transmitted (what a full correction restores), whether its CRC is       *)
(* right, its size and the fec_handled flag.  Sizes are counted in units   *)
(* of 24 bytes.  The payload is left out.  The FEC buffer and the          *)
(* aggregator hold pointers to the same packets: what the FEC writes into  *)
(* a packet, the aggregator finds there when its frame ends.  rewritten is *)
(* history: the header was changed while the aggregator held the packet.   *)
(* The environment is open: any packet may arrive at any time.  PacketLink *)
(* closes it.                                                              *)
(***************************************************************************)
EXTENDS Integers, Sequences

CONSTANTS
  OwnAddress,      \* m_packetAddress
  Receptions,      \* what may come off the air, as records of the fields hdr,
                   \* sent, crc and size of a packet (the code: size 1..4)
  JunkHeaders,     \* what a header may become when parity is written over it
  FecDataSize,     \* FEC_DATA_SIZE in units (the code: 2256 / 24 = 94)
  FecMaxFecPkt,    \* FEC_MAX_FEC_PKT, the counter of a group's last FEC packet
  MaxSeq           \* bound: how many packets the model receives

PadAddress == 0
FecAddress == 1022

(* pktaddress, pktcontinuity and pktfirstlast of the first header bytes. *)
Header == [addr : 0..1023, continuity : 0..3, firstlast : 0..3]

ASSUME AddressAssumption == OwnAddress \in 1..1021
ASSUME ReceptionsAssumption ==
  Receptions \subseteq [hdr : Header, sent : Header, crc : BOOLEAN, size : Nat]
ASSUME JunkAssumption    == JunkHeaders \subseteq Header
ASSUME FecAssumption     == FecDataSize \in Nat /\ FecMaxFecPkt \in 0..15
ASSUME BoundAssumption   == MaxSeq \in Nat

Seqs == 0..(MaxSeq - 1)

Packet == [seq : Seqs, hdr : Header, sent : Header, crc : BOOLEAN,
           size : Nat, handled : BOOLEAN, rewritten : BOOLEAN]

VARIABLES
  seqno,           \* m_seqno, the number the next packet gets
  fecApplied,      \* m_fecSchemeAplied, set by FIG 0/14 on the FIB thread
  plugged,         \* waiting for the FEC to resend a packet
  seqLast,         \* seq_last
  continuityLast,  \* continuity_last; its initial value is never read
  pkts,            \* DabDataFec::pkts
  resend,          \* 0, or the position packetInput's loop over pkts is at
  aggPkts,         \* DabDataFrameAggregator::pkts
  dataframe,       \* the packets of the last frame that was dispatched
  forwarded,       \* history: the seq of every packet given to frameAggregate
  fate             \* history: what became of the packet with that seq

dedupVars == <<plugged, seqLast, continuityLast>>
aggVars   == <<aggPkts, dataframe>>
vars      == <<seqno, fecApplied, dedupVars, pkts, resend, aggVars, forwarded, fate>>

Fates == {"none",       \* not received yet
          "ignored",    \* arrived as FEC or padding packet
          "first",      \* only initialised seq_last and continuity_last
          "forwarded",
          "pending",    \* refused on arrival, the FEC is to bring it again
          "withdrawn",  \* refused on arrival, and padding once corrected
          "overtaken",  \* brought by the FEC when a later one was forwarded
          "discarded"}  \* refused on arrival, and the FEC buffer was emptied

-----------------------------------------------------------------------------
(* Definitions named Mutant... are not part of the model: each is a faulty *)
(* form of the definition that follows it, for a run in which a property   *)
(* must fail.                                                              *)

(* DabDataPkt's predicates. *)
IsFec(p)     == p.hdr.addr = FecAddress
IsPadding(p) == p.hdr.addr = PadAddress
IsData(p)    == ~IsFec(p) /\ ~IsPadding(p)
FecCount(p)  == p.hdr.continuity * 4 + p.hdr.firstlast

FrameFirst(p)      == p.hdr.firstlast = 2
FrameLast(p)       == p.hdr.firstlast = 1
FrameOneAndOnly(p) == p.hdr.firstlast = 3

(* The packets held, when those of the buffer have been written to: the    *)
(* pointers in both lists are to the same packets.                         *)
SharedWith(held, buffer) ==
  [k \in 1..Len(held) |->
     IF \E i \in 1..Len(buffer) : buffer[i].seq = held[k].seq
     THEN LET q == buffer[CHOOSE i \in 1..Len(buffer) : buffer[i].seq = held[k].seq]
          IN  [q EXCEPT !.rewritten = held[k].rewritten \/ q.hdr # held[k].hdr]
     ELSE held[k]]

(* The bytes of data packets in the buffer s, summed up as                 *)
(* packetsProcessFec does while it fills the table.                        *)
DataSize(s) ==
  LET upTo[i \in 0..Len(s)] ==
        IF i = 0 THEN 0
        ELSE upTo[i - 1] + (IF IsFec(s[i]) THEN 0 ELSE s[i].size)
  IN  upTo[Len(s)]

-----------------------------------------------------------------------------
(* The packets of the last frame are left in the aggregator. *)
MutantAggregatorInput(p) ==
  LET collected == Append(aggPkts, p)
      ended == FrameLast(p) \/ FrameOneAndOnly(p)
  IN  /\ aggPkts' = collected
      /\ dataframe' = IF ended /\ FrameFirst(collected[1])
                      THEN collected ELSE dataframe

(* DabDataFrameAggregator::input with aggregate: a packet marked last ends *)
(* a frame, which is dispatched if its first packet is marked first - now, *)
(* whatever its mark was when it came.  The frame is a copy.               *)
AggregatorInput(p) ==
  LET collected ==
        Append(IF FrameFirst(p) \/ FrameOneAndOnly(p) THEN <<>> ELSE aggPkts, p)
      ended == FrameLast(p) \/ FrameOneAndOnly(p)
  IN  /\ aggPkts' = IF ended THEN <<>> ELSE collected
      /\ dataframe' = IF ended /\ FrameFirst(collected[1])
                      THEN collected ELSE dataframe

(* DabServiceComponentMscPacketData::frameAggregate. *)
FrameAggregate(p) ==
  /\ forwarded' = Append(forwarded, p.seq)
  /\ IF p.hdr.addr = OwnAddress THEN AggregatorInput(p) ELSE UNCHANGED aggVars

-----------------------------------------------------------------------------
(* packetDeduplicate, for a packet that is neither FEC nor padding. The    *)
(* test for a foreign address has no effect: its return is compiled only   *)
(* with DEBUG_PKTDEDUPE.                                                   *)
MutantOld(p) == p.seq < seqLast
Old(p)       == p.seq <= seqLast
Next4(c)     == (c + 1) % 4

MutantExpectedNoContinuity(p) == p.crc
MutantExpectedNoCrc(p)        == p.hdr.continuity = Next4(continuityLast)
Expected(p) == p.crc /\ p.hdr.continuity = Next4(continuityLast)

MutantAccepted(p)          == p.handled \/ Expected(p)
MutantAcceptedUnplugged(p) == ~plugged /\ Expected(p)
Accepted(p)                == p.handled \/ (~plugged /\ Expected(p))

MutantSetLast(p) ==
  /\ seqLast' = p.seq + 1
  /\ continuityLast' = p.hdr.continuity

SetLast(p) ==
  /\ seqLast' = p.seq
  /\ continuityLast' = p.hdr.continuity

DedupInitialize(p) ==
  /\ seqLast = 0
  /\ SetLast(p)
  /\ fate' = [fate EXCEPT ![p.seq] = "first"]
  /\ UNCHANGED <<plugged, aggVars, forwarded>>

DedupOld(p) ==
  /\ seqLast # 0
  /\ Old(p)
  /\ fate' = [fate EXCEPT ![p.seq] =
                IF @ \in {"ignored", "pending"} THEN "overtaken" ELSE @]
  /\ UNCHANGED <<dedupVars, aggVars, forwarded>>

DedupForward(p) ==
  /\ seqLast # 0
  /\ ~Old(p)
  /\ Accepted(p)
  /\ FrameAggregate(p)
  /\ SetLast(p)
  /\ plugged' = FALSE
  /\ fate' = [fate EXCEPT ![p.seq] = "forwarded"]

DedupPlug(p) ==
  /\ seqLast # 0
  /\ ~Old(p)
  /\ ~Accepted(p)
  /\ plugged' = TRUE
  /\ fate' = [fate EXCEPT ![p.seq] = "pending"]
  /\ UNCHANGED <<seqLast, continuityLast, aggVars, forwarded>>

PacketDeduplicate(p) ==
  DedupInitialize(p) \/ DedupOld(p) \/ DedupForward(p) \/ DedupPlug(p)

-----------------------------------------------------------------------------
(* DabDataFec::packetInput: the packet is stored; the last FEC packet of a *)
(* group starts packetsProcessFec on everything stored.  That packet is    *)
(* never data, so no action below deduplicates and processes at once.      *)
LastOfGroup(p) == IsFec(p) /\ FecCount(p) = FecMaxFecPkt

FecStore(p) ==
  /\ ~LastOfGroup(p)
  /\ pkts' = Append(pkts, p)
  /\ UNCHANGED resend

(* More data than a group has: packetsProcessFec empties the buffer and    *)
(* returns false, so nothing of it is sent again.                          *)
FecOverflow(p) ==
  /\ LastOfGroup(p)
  /\ DataSize(pkts) > FecDataSize
  /\ pkts' = <<>>
  /\ fate' = [s \in Seqs |->
                IF s = p.seq THEN "ignored"
                ELSE IF fate[s] = "pending" THEN "discarded" ELSE fate[s]]
  /\ UNCHANGED resend

(* Too little data: no decoding, all packets are marked and sent again. *)
FecIncomplete(p) ==
  LET group == Append(pkts, p)
  IN  /\ LastOfGroup(p)
      /\ DataSize(pkts) < FecDataSize
      /\ pkts' = [i \in 1..Len(group) |-> [group[i] EXCEPT !.handled = TRUE]]
      /\ resend' = 1
      /\ fate' = [fate EXCEPT ![p.seq] = "ignored"]

(* A full group is decoded and all its packets are marked and sent again,  *)
(* decodable or not.  fixed are the packets the decoder restores.  Writing *)
(* the corrections back walks over all packets, FEC packets too, counting  *)
(* 24 bytes for each, so from the first FEC packet on a correction lands   *)
(* where it does not belong, also in a header: the packets at clobbered    *)
(* get the header junk.                                                    *)
FecDecode(p, fixed, clobbered, junk) ==
  LET group == Append(pkts, p)
      HeaderOf(i) == IF i \in clobbered THEN junk
                     ELSE IF i \in fixed THEN group[i].sent ELSE group[i].hdr
  IN  /\ LastOfGroup(p)
      /\ DataSize(pkts) = FecDataSize
      /\ pkts' = [i \in 1..Len(group) |->
                    [group[i] EXCEPT !.hdr = HeaderOf(i), !.handled = TRUE,
                                     !.crc = i \notin clobbered /\ (@ \/ i \in fixed)]]
      /\ resend' = 1
      /\ fate' = [fate EXCEPT ![p.seq] = "ignored"]

(* What decoding may restore and what it may overwrite. *)
BehindFec(s)  == {i \in 1..Len(s) : \E j \in 1..i : IsFec(s[j])}
Damaged(s)    == {i \in 1..Len(s) \ BehindFec(s) : ~s[i].crc}

-----------------------------------------------------------------------------
(* packetInput, called for every packet cut out of the stream while no     *)
(* loop over pkts is in progress.                                          *)
Arriving ==
  /\ resend = 0
  /\ seqno < MaxSeq
  /\ seqno' = seqno + 1
  /\ UNCHANGED fecApplied

(* Without FEC the packets go straight to the aggregator. *)
ArriveDirect(p) ==
  /\ Arriving
  /\ ~fecApplied
  /\ IF IsData(p)
     THEN FrameAggregate(p) /\ fate' = [fate EXCEPT ![p.seq] = "forwarded"]
     ELSE fate' = [fate EXCEPT ![p.seq] = "ignored"] /\ UNCHANGED <<aggVars, forwarded>>
  /\ UNCHANGED <<dedupVars, pkts, resend>>

ArriveData(p) ==
  /\ Arriving
  /\ fecApplied
  /\ IsData(p)
  /\ PacketDeduplicate(p)
  /\ FecStore(p)

(* A padding or FEC packet that does not complete a group. *)
ArriveOther(p) ==
  /\ Arriving
  /\ fecApplied
  /\ ~IsData(p)
  /\ FecStore(p)
  /\ fate' = [fate EXCEPT ![p.seq] = "ignored"]
  /\ UNCHANGED <<dedupVars, aggVars, forwarded>>

ArriveLastFec(p) ==
  /\ Arriving
  /\ fecApplied
  /\ \/ FecOverflow(p)
     \/ FecIncomplete(p)
     \/ \E fixed \in SUBSET Damaged(pkts) :
        \E clobbered \in SUBSET BehindFec(Append(pkts, p)) :
        \E junk \in JunkHeaders : FecDecode(p, fixed, clobbered, junk)
  /\ aggPkts' = SharedWith(aggPkts, pkts')
  /\ UNCHANGED <<dedupVars, dataframe, forwarded>>

(* One turn of packetInput's loop over the packets of the FEC buffer. *)
ResendStep ==
  /\ resend \in 1..Len(pkts)
  /\ resend' = resend + 1
  /\ LET p == pkts[resend]
     IN  IF IsData(p) THEN PacketDeduplicate(p)
         ELSE /\ fate' = [fate EXCEPT ![p.seq] =
                            IF @ = "pending" THEN "withdrawn" ELSE @]
              /\ UNCHANGED <<dedupVars, aggVars, forwarded>>
  /\ UNCHANGED <<seqno, fecApplied, pkts>>

(* The end of the loop: fec.packetsClear. *)
ResendDone ==
  /\ resend = Len(pkts) + 1
  /\ resend' = 0
  /\ pkts' = <<>>
  /\ UNCHANGED <<seqno, fecApplied, dedupVars, aggVars, forwarded, fate>>

(* DabEnsemble::fig_00_14_input finds an FEC scheme for the subchannel.    *)
(* It runs on the FIB thread, at any moment.                               *)
ApplyFecScheme ==
  /\ ~fecApplied
  /\ fecApplied' = TRUE
  /\ UNCHANGED <<seqno, dedupVars, pkts, resend, aggVars, forwarded, fate>>

InitWith(fec) ==
  /\ seqno = 0
  /\ fecApplied = fec
  /\ plugged = FALSE
  /\ seqLast = 0
  /\ continuityLast = 0
  /\ pkts = <<>>
  /\ resend = 0
  /\ aggPkts = <<>>
  /\ dataframe = <<>>
  /\ forwarded = <<>>
  /\ fate = [s \in Seqs |-> "none"]

(* A component starts without FEC. *)
Init == InitWith(FALSE)

(* The packet packetSynchronize makes of a reception. *)
Received(r) ==
  [seq |-> seqno, hdr |-> r.hdr, sent |-> r.sent, crc |-> r.crc, size |-> r.size,
   handled |-> FALSE, rewritten |-> FALSE]

Arrive(p) == ArriveDirect(p) \/ ArriveData(p) \/ ArriveOther(p) \/ ArriveLastFec(p)

Next ==
  \/ \E r \in Receptions : Arrive(Received(r))
  \/ ResendStep
  \/ ResendDone
  \/ ApplyFecScheme

Spec == Init /\ [][Next]_vars

-----------------------------------------------------------------------------
TypeOK ==
  /\ seqno \in 0..MaxSeq
  /\ fecApplied \in BOOLEAN
  /\ plugged \in BOOLEAN
  /\ seqLast \in Seqs \cup {0}
  /\ continuityLast \in 0..3
  /\ pkts \in Seq(Packet)
  /\ resend \in Nat
  /\ aggPkts \in Seq(Packet)
  /\ dataframe \in Seq(Packet)
  /\ forwarded \in Seq(Seqs)
  /\ fate \in [Seqs -> Fates]

(* The deduplication keeps what the plug stands for: a packet refused on   *)
(* arrival stays in the FEC buffer, ahead of the loop that sends the       *)
(* buffer again, nothing newer has been forwarded meanwhile, and between   *)
(* two loops the plug is set.  So the FEC's second attempt is never too    *)
(* late for it (packetDeduplicate, packetInput).                           *)
NothingOvertakesPending ==
  \A s \in Seqs :
    fate[s] = "pending" =>
      /\ s > seqLast
      /\ \E i \in 1..Len(pkts) : pkts[i].seq = s /\ resend <= i
      /\ resend = 0 => plugged

(* No packet is forwarded twice although the FEC path brings every packet  *)
(* again, none out of order, also when FIG 0/14 switches the FEC on in the *)
(* middle of the stream: OrderedDelivery is implemented.                   *)
Delivery == INSTANCE OrderedDelivery WITH rcvd <- seqno, out <- forwarded
DeliversInOrder == Delivery!ODSpec

(* The aggregator dispatches only packets in order that form a frame: the  *)
(* first is marked first, the last is marked last, those between neither.  *)
(* That is so at the dispatch; a packet the FEC has written to meanwhile   *)
(* may bear any mark between (aggregate, packetsProcessFec).               *)
FrameWellFormed ==
  dataframe # <<>> =>
    /\ Len(dataframe) > 1
    /\ FrameFirst(dataframe[1])
    /\ FrameLast(dataframe[Len(dataframe)])
    /\ \A i \in 2..(Len(dataframe) - 1) :
         ~dataframe[i].rewritten => dataframe[i].hdr.firstlast = 0
    /\ \A i \in 1..(Len(dataframe) - 1) : dataframe[i].seq < dataframe[i + 1].seq

=============================================================================
