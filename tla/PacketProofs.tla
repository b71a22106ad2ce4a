---------------------------- MODULE PacketProofs ----------------------------
(***************************************************************************)
(* Proofs about PacketData for every address, set of receptions, group     *)
(* size and length of the stream: type correctness, that a packet refused  *)
(* on arrival is never overtaken, that frames are well formed and that the *)
(* pipeline implements OrderedDelivery.  Then about PacketLink for every   *)
(* group size, number of groups and bound on damage and loss: what holds   *)
(* of the receiver whatever is sent still holds behind the transmitter,    *)
(* and as long as no packet is lost the component's packets are all        *)
(* delivered, in frames as they were sent.                                 *)
(***************************************************************************)
EXTENDS PacketLink, SequenceTheorems, WellFoundedInduction, TLAPS

(***************************************************************************)
(* The inductive invariant.                                                *)
(***************************************************************************)

(* Before FIG 0/14 nothing is buffered and packetDeduplicate never ran. *)
IdleWithoutFec ==
  ~fecApplied => pkts = <<>> /\ seqLast = 0 /\ resend = 0

(* The FEC buffer holds received packets in the order of reception; the    *)
(* loop over it meets only handled ones.                                   *)
BufferInv ==
  /\ resend \in 0..(Len(pkts) + 1)
  /\ \A i \in 1..Len(pkts) : pkts[i].seq < seqno
  /\ \A i, j \in 1..Len(pkts) : i < j => pkts[i].seq < pkts[j].seq
  /\ resend # 0 => \A i \in 1..Len(pkts) : pkts[i].handled

(* seq_last bounds what was forwarded once it is set; until then what was  *)
(* forwarded without FEC is older than anything buffered.                  *)
ForwardedInv ==
  /\ \A i, j \in 1..Len(forwarded) : i < j => forwarded[i] < forwarded[j]
  /\ \A i \in 1..Len(forwarded) : forwarded[i] < seqno
  /\ seqLast # 0 => /\ seqLast < seqno
                    /\ \A i \in 1..Len(forwarded) : forwarded[i] <= seqLast
  /\ seqLast = 0 => \A i \in 1..Len(forwarded), j \in 1..Len(pkts) :
                       forwarded[i] < pkts[j].seq

(* Nothing is known of packets to come; without a reference nothing plugs. *)
FateInv ==
  /\ \A s \in Seqs : s >= seqno => fate[s] = "none"
  /\ seqLast = 0 => \A s \in Seqs : fate[s] # "pending"

(* What the aggregator holds was forwarded, in that order, and only its    *)
(* first packet can be marked, but for what the FEC has written since.     *)
AggregatorInv ==
  /\ \A i \in 1..Len(aggPkts) :
       \E j \in 1..Len(forwarded) : forwarded[j] = aggPkts[i].seq
  /\ \A i, j \in 1..Len(aggPkts) : i < j => aggPkts[i].seq < aggPkts[j].seq
  /\ \A i \in 1..Len(aggPkts) : ~aggPkts[i].rewritten =>
       aggPkts[i].hdr.firstlast \in (IF i = 1 THEN {0, 2} ELSE {0})

IInv ==
  /\ TypeOK
  /\ IdleWithoutFec
  /\ BufferInv
  /\ ForwardedInv
  /\ FateInv
  /\ AggregatorInv
  /\ FrameWellFormed
  /\ NothingOvertakesPending

-----------------------------------------------------------------------------
(***************************************************************************)
(* Lemmas about the operators.                                             *)
(***************************************************************************)

(* Sequence numbers are natural numbers below the bound. *)
LEMMA SeqsNat ==
  /\ Seqs \subseteq Nat
  /\ \A s \in Seqs \cup {0} : s \in Nat
  /\ \A s \in Seqs : s < MaxSeq
BY BoundAssumption DEF Seqs

(* What the receiver may be given, here and behind a transmitter. *)
Reception == [hdr : Header, sent : Header, crc : BOOLEAN, size : Nat]

(* packetSynchronize makes a packet of every reception, numbered seqno. *)
LEMMA ReceivedType ==
  ASSUME TypeOK, Arriving, NEW r \in Reception
  PROVE  /\ Received(r) \in Packet
         /\ Received(r).seq = seqno
         /\ ~Received(r).handled
         /\ seqno \in Seqs
<1>1. seqno \in Seqs
  BY BoundAssumption DEF TypeOK, Arriving, Seqs
<1>2. r \in [hdr : Header, sent : Header, crc : BOOLEAN, size : Nat]
  BY DEF Reception
<1>. QED BY <1>1, <1>2 DEF Received, Packet

(* Appending keeps what is already there. *)
LEMMA AppendFacts ==
  ASSUME NEW S, NEW s \in Seq(S), NEW e \in S
  PROVE  /\ Append(s, e) \in Seq(S)
         /\ Len(Append(s, e)) = Len(s) + 1
         /\ \A i \in 1..Len(s) : Append(s, e)[i] = s[i]
         /\ Append(s, e)[Len(s) + 1] = e
OBVIOUS

(* A packet held is as it was, or as the one of its number in the buffer.  *)
LEMMA SharedFacts ==
  ASSUME NEW held \in Seq(Packet), NEW buffer \in Seq(Packet)
  PROVE  /\ SharedWith(held, buffer) \in Seq(Packet)
         /\ Len(SharedWith(held, buffer)) = Len(held)
         /\ \A k \in 1..Len(held) :
              /\ SharedWith(held, buffer)[k].seq = held[k].seq
              /\ ~SharedWith(held, buffer)[k].rewritten =>
                   /\ ~held[k].rewritten
                   /\ SharedWith(held, buffer)[k].hdr = held[k].hdr
              /\ \/ SharedWith(held, buffer)[k] = held[k]
                 \/ \E i \in 1..Len(buffer) :
                      /\ buffer[i].seq = held[k].seq
                      /\ SharedWith(held, buffer)[k].crc = buffer[i].crc
                      /\ SharedWith(held, buffer)[k].hdr = buffer[i].hdr
                      /\ SharedWith(held, buffer)[k].sent = buffer[i].sent
<1>. DEFINE now(k) == buffer[CHOOSE i \in 1..Len(buffer) : buffer[i].seq = held[k].seq]
            one(k) == IF \E i \in 1..Len(buffer) : buffer[i].seq = held[k].seq
                      THEN [now(k) EXCEPT !.rewritten = held[k].rewritten \/ now(k).hdr # held[k].hdr]
                      ELSE held[k]
<1>1. SharedWith(held, buffer) = [k \in 1..Len(held) |-> one(k)]
  BY DEF SharedWith
<1>2. ASSUME NEW k \in 1..Len(held)
      PROVE  /\ one(k) \in Packet
             /\ one(k).seq = held[k].seq
             /\ ~one(k).rewritten => ~held[k].rewritten /\ one(k).hdr = held[k].hdr
             /\ \/ one(k) = held[k]
                \/ \E i \in 1..Len(buffer) :
                     /\ buffer[i].seq = held[k].seq
                     /\ one(k).crc = buffer[i].crc
                     /\ one(k).hdr = buffer[i].hdr
                     /\ one(k).sent = buffer[i].sent
  <2>1. held[k] \in Packet
    OBVIOUS
  <2>2. CASE ~\E i \in 1..Len(buffer) : buffer[i].seq = held[k].seq
    BY <2>1, <2>2
  <2>3. CASE \E i \in 1..Len(buffer) : buffer[i].seq = held[k].seq
    <3>1. PICK i \in 1..Len(buffer) : now(k) = buffer[i] /\ buffer[i].seq = held[k].seq
      BY <2>3
    <3>2. now(k) \in Packet
      BY <3>1
    <3>3. one(k) = [now(k) EXCEPT !.rewritten = held[k].rewritten \/ now(k).hdr # held[k].hdr]
      BY <2>3
    <3>. HIDE DEF now, one
    <3>4. /\ one(k) \in Packet
          /\ one(k).seq = now(k).seq /\ one(k).crc = now(k).crc
          /\ one(k).hdr = now(k).hdr /\ one(k).sent = now(k).sent
          /\ one(k).rewritten = (held[k].rewritten \/ now(k).hdr # held[k].hdr)
      BY <2>1, <3>2, <3>3 DEF Packet
    <3>. QED BY <3>1, <3>4
  <2>. QED BY <2>2, <2>3
<1>. HIDE DEF one
<1>. DEFINE after == [k \in 1..Len(held) |-> one(k)]
<1>3. after \in Seq(Packet) /\ Len(after) = Len(held) /\ \A k \in 1..Len(held) : after[k] = one(k)
  BY <1>2
<1>. HIDE DEF after
<1>4. SharedWith(held, buffer) = after
  BY <1>1 DEF after
<1>. QED BY <1>2, <1>3, <1>4

(* So the aggregator keeps its packets' numbers, and their marks but for    *)
(* those written to.                                                       *)
LEMMA SharedAggregator ==
  ASSUME TypeOK, AggregatorInv, FrameWellFormed, pkts' \in Seq(Packet),
         aggPkts' = SharedWith(aggPkts, pkts'), UNCHANGED <<dataframe, forwarded>>
  PROVE  aggPkts' \in Seq(Packet) /\ AggregatorInv' /\ FrameWellFormed'
<1>. DEFINE after == SharedWith(aggPkts, pkts')
<1>1. aggPkts \in Seq(Packet)
  BY DEF TypeOK
<1>2. /\ after \in Seq(Packet) /\ Len(after) = Len(aggPkts)
      /\ \A k \in 1..Len(aggPkts) :
           /\ after[k].seq = aggPkts[k].seq
           /\ ~after[k].rewritten => ~aggPkts[k].rewritten /\ after[k].hdr = aggPkts[k].hdr
  BY <1>1, SharedFacts
<1>3. aggPkts' = after
  OBVIOUS
<1>. HIDE DEF after
<1>4. AggregatorInv'
  BY <1>2, <1>3 DEF AggregatorInv
<1>5. FrameWellFormed'
  BY DEF FrameWellFormed
<1>. QED BY <1>2, <1>3, <1>4, <1>5

(* The aggregator takes a packet newer than everything forwarded.          *)
LEMMA FrameAggregateStep ==
  ASSUME TypeOK, AggregatorInv, FrameWellFormed,
         NEW p \in Packet,
         \A i \in 1..Len(forwarded) : forwarded[i] < p.seq,
         FrameAggregate(p)
  PROVE  /\ forwarded' \in Seq(Seqs)
         /\ aggPkts' \in Seq(Packet)
         /\ dataframe' \in Seq(Packet)
         /\ AggregatorInv'
         /\ FrameWellFormed'
<1>0. /\ forwarded \in Seq(Seqs) /\ aggPkts \in Seq(Packet) /\ dataframe \in Seq(Packet)
      /\ p.seq \in Seqs /\ p.hdr.firstlast \in 0..3
      /\ Seqs \subseteq Nat
      /\ \A q \in Packet : q.seq \in Seqs
  <2>1. p.hdr \in Header /\ p.seq \in Seqs /\ \A q \in Packet : q.seq \in Seqs
    BY DEF Packet
  <2>2. p.hdr.firstlast \in 0..3
    BY <2>1 DEF Header
  <2>3. Seqs \subseteq Nat
    BY BoundAssumption DEF Seqs
  <2>. QED BY <2>1, <2>2, <2>3 DEF TypeOK
<1>1. /\ forwarded' = Append(forwarded, p.seq)
      /\ forwarded' \in Seq(Seqs)
      /\ Len(forwarded') = Len(forwarded) + 1
      /\ \A i \in 1..Len(forwarded) : forwarded'[i] = forwarded[i]
      /\ forwarded'[Len(forwarded) + 1] = p.seq
  BY <1>0, AppendFacts DEF FrameAggregate
<1>2. \A q \in Packet : (\E j \in 1..Len(forwarded) : forwarded[j] = q.seq)
                          => q.seq < p.seq /\ \E j \in 1..Len(forwarded') : forwarded'[j] = q.seq
  BY <1>0, <1>1
<1>3. CASE p.hdr.addr # OwnAddress
  <2>1. aggPkts' = aggPkts /\ dataframe' = dataframe
    BY <1>3 DEF FrameAggregate, aggVars
  <2>2. AggregatorInv'
    BY <2>1, <1>0, <1>1, <1>2 DEF AggregatorInv
  <2>3. FrameWellFormed'
    BY <2>1 DEF FrameWellFormed
  <2>. QED BY <2>1, <2>2, <2>3, <1>0, <1>1
<1>4. CASE p.hdr.addr = OwnAddress
  <2>. DEFINE fresh == FrameFirst(p) \/ FrameOneAndOnly(p)
              collected == Append(IF fresh THEN <<>> ELSE aggPkts, p)
              ended == FrameLast(p) \/ FrameOneAndOnly(p)
  <2>1. /\ aggPkts' = IF ended THEN <<>> ELSE collected
        /\ dataframe' = IF ended /\ FrameFirst(collected[1]) THEN collected ELSE dataframe
    BY <1>4 DEF FrameAggregate, AggregatorInput
  <2>2. /\ collected \in Seq(Packet) /\ Len(collected) \in Nat \ {0}
        /\ collected[Len(collected)] = p
        /\ fresh => Len(collected) = 1
        /\ ~fresh => /\ Len(collected) = Len(aggPkts) + 1
                     /\ \A i \in 1..Len(aggPkts) : collected[i] = aggPkts[i]
    BY <1>0, AppendFacts
  <2>3. \A i \in 1..Len(collected) :
           \E j \in 1..Len(forwarded') : forwarded'[j] = collected[i].seq
    <3>1. TAKE i \in 1..Len(collected)
    <3>2. CASE i = Len(collected)
      BY <3>2, <2>2, <1>0, <1>1
    <3>3. CASE i # Len(collected)
      <4>1. i \in 1..Len(aggPkts) /\ collected[i] = aggPkts[i] /\ aggPkts[i] \in Packet
        BY <3>3, <2>2, <1>0
      <4>2. \E j \in 1..Len(forwarded) : forwarded[j] = aggPkts[i].seq
        BY <4>1 DEF AggregatorInv
      <4>3. \E j \in 1..Len(forwarded') : forwarded'[j] = aggPkts[i].seq
        BY <4>1, <4>2, <1>2
      <4>. QED BY <4>1, <4>3
    <3>. QED BY <3>2, <3>3
  <2>4. \A i, j \in 1..Len(collected) : i < j => collected[i].seq < collected[j].seq
    <3>1. TAKE i, j \in 1..Len(collected)
    <3>2. HAVE i < j
    <3>3. i \in 1..Len(aggPkts) /\ collected[i] = aggPkts[i] /\ aggPkts[i] \in Packet
      BY <3>2, <2>2, <1>0
    <3>4. CASE j = Len(collected)
      BY <3>3, <3>4, <2>2, <1>2 DEF AggregatorInv
    <3>5. CASE j # Len(collected)
      <4>1. j \in 1..Len(aggPkts) /\ collected[j] = aggPkts[j]
        <5>1. j \in 1..(Len(collected) - 1) /\ ~fresh
          BY <3>5, <3>2, <2>2
        <5>. QED BY <5>1, <2>2, <1>0
      <4>. QED BY <4>1, <3>2, <3>3 DEF AggregatorInv
    <3>. QED BY <3>4, <3>5
  <2>5. \A i \in 1..(Len(collected) - 1) :
           /\ i \in 1..Len(aggPkts) /\ ~fresh
           /\ collected[i] = aggPkts[i]
           /\ ~collected[i].rewritten =>
                collected[i].hdr.firstlast \in (IF i = 1 THEN {0, 2} ELSE {0})
    BY <2>2, <1>0 DEF AggregatorInv
  <2>6. CASE ended
    <3>1. aggPkts' = <<>>
      BY <2>6, <2>1
    <3>2. AggregatorInv'
      BY <3>1 DEF AggregatorInv
    <3>3. CASE ~FrameFirst(collected[1])
      <4>1. dataframe' = dataframe
        BY <3>3, <2>1
      <4>. QED BY <4>1, <3>1, <3>2, <1>0, <1>1 DEF FrameWellFormed
    <3>4. CASE FrameFirst(collected[1])
      <4>1. dataframe' = collected
        BY <3>4, <2>6, <2>1
      <4>2. p.hdr.firstlast \in {1, 3}
        BY <2>6 DEF FrameLast, FrameOneAndOnly
      <4>3. Len(collected) > 1
        BY <4>2, <3>4, <2>2 DEF FrameFirst
      <4>4. p.hdr.firstlast = 1
        BY <4>2, <4>3, <2>2 DEF FrameOneAndOnly
      <4>5. /\ FrameLast(collected[Len(collected)])
            /\ \A i \in 2..(Len(collected) - 1) :
                 ~collected[i].rewritten => collected[i].hdr.firstlast = 0
        BY <4>4, <2>2, <2>5 DEF FrameLast
      <4>6. FrameWellFormed'
        BY <4>1, <4>3, <4>5, <3>4, <2>2, <2>4, SMTT(40) DEF FrameWellFormed
      <4>. QED BY <4>1, <4>6, <3>1, <3>2, <2>2, <1>1
    <3>. QED BY <3>3, <3>4
  <2>7. CASE ~ended
    <3>1. aggPkts' = collected /\ dataframe' = dataframe
      BY <2>7, <2>1
    <3>2. p.hdr.firstlast \in {0, 2} /\ (p.hdr.firstlast = 2 => Len(collected) = 1)
      BY <2>7, <2>2, <1>0 DEF FrameLast, FrameOneAndOnly, FrameFirst
    <3>3. \A i \in 1..Len(collected) : ~collected[i].rewritten =>
            collected[i].hdr.firstlast \in (IF i = 1 THEN {0, 2} ELSE {0})
      BY <3>2, <2>2, <2>5
    <3>4. AggregatorInv'
      BY <3>1, <3>3, <2>3, <2>4 DEF AggregatorInv
    <3>. QED BY <3>1, <3>4, <2>2, <1>0, <1>1 DEF FrameWellFormed
  <2>. QED BY <2>6, <2>7
<1>. QED BY <1>3, <1>4

(* What one call of packetDeduplicate can do: forward the packet behind    *)
(* everything forwarded, take it as the first one, plug, or nothing.       *)
LEMMA DedupStep ==
  ASSUME TypeOK, AggregatorInv, FrameWellFormed, ForwardedInv,
         NEW p \in Packet,
         PacketDeduplicate(p)
  PROVE  /\ plugged' \in BOOLEAN
         /\ seqLast' \in Seqs \cup {0}
         /\ continuityLast' \in 0..3
         /\ forwarded' \in Seq(Seqs)
         /\ aggPkts' \in Seq(Packet)
         /\ dataframe' \in Seq(Packet)
         /\ fate' \in [Seqs -> Fates]
         /\ AggregatorInv'
         /\ FrameWellFormed'
         /\ \/ forwarded' = forwarded
            \/ /\ forwarded' = Append(forwarded, p.seq)
               /\ seqLast # 0
               /\ p.seq > seqLast
               /\ seqLast' = p.seq
         /\ \/ seqLast' = seqLast
            \/ /\ seqLast' = p.seq
               /\ p.seq > seqLast
               /\ seqLast = 0 \/ p.handled \/ ~plugged
         /\ seqLast = 0 => forwarded' = forwarded /\ fate'[p.seq] = "first" /\ seqLast' = p.seq
         /\ \A s \in Seqs : s # p.seq => fate'[s] = fate[s]
         /\ fate'[p.seq] = "pending" =>
              /\ ~p.handled
              /\ plugged'
              /\ seqLast # 0
              /\ seqLast' = seqLast
              /\ p.seq > seqLast
         /\ plugged /\ ~p.handled => plugged'
<1>0. /\ p.seq \in Seqs /\ p.seq \in Nat /\ p.hdr.continuity \in 0..3 /\ p.handled \in BOOLEAN
      /\ plugged \in BOOLEAN /\ seqLast \in Nat /\ seqLast \in Seqs \cup {0}
      /\ fate \in [Seqs -> Fates]
  <2>1. p.hdr \in Header /\ p.seq \in Seqs /\ p.handled \in BOOLEAN
    BY DEF Packet
  <2>2. p.hdr.continuity \in 0..3
    BY <2>1 DEF Header
  <2>3. Seqs \subseteq Nat
    BY BoundAssumption DEF Seqs
  <2>4. plugged \in BOOLEAN /\ seqLast \in Seqs \cup {0} /\ fate \in [Seqs -> Fates]
    BY DEF TypeOK
  <2>5. seqLast \in Nat /\ p.seq \in Nat
    BY <2>1, <2>4, SeqsNat
  <2>. QED BY <2>1, <2>2, <2>4, <2>5
<1>1. CASE DedupInitialize(p)
  <2>1. /\ seqLast = 0 /\ seqLast' = p.seq /\ continuityLast' = p.hdr.continuity
        /\ fate' = [fate EXCEPT ![p.seq] = "first"]
        /\ plugged' = plugged /\ aggPkts' = aggPkts /\ dataframe' = dataframe
        /\ forwarded' = forwarded
    BY <1>1 DEF DedupInitialize, SetLast, aggVars
  <2>2. /\ fate' \in [Seqs -> Fates]
        /\ \A s \in Seqs : s # p.seq => fate'[s] = fate[s]
        /\ fate'[p.seq] = "first"
    BY <2>1, <1>0 DEF Fates
  <2>3. AggregatorInv' /\ FrameWellFormed'
    BY <2>1 DEF AggregatorInv, FrameWellFormed
  <2>. QED BY <2>1, <2>2, <2>3, <1>0 DEF TypeOK
<1>2. CASE DedupOld(p)
  <2>1. /\ seqLast # 0 /\ seqLast' = seqLast /\ continuityLast' = continuityLast
        /\ fate' = [fate EXCEPT ![p.seq] =
                      IF @ \in {"ignored", "pending"} THEN "overtaken" ELSE @]
        /\ plugged' = plugged /\ aggPkts' = aggPkts /\ dataframe' = dataframe
        /\ forwarded' = forwarded
    BY <1>2 DEF DedupOld, dedupVars, aggVars
  <2>2. /\ fate' \in [Seqs -> Fates]
        /\ \A s \in Seqs : s # p.seq => fate'[s] = fate[s]
        /\ fate'[p.seq] # "pending"
    BY <2>1, <1>0 DEF Fates
  <2>3. AggregatorInv' /\ FrameWellFormed'
    BY <2>1 DEF AggregatorInv, FrameWellFormed
  <2>. QED BY <2>1, <2>2, <2>3, <1>0 DEF TypeOK
<1>3. CASE DedupForward(p)
  <2>1. /\ seqLast # 0 /\ seqLast' = p.seq /\ continuityLast' = p.hdr.continuity
        /\ fate' = [fate EXCEPT ![p.seq] = "forwarded"]
        /\ plugged' = FALSE /\ FrameAggregate(p)
        /\ p.seq > seqLast /\ (p.handled \/ ~plugged)
    BY <1>3, <1>0 DEF DedupForward, SetLast, Old, Accepted
  <2>2. /\ fate' \in [Seqs -> Fates]
        /\ \A s \in Seqs : s # p.seq => fate'[s] = fate[s]
        /\ fate'[p.seq] = "forwarded"
    BY <2>1, <1>0 DEF Fates
  <2>3. \A i \in 1..Len(forwarded) : forwarded[i] < p.seq
    <3>1. \A i \in 1..Len(forwarded) : forwarded[i] <= seqLast /\ forwarded[i] \in Nat
      BY <2>1, BoundAssumption DEF ForwardedInv, TypeOK, Seqs
    <3>. QED BY <3>1, <2>1, <1>0
  <2>4. /\ forwarded' \in Seq(Seqs) /\ aggPkts' \in Seq(Packet)
        /\ dataframe' \in Seq(Packet) /\ AggregatorInv' /\ FrameWellFormed'
    BY <2>1, <2>3, FrameAggregateStep
  <2>5. forwarded' = Append(forwarded, p.seq)
    BY <2>1 DEF FrameAggregate
  <2>. QED BY <2>1, <2>2, <2>4, <2>5, <1>0
<1>4. CASE DedupPlug(p)
  <2>1. /\ seqLast # 0 /\ seqLast' = seqLast /\ continuityLast' = continuityLast
        /\ fate' = [fate EXCEPT ![p.seq] = "pending"]
        /\ plugged' = TRUE /\ aggPkts' = aggPkts /\ dataframe' = dataframe
        /\ forwarded' = forwarded
        /\ p.seq > seqLast /\ ~p.handled
    BY <1>4, <1>0 DEF DedupPlug, Old, Accepted, aggVars
  <2>2. /\ fate' \in [Seqs -> Fates]
        /\ \A s \in Seqs : s # p.seq => fate'[s] = fate[s]
    BY <2>1, <1>0 DEF Fates
  <2>3. AggregatorInv' /\ FrameWellFormed'
    BY <2>1 DEF AggregatorInv, FrameWellFormed
  <2>. QED BY <2>1, <2>2, <2>3, <1>0 DEF TypeOK
<1>. QED BY <1>1, <1>2, <1>3, <1>4 DEF PacketDeduplicate

-----------------------------------------------------------------------------
(***************************************************************************)
(* The invariant is inductive: one lemma per action.                       *)
(***************************************************************************)

(* IInv holds before the first packet. *)
LEMMA InitIInv ==
  ASSUME NEW fec \in BOOLEAN, InitWith(fec)
  PROVE  IInv
<1>. USE DEF InitWith
<1>1. TypeOK
  <2>1. fate \in [Seqs -> Fates]
    BY DEF Fates
  <2>2. seqno \in 0..MaxSeq /\ continuityLast \in 0..3
    BY BoundAssumption
  <2>3. pkts \in Seq(Packet) /\ aggPkts \in Seq(Packet) /\ dataframe \in Seq(Packet)
        /\ forwarded \in Seq(Seqs)
    OBVIOUS
  <2>4. seqLast \in Seqs \cup {0} /\ resend \in Nat /\ plugged \in BOOLEAN
        /\ fecApplied \in BOOLEAN
    OBVIOUS
  <2>. QED BY <2>1, <2>2, <2>3, <2>4 DEF TypeOK
<1>2. IdleWithoutFec /\ BufferInv /\ ForwardedInv /\ FateInv
  BY DEF IdleWithoutFec, BufferInv, ForwardedInv, FateInv
<1>3. AggregatorInv /\ FrameWellFormed /\ NothingOvertakesPending
  BY DEF AggregatorInv, FrameWellFormed, NothingOvertakesPending
<1>. QED BY <1>1, <1>2, <1>3 DEF IInv

(* The facts about numbers that every step needs. *)
LEMMA Numbers ==
  ASSUME TypeOK
  PROVE  /\ MaxSeq \in Nat /\ seqno \in Nat /\ seqLast \in Nat
         /\ Seqs \subseteq Nat
         /\ \A s \in Seqs : s < MaxSeq
         /\ Len(pkts) \in Nat /\ Len(forwarded) \in Nat /\ Len(aggPkts) \in Nat
         /\ \A i \in 1..Len(forwarded) : forwarded[i] \in Nat
         /\ \A i \in 1..Len(pkts) : pkts[i] \in Packet /\ pkts[i].seq \in Seqs
<1>1. MaxSeq \in Nat /\ Seqs \subseteq Nat /\ \A s \in Seqs : s < MaxSeq
  BY BoundAssumption, SeqsNat
<1>2. \A q \in Packet : q.seq \in Seqs
  BY DEF Packet
<1>3. /\ seqno \in 0..MaxSeq /\ seqLast \in Seqs \cup {0}
      /\ pkts \in Seq(Packet) /\ forwarded \in Seq(Seqs) /\ aggPkts \in Seq(Packet)
  BY DEF TypeOK
<1>4. seqno \in Nat /\ seqLast \in Nat
  BY <1>1, <1>3, SeqsNat
<1>5. \A i \in 1..Len(forwarded) : forwarded[i] \in Seqs
  BY <1>3
<1>6. \A i \in 1..Len(forwarded) : forwarded[i] \in Nat
  BY <1>5, SeqsNat
<1>7. \A i \in 1..Len(pkts) : pkts[i] \in Packet
  BY <1>3
<1>8. \A i \in 1..Len(pkts) : pkts[i] \in Packet /\ pkts[i].seq \in Seqs
  BY <1>2, <1>7
<1>. QED BY <1>1, <1>3, <1>4, <1>6, <1>8

(* A step that receives a packet decides nothing about packets to come. *)
LEMMA FutureUntouched ==
  ASSUME TypeOK, FateInv, seqno' = seqno + 1,
         \A s \in Seqs : s # seqno => fate'[s] = fate[s]
  PROVE  \A s \in Seqs : s >= seqno' => fate'[s] = "none"
<1>1. seqno \in Nat
  BY Numbers
<1>2. TAKE s \in Seqs
<1>3. HAVE s >= seqno'
<1>4. s \in Nat
  BY SeqsNat
<1>5. s >= seqno /\ s # seqno
  BY <1>1, <1>3, <1>4
<1>. QED BY <1>5 DEF FateInv

(* Switching the FEC on in the middle of the stream keeps IInv. *)
LEMMA ApplyFecSchemeIInv ==
  ASSUME IInv, ApplyFecScheme
  PROVE  IInv'
<1>1. /\ fecApplied' = TRUE
      /\ UNCHANGED <<seqno, plugged, seqLast, continuityLast, pkts, resend,
                     aggPkts, dataframe, forwarded, fate>>
  BY DEF ApplyFecScheme, dedupVars, aggVars
<1>2. TypeOK' /\ IdleWithoutFec'
  BY <1>1 DEF IInv, TypeOK, IdleWithoutFec
<1>3. BufferInv' /\ ForwardedInv' /\ FateInv'
  BY <1>1 DEF IInv, BufferInv, ForwardedInv, FateInv
<1>4. AggregatorInv' /\ FrameWellFormed' /\ NothingOvertakesPending'
  BY <1>1 DEF IInv, AggregatorInv, FrameWellFormed, NothingOvertakesPending
<1>. QED BY <1>2, <1>3, <1>4 DEF IInv

(* Emptying the FEC buffer behind the loop keeps IInv: nothing is pending *)
(* in it any more. *)
LEMMA ResendDoneIInv ==
  ASSUME IInv, ResendDone
  PROVE  IInv'
<1>1. /\ resend = Len(pkts) + 1 /\ resend' = 0 /\ pkts' = <<>>
      /\ UNCHANGED <<seqno, fecApplied, plugged, seqLast, continuityLast,
                     aggPkts, dataframe, forwarded, fate>>
  BY DEF ResendDone, dedupVars, aggVars
<1>2. TypeOK' /\ IdleWithoutFec'
  BY <1>1 DEF IInv, TypeOK, IdleWithoutFec
<1>3. BufferInv' /\ ForwardedInv' /\ FateInv'
  BY <1>1 DEF IInv, BufferInv, ForwardedInv, FateInv
<1>4. AggregatorInv' /\ FrameWellFormed'
  BY <1>1 DEF IInv, AggregatorInv, FrameWellFormed
<1>5. \A s \in Seqs : fate[s] # "pending"
  BY <1>1, Numbers DEF IInv, NothingOvertakesPending
<1>6. NothingOvertakesPending'
  BY <1>1, <1>5 DEF NothingOvertakesPending
<1>. QED BY <1>2, <1>3, <1>4, <1>6 DEF IInv

(* A packet received without FEC keeps IInv. *)
LEMMA ArriveDirectIInv ==
  ASSUME IInv, NEW r \in Reception, ArriveDirect(Received(r))
  PROVE  IInv'
<1>. DEFINE p == Received(r)
<1>0. TypeOK
  BY DEF IInv
<1>1. /\ ~fecApplied /\ seqno < MaxSeq /\ seqno' = seqno + 1 /\ Arriving
      /\ UNCHANGED <<fecApplied, plugged, seqLast, continuityLast, pkts, resend>>
      /\ pkts = <<>> /\ seqLast = 0 /\ resend = 0
  BY DEF ArriveDirect, Arriving, dedupVars, IInv, IdleWithoutFec
<1>2. p \in Packet /\ p.seq = seqno /\ seqno \in Seqs
  BY <1>0, <1>1, ReceivedType
<1>3. seqno' \in 0..MaxSeq
  BY <1>0, <1>1, Numbers
<1>4. /\ \A s \in Seqs : s # seqno => fate'[s] = fate[s]
      /\ fate' \in [Seqs -> Fates]
      /\ fate'[seqno] # "pending"
  BY <1>0, <1>2 DEF ArriveDirect, TypeOK, Fates
<1>5. /\ forwarded' \in Seq(Seqs) /\ aggPkts' \in Seq(Packet)
      /\ dataframe' \in Seq(Packet) /\ AggregatorInv' /\ FrameWellFormed'
      /\ forwarded' = forwarded \/ forwarded' = Append(forwarded, seqno)
  <2>1. CASE IsData(p)
    <3>1. FrameAggregate(p)
      BY <2>1 DEF ArriveDirect
    <3>2. \A i \in 1..Len(forwarded) : forwarded[i] < p.seq
      BY <1>2 DEF IInv, ForwardedInv
    <3>3. forwarded' = Append(forwarded, p.seq)
      BY <3>1 DEF FrameAggregate
    <3>. QED BY <3>1, <3>2, <3>3, <1>0, <1>2, FrameAggregateStep DEF IInv
  <2>2. CASE ~IsData(p)
    <3>1. UNCHANGED <<aggPkts, dataframe, forwarded>>
      BY <2>2 DEF ArriveDirect, aggVars
    <3>. QED BY <3>1, <1>0 DEF IInv, TypeOK, AggregatorInv, FrameWellFormed
  <2>. QED BY <2>1, <2>2
<1>6. TypeOK'
  BY <1>0, <1>1, <1>3, <1>4, <1>5 DEF TypeOK
<1>7. BufferInv' /\ IdleWithoutFec'
  BY <1>1 DEF BufferInv, IdleWithoutFec
<1>8. ForwardedInv'
  <2>1. CASE forwarded' = forwarded
    BY <2>1, <1>0, <1>1, Numbers DEF IInv, ForwardedInv
  <2>2. CASE forwarded' = Append(forwarded, seqno)
    BY <2>2, <1>0, <1>1, <1>2, Numbers, AppendFacts, SMTT(40) DEF IInv, ForwardedInv, TypeOK
  <2>. QED BY <2>1, <2>2, <1>5
<1>9. FateInv' /\ NothingOvertakesPending'
  <2>1. \A s \in Seqs : fate'[s] # "pending"
    BY <1>1, <1>2, <1>4 DEF IInv, FateInv
  <2>2. \A s \in Seqs : s >= seqno' => fate'[s] = "none"
    BY <1>0, <1>1, <1>4, FutureUntouched DEF IInv
  <2>. QED BY <2>1, <2>2 DEF FateInv, NothingOvertakesPending
<1>. QED BY <1>5, <1>6, <1>7, <1>8, <1>9 DEF IInv

(* A packet that arrives joins the FEC buffer behind all others. *)
LEMMA StoreStep ==
  ASSUME IInv, Arriving, NEW p \in Packet, p.seq = seqno, FecStore(p), fecApplied
  PROVE  /\ pkts' \in Seq(Packet)
         /\ BufferInv'
         /\ IdleWithoutFec'
         /\ Len(pkts') = Len(pkts) + 1
         /\ \A i \in 1..Len(pkts) : pkts'[i] = pkts[i]
         /\ pkts'[Len(pkts) + 1] = p
         /\ resend' = 0
<1>0. TypeOK /\ BufferInv
  BY DEF IInv
<1>1. /\ resend = 0 /\ resend' = 0 /\ seqno' = seqno + 1 /\ fecApplied' = fecApplied
      /\ pkts' = Append(pkts, p)
  BY DEF Arriving, FecStore
<1>2. /\ pkts' \in Seq(Packet)
      /\ Len(pkts') = Len(pkts) + 1
      /\ \A i \in 1..Len(pkts) : pkts'[i] = pkts[i]
      /\ pkts'[Len(pkts) + 1] = p
  BY <1>0, <1>1, AppendFacts DEF TypeOK
<1>3. \A i \in 1..Len(pkts') : pkts'[i].seq < seqno'
  <2>1. TAKE i \in 1..Len(pkts')
  <2>2. CASE i = Len(pkts) + 1
    BY <2>2, <1>0, <1>1, <1>2, Numbers
  <2>3. CASE i # Len(pkts) + 1
    <3>1. i \in 1..Len(pkts) /\ pkts'[i] = pkts[i] /\ pkts[i].seq < seqno
      BY <2>3, <1>0, <1>2, Numbers DEF BufferInv
    <3>2. pkts[i].seq \in Nat
      BY <3>1, <1>0, Numbers
    <3>. QED BY <3>1, <3>2, <1>0, <1>1, Numbers
  <2>. QED BY <2>2, <2>3
<1>4. \A i, j \in 1..Len(pkts') : i < j => pkts'[i].seq < pkts'[j].seq
  <2>1. TAKE i, j \in 1..Len(pkts')
  <2>2. HAVE i < j
  <2>3. i \in 1..Len(pkts) /\ pkts'[i] = pkts[i]
    BY <2>2, <1>0, <1>2, Numbers
  <2>4. CASE j = Len(pkts) + 1
    BY <2>3, <2>4, <1>0, <1>2 DEF BufferInv
  <2>5. CASE j # Len(pkts) + 1
    <3>1. j \in 1..Len(pkts) /\ pkts'[j] = pkts[j]
      BY <2>5, <1>0, <1>2, Numbers
    <3>. QED BY <3>1, <2>2, <2>3, <1>0 DEF BufferInv
  <2>. QED BY <2>4, <2>5
<1>5. BufferInv'
  BY <1>1, <1>2, <1>3, <1>4, <1>0, Numbers DEF BufferInv
<1>6. IdleWithoutFec'
  BY <1>1 DEF IdleWithoutFec
<1>. QED BY <1>1, <1>2, <1>5, <1>6

(* A padding packet, or an FEC packet within a group, keeps IInv. *)
LEMMA ArriveOtherIInv ==
  ASSUME IInv, NEW r \in Reception, ArriveOther(Received(r))
  PROVE  IInv'
<1>. DEFINE p == Received(r)
<1>0. TypeOK
  BY DEF IInv
<1>1. /\ fecApplied /\ Arriving /\ FecStore(p) /\ seqno < MaxSeq /\ seqno' = seqno + 1
      /\ UNCHANGED <<fecApplied, plugged, seqLast, continuityLast, aggPkts, dataframe, forwarded>>
      /\ resend = 0
  BY DEF ArriveOther, Arriving, dedupVars, aggVars
<1>2. p \in Packet /\ p.seq = seqno /\ seqno \in Seqs
  BY <1>0, <1>1, ReceivedType
<1>3. /\ pkts' \in Seq(Packet) /\ BufferInv' /\ IdleWithoutFec'
      /\ Len(pkts') = Len(pkts) + 1
      /\ \A i \in 1..Len(pkts) : pkts'[i] = pkts[i]
      /\ pkts'[Len(pkts) + 1] = p
      /\ resend' = 0
  BY <1>1, <1>2, StoreStep
<1>4. fate' = [fate EXCEPT ![seqno] = "ignored"]
  BY <1>2 DEF ArriveOther
<1>5. /\ \A s \in Seqs : s # seqno => fate'[s] = fate[s]
      /\ fate' \in [Seqs -> Fates]
      /\ fate'[seqno] = "ignored"
  BY <1>4, <1>0, <1>2 DEF TypeOK, Fates
<1>6. seqno' \in 0..MaxSeq
  BY <1>0, <1>1, Numbers
<1>7. TypeOK'
  BY <1>0, <1>1, <1>3, <1>5, <1>6 DEF TypeOK
<1>8. ForwardedInv'
  <2>1. \A i \in 1..Len(forwarded), j \in 1..Len(pkts') :
           seqLast = 0 => forwarded[i] < pkts'[j].seq
    <3>1. TAKE i \in 1..Len(forwarded), j \in 1..Len(pkts')
    <3>2. CASE j = Len(pkts) + 1
      BY <3>2, <1>2, <1>3 DEF IInv, ForwardedInv
    <3>3. CASE j # Len(pkts) + 1
      <4>1. j \in 1..Len(pkts) /\ pkts'[j] = pkts[j]
        BY <3>3, <1>0, <1>3, Numbers
      <4>. QED BY <4>1 DEF IInv, ForwardedInv
    <3>. QED BY <3>2, <3>3
  <2>2. \A i \in 1..Len(forwarded) : forwarded[i] < seqno + 1
    BY <1>0, Numbers DEF IInv, ForwardedInv
  <2>3. seqLast # 0 => seqLast < seqno + 1
    BY <1>0, Numbers DEF IInv, ForwardedInv
  <2>. QED BY <2>1, <2>2, <2>3, <1>1 DEF IInv, ForwardedInv
<1>9. FateInv'
  <2>1. \A s \in Seqs : s >= seqno' => fate'[s] = "none"
    BY <1>0, <1>1, <1>5, FutureUntouched DEF IInv
  <2>2. seqLast' = 0 => \A s \in Seqs : fate'[s] # "pending"
    BY <1>1, <1>5 DEF IInv, FateInv
  <2>. QED BY <2>1, <2>2 DEF FateInv
<1>10. NothingOvertakesPending'
  <2>. SUFFICES ASSUME NEW s \in Seqs, fate'[s] = "pending"
                PROVE  /\ s > seqLast'
                       /\ \E i \in 1..Len(pkts') : pkts'[i].seq = s /\ resend' <= i
                       /\ resend' = 0 => plugged'
    BY DEF NothingOvertakesPending
  <2>3. fate[s] = "pending"
    BY <1>5
  <2>4. /\ s > seqLast /\ plugged
        /\ \E i \in 1..Len(pkts) : pkts[i].seq = s
    BY <2>3, <1>1 DEF IInv, NothingOvertakesPending
  <2>5. \E i \in 1..Len(pkts') : pkts'[i].seq = s /\ resend' <= i
    BY <2>4, <1>0, <1>3, Numbers
  <2>. QED BY <2>4, <2>5, <1>1
<1>11. AggregatorInv' /\ FrameWellFormed'
  BY <1>1 DEF IInv, AggregatorInv, FrameWellFormed
<1>. QED BY <1>3, <1>7, <1>8, <1>9, <1>10, <1>11 DEF IInv

(* A data packet received with FEC keeps IInv, whatever the deduplication *)
(* makes of it. *)
LEMMA ArriveDataIInv ==
  ASSUME IInv, NEW r \in Reception, ArriveData(Received(r))
  PROVE  IInv'
<1>. DEFINE p == Received(r)
<1>0. TypeOK /\ AggregatorInv /\ FrameWellFormed /\ ForwardedInv
  BY DEF IInv
<1>1. /\ fecApplied /\ Arriving /\ FecStore(p) /\ PacketDeduplicate(p)
      /\ seqno < MaxSeq /\ seqno' = seqno + 1 /\ fecApplied' = fecApplied
      /\ resend = 0
  BY DEF ArriveData, Arriving
<1>2. p \in Packet /\ p.seq = seqno /\ ~p.handled /\ seqno \in Seqs
  BY <1>0, <1>1, ReceivedType
<1>3. /\ pkts' \in Seq(Packet) /\ BufferInv' /\ IdleWithoutFec'
      /\ Len(pkts') = Len(pkts) + 1
      /\ \A i \in 1..Len(pkts) : pkts'[i] = pkts[i]
      /\ pkts'[Len(pkts) + 1] = p
      /\ resend' = 0
  BY <1>1, <1>2, StoreStep
<1>4. /\ plugged' \in BOOLEAN /\ seqLast' \in Seqs \cup {0} /\ continuityLast' \in 0..3
      /\ forwarded' \in Seq(Seqs) /\ aggPkts' \in Seq(Packet) /\ dataframe' \in Seq(Packet)
      /\ fate' \in [Seqs -> Fates] /\ AggregatorInv' /\ FrameWellFormed'
      /\ \/ forwarded' = forwarded
         \/ forwarded' = Append(forwarded, seqno) /\ seqLast # 0 /\ seqLast' = seqno
      /\ \/ seqLast' = seqLast
         \/ seqLast' = seqno /\ seqno > seqLast /\ (seqLast = 0 \/ ~plugged)
      /\ seqLast = 0 => fate'[seqno] = "first"
      /\ \A s \in Seqs : s # seqno => fate'[s] = fate[s]
      /\ fate'[seqno] = "pending" => plugged' /\ seqLast' = seqLast /\ seqno > seqLast
      /\ plugged => plugged'
  BY <1>0, <1>1, <1>2, DedupStep
<1>5. seqno' \in 0..MaxSeq
  BY <1>0, <1>1, Numbers
<1>6. TypeOK'
  BY <1>0, <1>1, <1>3, <1>4, <1>5 DEF TypeOK
<1>7. /\ \A i \in 1..Len(forwarded) : forwarded[i] \in Nat /\ forwarded[i] < seqno
      /\ seqno \in Nat /\ seqLast \in Nat /\ Len(forwarded) \in Nat
  BY <1>0, Numbers DEF ForwardedInv
<1>8. ForwardedInv'
  <2>1. seqLast' # 0 => seqLast' < seqno'
    BY <1>0, <1>1, <1>4, <1>7 DEF ForwardedInv
  <2>2. CASE forwarded' = forwarded
    <3>1. seqLast' # 0 => \A i \in 1..Len(forwarded) : forwarded[i] <= seqLast'
      BY <1>0, <1>4, <1>7 DEF ForwardedInv
    <3>2. \A i \in 1..Len(forwarded), j \in 1..Len(pkts') :
             seqLast' = 0 => forwarded[i] < pkts'[j].seq
      <4>1. TAKE i \in 1..Len(forwarded), j \in 1..Len(pkts')
      <4>2. CASE j = Len(pkts) + 1
        BY <4>2, <1>2, <1>3, <1>7
      <4>3. CASE j # Len(pkts) + 1
        <5>1. j \in 1..Len(pkts) /\ pkts'[j] = pkts[j]
          BY <4>3, <1>0, <1>3, Numbers
        <5>2. seqLast' = 0 => seqLast = 0
          BY <1>4, <1>7
        <5>. QED BY <5>1, <5>2, <1>0 DEF ForwardedInv
      <4>. QED BY <4>2, <4>3
    <3>3. \A i \in 1..Len(forwarded) : forwarded[i] < seqno + 1
      BY <1>7
    <3>. QED BY <2>1, <2>2, <3>1, <3>2, <3>3, <1>0, <1>1 DEF ForwardedInv
  <2>3. CASE forwarded' = Append(forwarded, seqno) /\ seqLast # 0 /\ seqLast' = seqno
    <3>1. /\ Len(forwarded') = Len(forwarded) + 1
          /\ \A i \in 1..Len(forwarded) : forwarded'[i] = forwarded[i]
          /\ forwarded'[Len(forwarded) + 1] = seqno
      BY <2>3, <1>0, <1>2, AppendFacts DEF TypeOK
    <3>2. \A i \in 1..Len(forwarded') : forwarded'[i] <= seqno
      BY <3>1, <1>7
    <3>3. \A i, j \in 1..Len(forwarded') : i < j => forwarded'[i] < forwarded'[j]
      <4>1. \A i, j \in 1..Len(forwarded) : i < j => forwarded[i] < forwarded[j]
        BY <1>0 DEF ForwardedInv
      <4>2. TAKE i, j \in 1..Len(forwarded')
      <4>3. HAVE i < j
      <4>4. i \in 1..Len(forwarded)
        BY ONLY <3>1, <1>7, <4>2, <4>3
      <4>5. j \in 1..Len(forwarded) \/ j = Len(forwarded) + 1
        BY ONLY <3>1, <1>7, <4>2
      <4>. QED
        BY ONLY <3>1, <1>7, <4>1, <4>3, <4>4, <4>5
    <3>4. seqno # 0
      BY <2>3, <1>0, <1>7 DEF ForwardedInv
    <3>5. \A i \in 1..Len(forwarded') : forwarded'[i] < seqno + 1
      BY <3>1, <1>7
    <3>. QED BY <2>1, <2>3, <3>2, <3>3, <3>4, <3>5, <1>1 DEF ForwardedInv
  <2>. QED BY <2>2, <2>3, <1>4
<1>9. FateInv'
  <2>1. \A s \in Seqs : s >= seqno' => fate'[s] = "none"
    BY <1>0, <1>1, <1>4, FutureUntouched DEF IInv
  <2>2. seqLast' = 0 => \A s \in Seqs : fate'[s] # "pending"
    <3>1. seqLast' = 0 => seqLast = 0
      BY <1>4, <1>7
    <3>. QED BY <3>1, <1>4 DEF IInv, FateInv
  <2>. QED BY <2>1, <2>2, <1>1 DEF FateInv
<1>10. NothingOvertakesPending'
  <2>. SUFFICES ASSUME NEW s \in Seqs, fate'[s] = "pending"
                PROVE  /\ s > seqLast'
                       /\ \E i \in 1..Len(pkts') : pkts'[i].seq = s /\ resend' <= i
                       /\ resend' = 0 => plugged'
    BY DEF NothingOvertakesPending
  <2>1. CASE s = seqno
    <3>1. s > seqLast' /\ plugged'
      BY <2>1, <1>4
    <3>2. \E i \in 1..Len(pkts') : pkts'[i].seq = s /\ resend' <= i
      BY <2>1, <1>0, <1>2, <1>3, Numbers, SMTT(40)
    <3>. QED BY <3>1, <3>2
  <2>2. CASE s # seqno
    <3>1. fate[s] = "pending"
      BY <2>2, <1>4
    <3>2. s > seqLast /\ plugged /\ \E i \in 1..Len(pkts) : pkts[i].seq = s
      BY <3>1, <1>1 DEF IInv, NothingOvertakesPending
    <3>3. seqLast # 0
      BY <3>1 DEF IInv, FateInv
    <3>4. seqLast' = seqLast /\ plugged'
      BY <3>2, <3>3, <1>4
    <3>5. \E i \in 1..Len(pkts') : pkts'[i].seq = s /\ resend' <= i
      BY <3>2, <1>0, <1>3, Numbers
    <3>. QED BY <3>2, <3>4, <3>5
  <2>. QED BY <2>1, <2>2
<1>. QED BY <1>3, <1>4, <1>6, <1>8, <1>9, <1>10 DEF IInv

(* Both ways to start the loop keep order and number of the packets and    *)
(* mark all of them.                                                       *)
LEMMA LoopStarts ==
  ASSUME TypeOK, NEW p \in Packet,
         \/ FecIncomplete(p)
         \/ \E fixed \in SUBSET Damaged(pkts) :
            \E clobbered \in SUBSET BehindFec(Append(pkts, p)) :
            \E junk \in Header : FecDecode(p, fixed, clobbered, junk)
  PROVE  /\ pkts' \in Seq(Packet)
         /\ Len(pkts') = Len(pkts) + 1
         /\ \A i \in 1..Len(pkts) : pkts'[i].seq = pkts[i].seq
         /\ pkts'[Len(pkts) + 1].seq = p.seq
         /\ \A i \in 1..Len(pkts') : pkts'[i].handled
         /\ resend' = 1
         /\ fate' = [fate EXCEPT ![p.seq] = "ignored"]
<1>. DEFINE group == Append(pkts, p)
<1>1. /\ Len(group) = Len(pkts) + 1 /\ Len(group) \in Nat
      /\ \A i \in 1..Len(pkts) : group[i] = pkts[i]
      /\ group[Len(pkts) + 1] = p
      /\ \A i \in 1..Len(group) : group[i] \in Packet
  <2>1. pkts \in Seq(Packet)
    BY DEF TypeOK
  <2>2. /\ group \in Seq(Packet) /\ Len(group) = Len(pkts) + 1
        /\ \A i \in 1..Len(pkts) : group[i] = pkts[i]
        /\ group[Len(pkts) + 1] = p
    BY <2>1, AppendFacts
  <2>. HIDE DEF group
  <2>. QED BY <2>2
<1>2. ASSUME NEW f,
             \A i \in 1..Len(group) : f[i] \in Packet /\ f[i].seq = group[i].seq /\ f[i].handled,
             f = [i \in 1..Len(group) |-> f[i]],
             pkts' = f
      PROVE  /\ pkts' \in Seq(Packet)
             /\ Len(pkts') = Len(pkts) + 1
             /\ \A i \in 1..Len(pkts) : pkts'[i].seq = pkts[i].seq
             /\ pkts'[Len(pkts) + 1].seq = p.seq
             /\ \A i \in 1..Len(pkts') : pkts'[i].handled
  <2>1. f \in [1..Len(group) -> Packet]
    BY <1>2
  <2>2. f \in Seq(Packet) /\ Len(f) = Len(group)
    BY <2>1, <1>1
  <2>. QED BY <2>2, <1>1, <1>2
<1>3. CASE FecIncomplete(p)
  <2>. DEFINE f == [i \in 1..Len(group) |-> [group[i] EXCEPT !.handled = TRUE]]
  <2>1. /\ pkts' = f /\ resend' = 1 /\ fate' = [fate EXCEPT ![p.seq] = "ignored"]
    BY <1>3 DEF FecIncomplete
  <2>2. \A i \in 1..Len(group) : f[i] \in Packet /\ f[i].seq = group[i].seq /\ f[i].handled
    BY <1>1 DEF Packet
  <2>3. f = [i \in 1..Len(group) |-> f[i]]
    OBVIOUS
  <2>. HIDE DEF f
  <2>. QED BY <2>1, <2>2, <2>3, <1>2
<1>4. ASSUME NEW fixed \in SUBSET Damaged(pkts),
             NEW clobbered \in SUBSET BehindFec(Append(pkts, p)),
             NEW junk \in Header, FecDecode(p, fixed, clobbered, junk)
      PROVE  /\ pkts' \in Seq(Packet)
             /\ Len(pkts') = Len(pkts) + 1
             /\ \A i \in 1..Len(pkts) : pkts'[i].seq = pkts[i].seq
             /\ pkts'[Len(pkts) + 1].seq = p.seq
             /\ \A i \in 1..Len(pkts') : pkts'[i].handled
             /\ resend' = 1
             /\ fate' = [fate EXCEPT ![p.seq] = "ignored"]
  <2>. DEFINE HeaderOf(i) == IF i \in clobbered THEN junk
                             ELSE IF i \in fixed THEN group[i].sent ELSE group[i].hdr
              f == [i \in 1..Len(group) |->
                      [group[i] EXCEPT !.hdr = HeaderOf(i), !.handled = TRUE,
                                       !.crc = i \notin clobbered /\ (@ \/ i \in fixed)]]
  <2>1. /\ pkts' = f /\ resend' = 1 /\ fate' = [fate EXCEPT ![p.seq] = "ignored"]
    BY <1>4 DEF FecDecode
  <2>2. \A i \in 1..Len(group) : f[i] \in Packet /\ f[i].seq = group[i].seq /\ f[i].handled
    <3>1. TAKE i \in 1..Len(group)
    <3>2. group[i] \in Packet
      BY <1>1
    <3>3. HeaderOf(i) \in Header
      BY <3>2, SMTT(40) DEF Packet
    <3>4. (i \notin clobbered /\ (group[i].crc \/ i \in fixed)) \in BOOLEAN
      BY <3>2, SMTT(40) DEF Packet
    <3>. HIDE DEF HeaderOf
    <3>. QED BY <3>2, <3>3, <3>4 DEF Packet
  <2>3. f = [i \in 1..Len(group) |-> f[i]]
    OBVIOUS
  <2>. HIDE DEF f
  <2>. QED BY <2>1, <2>2, <2>3, <1>2, SMTT(40)
<1>. QED BY <1>3, <1>4

(* The last FEC packet of a group keeps IInv, with all three outcomes. *)
EndOfGroup(p) ==
  /\ Arriving
  /\ fecApplied
  /\ \/ FecOverflow(p)
     \/ FecIncomplete(p)
     \/ \E fixed \in SUBSET Damaged(pkts) :
        \E clobbered \in SUBSET BehindFec(Append(pkts, p)) :
        \E junk \in Header : FecDecode(p, fixed, clobbered, junk)
  /\ aggPkts' = SharedWith(aggPkts, pkts')
  /\ UNCHANGED <<dedupVars, dataframe, forwarded>>

LEMMA ArriveLastFecIInv ==
  ASSUME IInv, NEW r \in Reception, EndOfGroup(Received(r))
  PROVE  IInv'
<1>. DEFINE p == Received(r)
<1>0. TypeOK /\ BufferInv /\ ForwardedInv
  BY DEF IInv
<1>1. /\ fecApplied /\ Arriving /\ seqno < MaxSeq /\ seqno' = seqno + 1 /\ resend = 0
      /\ aggPkts' = SharedWith(aggPkts, pkts')
      /\ UNCHANGED <<fecApplied, plugged, seqLast, continuityLast, dataframe, forwarded>>
  BY DEF EndOfGroup, Arriving, dedupVars
<1>2. p \in Packet /\ p.seq = seqno /\ seqno \in Seqs
  BY <1>0, <1>1, ReceivedType
<1>3. /\ seqno' \in 0..MaxSeq /\ seqno \in Nat /\ seqLast \in Nat /\ Len(pkts) \in Nat
      /\ \A i \in 1..Len(forwarded) : forwarded[i] \in Nat
      /\ \A i \in 1..Len(pkts) : pkts[i].seq \in Nat
  BY <1>0, <1>1, Numbers
<1>4. /\ IdleWithoutFec'
      /\ pkts' \in Seq(Packet) => aggPkts' \in Seq(Packet) /\ AggregatorInv' /\ FrameWellFormed'
  BY <1>1, SharedAggregator DEF IInv, IdleWithoutFec
<1>5. /\ \A i \in 1..Len(forwarded) : forwarded[i] < seqno + 1
      /\ seqLast # 0 => seqLast < seqno + 1
  BY <1>3, <1>0 DEF ForwardedInv
<1>6. CASE FecOverflow(p)
  <2>1. /\ pkts' = <<>> /\ resend' = 0
        /\ fate' = [s \in Seqs |-> IF s = seqno THEN "ignored"
                       ELSE IF fate[s] = "pending" THEN "discarded" ELSE fate[s]]
    BY <1>6, <1>1, <1>2 DEF FecOverflow
  <2>2. /\ fate' \in [Seqs -> Fates]
        /\ \A s \in Seqs : fate'[s] # "pending"
        /\ \A s \in Seqs : s # seqno /\ fate[s] # "pending" => fate'[s] = fate[s]
    BY <2>1, <1>0 DEF TypeOK, Fates
  <2>6. pkts' \in Seq(Packet)
    BY <2>1
  <2>7. aggPkts' \in Seq(Packet) /\ AggregatorInv' /\ FrameWellFormed'
    BY <1>4, <2>6
  <2>3. TypeOK'
    BY <1>0, <1>1, <1>3, <2>1, <2>2, <2>6, <2>7 DEF TypeOK
  <2>4. BufferInv' /\ ForwardedInv'
    BY <1>0, <1>1, <1>5, <2>1 DEF BufferInv, ForwardedInv
  <2>5. FateInv' /\ NothingOvertakesPending'
    BY <1>1, <1>3, <2>2, SeqsNat DEF IInv, FateInv, NothingOvertakesPending
  <2>. QED BY <1>4, <2>3, <2>4, <2>5, <2>7 DEF IInv
<1>7. CASE \/ FecIncomplete(p)
           \/ \E fixed \in SUBSET Damaged(pkts) :
              \E clobbered \in SUBSET BehindFec(Append(pkts, p)) :
              \E junk \in Header : FecDecode(p, fixed, clobbered, junk)
  <2>1. /\ pkts' \in Seq(Packet)
        /\ Len(pkts') = Len(pkts) + 1
        /\ \A i \in 1..Len(pkts) : pkts'[i].seq = pkts[i].seq
        /\ pkts'[Len(pkts) + 1].seq = seqno
        /\ \A i \in 1..Len(pkts') : pkts'[i].handled
        /\ resend' = 1
        /\ fate' = [fate EXCEPT ![seqno] = "ignored"]
    BY <1>0, <1>2, <1>7, LoopStarts
  <2>2. /\ \A s \in Seqs : s # seqno => fate'[s] = fate[s]
        /\ fate' \in [Seqs -> Fates]
        /\ fate'[seqno] = "ignored"
    BY <2>1, <1>0, <1>2 DEF TypeOK, Fates
  <2>9. aggPkts' \in Seq(Packet) /\ AggregatorInv' /\ FrameWellFormed'
    BY <1>4, <2>1
  <2>3. TypeOK'
    BY <1>0, <1>1, <1>3, <2>1, <2>2, <2>9 DEF TypeOK
  <2>4. \A i \in 1..Len(pkts') : pkts'[i].seq = seqno \/ (i \in 1..Len(pkts) /\ pkts'[i].seq = pkts[i].seq)
    BY <2>1, <1>3
  <2>5. BufferInv'
    <3>1. \A i \in 1..Len(pkts') : pkts'[i].seq < seqno + 1
      <4>1. \A i \in 1..Len(pkts) : pkts[i].seq < seqno
        BY <1>0 DEF BufferInv
      <4>. SUFFICES ASSUME NEW i \in 1..Len(pkts') PROVE pkts'[i].seq < seqno + 1
        OBVIOUS
      <4>2. CASE pkts'[i].seq = seqno
        BY <4>2, <1>3
      <4>3. CASE i \in 1..Len(pkts) /\ pkts'[i].seq = pkts[i].seq
        BY <4>1, <4>3, <1>3
      <4>. QED BY <4>2, <4>3, <2>4
    <3>2. \A i, j \in 1..Len(pkts') : i < j => pkts'[i].seq < pkts'[j].seq
      <4>1. TAKE i, j \in 1..Len(pkts')
      <4>2. HAVE i < j
      <4>3. i \in 1..Len(pkts) /\ pkts'[i].seq = pkts[i].seq
        BY <4>2, <2>1, <1>3
      <4>4. CASE j = Len(pkts) + 1
        BY <4>3, <4>4, <2>1, <1>0 DEF BufferInv
      <4>5. CASE j # Len(pkts) + 1
        <5>1. j \in 1..Len(pkts) /\ pkts'[j].seq = pkts[j].seq
          BY <4>5, <2>1, <1>3
        <5>. QED BY <5>1, <4>2, <4>3, <1>0 DEF BufferInv
      <4>. QED BY <4>4, <4>5
    <3>3. resend' \in 0..(Len(pkts') + 1)
      BY <2>1, <1>3
    <3>. QED BY <3>1, <3>2, <3>3, <2>1, <1>1 DEF BufferInv
  <2>6. ForwardedInv'
    <3>1. \A i \in 1..Len(forwarded), j \in 1..Len(pkts') :
             seqLast = 0 => forwarded[i] < pkts'[j].seq
      BY <2>4, <1>0 DEF ForwardedInv
    <3>. QED BY <3>1, <1>0, <1>1, <1>5 DEF ForwardedInv
  <2>7. FateInv'
    <3>1. \A s \in Seqs : s >= seqno + 1 => fate'[s] = "none"
      BY <2>2, <1>3, SeqsNat DEF IInv, FateInv
    <3>2. seqLast = 0 => \A s \in Seqs : fate'[s] # "pending"
      BY <2>2 DEF IInv, FateInv
    <3>. QED BY <3>1, <3>2, <1>1 DEF FateInv
  <2>8. NothingOvertakesPending'
    <3>. SUFFICES ASSUME NEW s \in Seqs, fate'[s] = "pending"
                  PROVE  /\ s > seqLast'
                         /\ \E i \in 1..Len(pkts') : pkts'[i].seq = s /\ resend' <= i
                         /\ resend' = 0 => plugged'
      BY DEF NothingOvertakesPending
    <3>1. fate[s] = "pending"
      BY <2>2
    <3>2. s > seqLast /\ \E i \in 1..Len(pkts) : pkts[i].seq = s
      BY <3>1 DEF IInv, NothingOvertakesPending
    <3>3. \E i \in 1..Len(pkts') : pkts'[i].seq = s /\ resend' <= i
      BY <3>2, <2>1, <1>3
    <3>. QED BY <3>2, <3>3, <2>1, <1>1
  <2>. QED BY <1>4, <2>3, <2>5, <2>6, <2>7, <2>8, <2>9 DEF IInv
<1>. QED BY <1>6, <1>7 DEF EndOfGroup

(* A turn of the loop over the FEC buffer keeps IInv. *)
LEMMA ResendStepIInv ==
  ASSUME IInv, ResendStep
  PROVE  IInv'
<1>. DEFINE p == pkts[resend]
<1>0. TypeOK /\ BufferInv /\ ForwardedInv /\ AggregatorInv /\ FrameWellFormed
  BY DEF IInv
<1>1. /\ resend \in 1..Len(pkts) /\ resend' = resend + 1
      /\ UNCHANGED <<seqno, fecApplied, pkts>>
      /\ IF IsData(p) THEN PacketDeduplicate(p)
         ELSE /\ fate' = [fate EXCEPT ![p.seq] = IF @ = "pending" THEN "withdrawn" ELSE @]
              /\ UNCHANGED <<plugged, seqLast, continuityLast, aggPkts, dataframe, forwarded>>
  BY DEF ResendStep, dedupVars, aggVars
<1>2. /\ p \in Packet /\ p.seq \in Seqs /\ p.seq \in Nat /\ p.handled /\ p.seq < seqno
      /\ seqno \in Nat /\ seqLast \in Nat /\ Len(pkts) \in Nat /\ Len(forwarded) \in Nat
      /\ \A i \in 1..Len(forwarded) : forwarded[i] \in Nat /\ forwarded[i] < seqno
      /\ \A i \in 1..Len(pkts) : pkts[i].seq \in Nat
  BY <1>0, <1>1, Numbers DEF BufferInv, ForwardedInv
<1>3. /\ plugged' \in BOOLEAN /\ seqLast' \in Seqs \cup {0} /\ continuityLast' \in 0..3
      /\ forwarded' \in Seq(Seqs) /\ aggPkts' \in Seq(Packet) /\ dataframe' \in Seq(Packet)
      /\ fate' \in [Seqs -> Fates] /\ AggregatorInv' /\ FrameWellFormed'
      /\ \/ forwarded' = forwarded
         \/ forwarded' = Append(forwarded, p.seq) /\ seqLast # 0 /\ p.seq > seqLast /\ seqLast' = p.seq
      /\ \/ seqLast' = seqLast
         \/ seqLast' = p.seq /\ p.seq > seqLast
      /\ \A s \in Seqs : s # p.seq => fate'[s] = fate[s]
      /\ fate'[p.seq] # "pending"
  <2>1. CASE IsData(p)
    <3>1. PacketDeduplicate(p)
      BY <1>1, <2>1
    <3>. QED BY <3>1, <1>0, <1>2, DedupStep
  <2>2. CASE ~IsData(p)
    <3>1. /\ fate' = [fate EXCEPT ![p.seq] = IF @ = "pending" THEN "withdrawn" ELSE @]
          /\ UNCHANGED <<plugged, seqLast, continuityLast, aggPkts, dataframe, forwarded>>
      BY <1>1, <2>2
    <3>2. /\ fate' \in [Seqs -> Fates]
          /\ \A s \in Seqs : s # p.seq => fate'[s] = fate[s]
          /\ fate'[p.seq] # "pending"
      BY <3>1, <1>0, <1>2 DEF TypeOK, Fates
    <3>3. AggregatorInv' /\ FrameWellFormed'
      BY <3>1, <1>0 DEF AggregatorInv, FrameWellFormed
    <3>. QED BY <3>1, <3>2, <3>3, <1>0 DEF TypeOK
  <2>. QED BY <2>1, <2>2
<1>. HIDE DEF p
<1>4. TypeOK'
  <2>1. resend' \in Nat
    BY <1>1, <1>2
  <2>. QED BY <2>1, <1>0, <1>1, <1>3 DEF TypeOK
<1>5. IdleWithoutFec'
  BY <1>1, <1>2 DEF IInv, IdleWithoutFec
<1>6. BufferInv'
  <2>1. resend # 0 /\ resend' # 0 /\ resend' \in 0..(Len(pkts) + 1)
    BY <1>1, <1>2
  <2>. QED BY <2>1, <1>0, <1>1 DEF BufferInv
<1>7. ForwardedInv'
  <2>1. seqLast' # 0 => seqLast' < seqno
    BY <1>0, <1>2, <1>3 DEF ForwardedInv
  <2>2. seqLast' = 0 => seqLast = 0
    BY <1>2, <1>3
  <2>3. CASE forwarded' = forwarded
    <3>1. CASE seqLast' = seqLast
      BY <2>3, <3>1, <1>0, <1>1 DEF ForwardedInv
    <3>2. CASE seqLast' = p.seq /\ p.seq > seqLast
      <4>1. \A i \in 1..Len(forwarded) : forwarded[i] <= p.seq
        <5>1. CASE seqLast = 0
          <6>1. \A i \in 1..Len(forwarded) : forwarded[i] < pkts[resend].seq
            BY <5>1, <1>0, <1>1 DEF ForwardedInv
          <6>. QED BY <6>1, <1>2 DEF p
        <5>2. CASE seqLast # 0
          BY <5>2, <3>2, <1>0, <1>2 DEF ForwardedInv
        <5>. QED BY <5>1, <5>2
      <4>2. seqLast' # 0
        BY <3>2, <1>2
      <4>. QED BY <4>1, <4>2, <2>1, <2>3, <3>2, <1>0, <1>1 DEF ForwardedInv
    <3>. QED BY <3>1, <3>2, <1>3
  <2>4. CASE forwarded' = Append(forwarded, p.seq) /\ seqLast # 0 /\ p.seq > seqLast
               /\ seqLast' = p.seq
    <3>1. /\ Len(forwarded') = Len(forwarded) + 1
          /\ \A i \in 1..Len(forwarded) : forwarded'[i] = forwarded[i]
          /\ forwarded'[Len(forwarded) + 1] = p.seq
      BY <2>4, <1>0, <1>2, AppendFacts DEF TypeOK
    <3>2. \A i \in 1..Len(forwarded) : forwarded[i] < p.seq
      BY <2>4, <1>0, <1>2 DEF ForwardedInv
    <3>3. \A i \in 1..Len(forwarded') : forwarded'[i] <= p.seq /\ forwarded'[i] < seqno
      BY <3>1, <3>2, <1>2
    <3>4. \A i, j \in 1..Len(forwarded') : i < j => forwarded'[i] < forwarded'[j]
      <4>1. TAKE i, j \in 1..Len(forwarded')
      <4>2. HAVE i < j
      <4>3. i \in 1..Len(forwarded) /\ forwarded'[i] = forwarded[i]
        BY <4>2, <3>1, <1>2
      <4>4. CASE j = Len(forwarded) + 1
        BY <4>3, <4>4, <3>1, <3>2
      <4>5. CASE j # Len(forwarded) + 1
        <5>1. j \in 1..Len(forwarded) /\ forwarded'[j] = forwarded[j]
          BY <4>5, <3>1, <1>2
        <5>. QED BY <5>1, <4>2, <4>3, <1>0 DEF ForwardedInv
      <4>. QED BY <4>4, <4>5
    <3>5. seqLast' # 0
      BY <2>4, <1>2
    <3>. QED BY <2>1, <2>4, <3>3, <3>4, <3>5, <1>1 DEF ForwardedInv
  <2>. QED BY <2>3, <2>4, <1>3
<1>8. FateInv'
  <2>1. \A s \in Seqs : s >= seqno => fate'[s] = "none"
    BY <1>2, <1>3, SeqsNat, SMTT(40) DEF IInv, FateInv
  <2>2. seqLast' = 0 => \A s \in Seqs : fate'[s] # "pending"
    <3>1. seqLast' = 0 => seqLast = 0
      BY <1>2, <1>3
    <3>. QED BY <3>1, <1>3 DEF IInv, FateInv
  <2>. QED BY <2>1, <2>2, <1>1 DEF FateInv
<1>9. NothingOvertakesPending'
  <2>. SUFFICES ASSUME NEW s \in Seqs, fate'[s] = "pending"
                PROVE  /\ s > seqLast'
                       /\ \E i \in 1..Len(pkts') : pkts'[i].seq = s /\ resend' <= i
                       /\ resend' = 0 => plugged'
    BY DEF NothingOvertakesPending
  <2>1. s # p.seq /\ fate[s] = "pending"
    BY <1>3
  <2>2. s > seqLast /\ s \in Nat
    BY <2>1, SeqsNat DEF IInv, NothingOvertakesPending
  <2>3. PICK i \in 1..Len(pkts) : pkts[i].seq = s /\ resend <= i
    BY <2>1 DEF IInv, NothingOvertakesPending
  <2>4. i > resend
    BY <2>1, <2>3, <1>1, <1>2 DEF p
  <2>5. s > p.seq
    BY <2>3, <2>4, <1>0, <1>1 DEF BufferInv, p
  <2>6. s > seqLast'
    BY <2>2, <2>5, <1>3
  <2>7. resend' <= i /\ resend' # 0
    BY <2>4, <1>1, <1>2
  <2>. QED BY <2>3, <2>6, <2>7, <1>1
<1>. QED BY <1>3, <1>4, <1>5, <1>6, <1>7, <1>8, <1>9 DEF IInv

-----------------------------------------------------------------------------
(***************************************************************************)
(* The theorems.                                                           *)
(***************************************************************************)

(* Every step keeps IInv. *)
LEMMA NextIInv == IInv /\ [Next]_vars => IInv'
<1>. SUFFICES ASSUME IInv, [Next]_vars PROVE IInv'
  OBVIOUS
<1>1. CASE UNCHANGED vars
  <2>1. UNCHANGED <<seqno, fecApplied, plugged, seqLast, continuityLast, pkts, resend,
                    aggPkts, dataframe, forwarded, fate>>
    BY <1>1 DEF vars, dedupVars, aggVars
  <2>2. TypeOK' /\ IdleWithoutFec' /\ BufferInv' /\ ForwardedInv' /\ FateInv'
    BY <2>1 DEF IInv, TypeOK, IdleWithoutFec, BufferInv, ForwardedInv, FateInv
  <2>3. AggregatorInv' /\ FrameWellFormed' /\ NothingOvertakesPending'
    BY <2>1 DEF IInv, AggregatorInv, FrameWellFormed, NothingOvertakesPending
  <2>. QED BY <2>2, <2>3 DEF IInv
<1>2. ASSUME NEW r \in Receptions, Arrive(Received(r)) PROVE IInv'
  <2>1. r \in Reception
    BY ReceptionsAssumption DEF Reception
  <2>2. ArriveLastFec(Received(r)) => EndOfGroup(Received(r))
    BY JunkAssumption DEF ArriveLastFec, EndOfGroup
  <2>. QED
    BY <1>2, <2>1, <2>2, ArriveDirectIInv, ArriveDataIInv, ArriveOtherIInv, ArriveLastFecIInv DEF Arrive
<1>. QED BY <1>1, <1>2, ResendStepIInv, ResendDoneIInv, ApplyFecSchemeIInv DEF Next

(* IInv holds in every reachable state. *)
THEOREM Invariance == Spec => []IInv
<1>1. Init => IInv
  BY InitIInv DEF Init
<1>. QED BY <1>1, NextIInv, PTL DEF Spec

(* Every variable keeps its type, for every instance of the constants. *)
THEOREM TypeCorrect == Spec => []TypeOK
<1>1. IInv => TypeOK
  BY DEF IInv
<1>. QED BY <1>1, Invariance, PTL

(* A packet refused on arrival is still ahead of the FEC's second pass and *)
(* nothing newer was forwarded meanwhile (packetDeduplicate's plug).       *)
THEOREM PendingSafe == Spec => []NothingOvertakesPending
<1>1. IInv => NothingOvertakesPending
  BY DEF IInv
<1>. QED BY <1>1, Invariance, PTL

(* Every dispatched frame starts and ends where its packets say.           *)
THEOREM FramesWellFormed == Spec => []FrameWellFormed
<1>1. IInv => FrameWellFormed
  BY DEF IInv
<1>. QED BY <1>1, Invariance, PTL

-----------------------------------------------------------------------------
(***************************************************************************)
(* The pipeline implements OrderedDelivery.                                *)
(***************************************************************************)

(* Receiving a packet: it is forwarded at once or not now. *)
LEMMA ArriveIsReceive ==
  ASSUME IInv, NEW r \in Reception, Arrive(Received(r))
  PROVE  Delivery!Receive
<1>. DEFINE p == Received(r)
<1>0. TypeOK /\ AggregatorInv /\ FrameWellFormed /\ ForwardedInv
  BY DEF IInv
<1>1. Arriving /\ seqno' = seqno + 1
  BY DEF Arrive, ArriveDirect, ArriveData, ArriveOther, ArriveLastFec, Arriving
<1>2. p \in Packet /\ p.seq = seqno
  BY <1>0, <1>1, ReceivedType
<1>3. Delivery!Above(seqno)
  BY <1>0 DEF ForwardedInv, Delivery!Above
<1>4. forwarded' = forwarded \/ forwarded' = Append(forwarded, seqno)
  <2>1. CASE ArriveDirect(p)
    BY <2>1, <1>2 DEF ArriveDirect, FrameAggregate
  <2>2. CASE ArriveData(p)
    <3>1. PacketDeduplicate(p)
      BY <2>2 DEF ArriveData
    <3>. QED BY <3>1, <1>0, <1>2, DedupStep
  <2>3. CASE ArriveOther(p) \/ ArriveLastFec(p)
    BY <2>3 DEF ArriveOther, ArriveLastFec
  <2>. QED BY <2>1, <2>2, <2>3 DEF Arrive
<1>. QED BY <1>1, <1>3, <1>4 DEF Delivery!Receive

(* A turn of the FEC's loop hands a packet on late, or nothing. *)
LEMMA ResendIsLate ==
  ASSUME IInv, ResendStep
  PROVE  Delivery!HandOnLate \/ UNCHANGED <<seqno, forwarded>>
<1>. DEFINE p == pkts[resend]
<1>0. TypeOK /\ BufferInv /\ AggregatorInv /\ FrameWellFormed /\ ForwardedInv
  BY DEF IInv
<1>1. /\ resend \in 1..Len(pkts) /\ seqno' = seqno
      /\ IF IsData(p) THEN PacketDeduplicate(p) ELSE forwarded' = forwarded
  BY DEF ResendStep
<1>2. p \in Packet /\ p.seq \in 0..(seqno - 1)
  <2>1. p \in Packet /\ p.seq \in Seqs /\ p.seq < seqno /\ seqno \in Nat
    BY <1>0, <1>1, Numbers DEF BufferInv
  <2>2. p.seq \in Nat
    BY <2>1, SeqsNat
  <2>. QED BY <2>1, <2>2
<1>3. CASE forwarded' = forwarded
  BY <1>1, <1>3
<1>4. CASE forwarded' # forwarded
  <2>1. PacketDeduplicate(p)
    BY <1>1, <1>4
  <2>2. forwarded' = Append(forwarded, p.seq) /\ seqLast # 0 /\ p.seq > seqLast
    BY <2>1, <1>0, <1>2, <1>4, DedupStep
  <2>3. Delivery!Above(p.seq)
    <3>1. \A i \in 1..Len(forwarded) : forwarded[i] <= seqLast /\ forwarded[i] \in Nat
      BY <2>2, <1>0, Numbers DEF ForwardedInv
    <3>2. seqLast \in Nat /\ p.seq \in Nat
      BY <1>0, <1>2, Numbers
    <3>. QED BY <2>2, <3>1, <3>2 DEF Delivery!Above
  <2>. QED BY <1>1, <1>2, <2>2, <2>3 DEF Delivery!HandOnLate
<1>. QED BY <1>3, <1>4

(* No packet is handed on twice or out of order, whatever is received and  *)
(* whenever FIG 0/14 switches the FEC on.                                  *)
THEOREM Refinement == Spec => DeliversInOrder
<1>1. Init => Delivery!ODInit
  BY DEF Init, InitWith, Delivery!ODInit
<1>2. IInv /\ [Next]_vars => [Delivery!ODNext]_<<seqno, forwarded>>
  <2>. SUFFICES ASSUME IInv, [Next]_vars
                PROVE  Delivery!ODNext \/ UNCHANGED <<seqno, forwarded>>
    OBVIOUS
  <2>1. CASE UNCHANGED vars
    BY <2>1 DEF vars
  <2>2. ASSUME NEW r \in Receptions, Arrive(Received(r))
        PROVE  Delivery!ODNext
    <3>1. r \in Reception
      BY ReceptionsAssumption DEF Reception
    <3>. QED
      BY <2>2, <3>1, ArriveIsReceive DEF Delivery!ODNext
  <2>3. CASE ResendStep
    BY <2>3, ResendIsLate DEF Delivery!ODNext
  <2>4. CASE ResendDone \/ ApplyFecScheme
    BY <2>4 DEF ResendDone, ApplyFecScheme
  <2>. QED BY <2>1, <2>2, <2>3, <2>4 DEF Next
<1>. QED BY <1>1, <1>2, Invariance, PTL
         DEF Spec, DeliversInOrder, Delivery!ODSpec, Delivery!odVars

-----------------------------------------------------------------------------

(* The hypotheses: one component and padding, damage that leaves FEC       *)
(* packets and their address alone, and, where damage may make an own      *)
(* packet look like padding, at most three in a group: the counter of two  *)
(* bits cannot tell four hidden packets from none.                         *)
Hides == \E c \in Confusions : c[1] = OwnAddress /\ c[2] = PadAddress

OneComponent ==
  /\ OtherAddresses = {}
  /\ \A c \in Confusions : c[1] # FecAddress /\ c[2] # FecAddress
  /\ Hides => MaxDamage <= 3

(***************************************************************************)
(* The inductive invariant.                                                *)
(***************************************************************************)

LinkTypes ==
  /\ txSize \in 0..FecDataSize /\ txFec \in 0..FecMaxFecPkt
  /\ txCont \in [DataAddresses -> 0..3]
  /\ ownNo \in Nat /\ lost \in Nat /\ damaged \in 0..MaxDamage
  /\ numberOf \in [Seqs -> Nat]
  /\ gap => lost # 0

(* The packets in the buffer are those received last, one by one: first    *)
(* the data packets of the group, then FEC packets.  Damage shows in the   *)
(* CRC and changes the address at most; the decoder undoes it.             *)
DataCount == IF resend = 0 THEN txSize ELSE FecDataSize

Counted(number, h) ==
  IF number = 0 THEN h.addr = PadAddress
  ELSE h.addr = OwnAddress /\ h.continuity = (number - 1) % 4

Buffered(p, data, number) ==
  /\ p.size = 1
  /\ p.crc => p.hdr = p.sent
  /\ IsFec(p) <=> ~data
  /\ IF data THEN Counted(number, p.sent) ELSE number = 0

GroupInv ==
  /\ fecApplied
  /\ txFec > 0 => txSize = FecDataSize
  /\ IF resend = 0 THEN Len(pkts) = txSize + txFec
     ELSE txSize = 0 /\ txFec = 0 /\ damaged = 0 /\ Len(pkts) >= FecDataSize
  /\ \A i \in 1..Len(pkts) : Buffered(pkts[i], i <= DataCount, numberOf[pkts[i].seq])
  /\ resend # 0 => \A i \in 1..FecDataSize : pkts[i].crc

(* The own packets are numbered as they come. *)
NumberInv ==
  /\ txCont[OwnAddress] = ownNo % 4
  /\ \A s \in Seqs : numberOf[s] <= ownNo /\ (s >= seqno => ~IsOwn(s))
  /\ \A s, t \in Seqs : s < t /\ IsOwn(s) /\ IsOwn(t) => numberOf[s] < numberOf[t]
  /\ \A n \in 1..ownNo : \E s \in Seqs : numberOf[s] = n

(* An own packet is not newer than seq_last, or the loop is still to come  *)
(* to it.                                                                  *)
Ahead(s) == \E i \in 1..Len(pkts) : resend <= i /\ pkts[i].seq = s
WaitInv == \A s \in Seqs : IsOwn(s) => s <= seqLast \/ Ahead(s)

(* The reference is an own packet, or nothing is collected yet; while the  *)
(* stream is not plugged only hidden packets are newer.                    *)
HasReference == seqLast # 0 /\ IsOwn(seqLast)
Hidden == IF Hides THEN damaged ELSE 0
ReferenceInv ==
  /\ HasReference => /\ continuityLast = (numberOf[seqLast] - 1) % 4
                     /\ resend = 0 /\ ~plugged => ownNo - numberOf[seqLast] <= Hidden
  /\ ~HasReference => aggPkts = <<>>
  /\ seqLast # 0 /\ ~IsOwn(seqLast) => fate[seqLast] = "first"
  /\ \A s \in Seqs : fate[s] \in {"first", "forwarded"} => s <= seqLast

(* What the aggregator holds is the end of what was forwarded. *)
Whole(frame, number) ==
  \A i \in 1..Len(frame) :
    /\ frame[i].crc
    /\ frame[i].hdr = frame[i].sent
    /\ number[frame[i].seq] # 0
    /\ number[frame[i].seq] = number[frame[1].seq] + i - 1

FrameInv ==
  /\ Whole(aggPkts, numberOf) /\ Whole(dataframe, numberOf)
  /\ aggPkts # <<>> => aggPkts[Len(aggPkts)].seq = seqLast

(* An own packet that the loop has come to is settled. *)
Settled(s) == fate[s] = "forwarded" \/ \E t \in s..(seqno - 1) : fate[t] = "first"
DeliveryInv ==
  OwnReference =>
    \A s \in Seqs : IsOwn(s) =>
      Settled(s) \/ (Ahead(s) /\ (s > seqLast \/ seqLast = 0))

LinkInv ==
  /\ GroupInv /\ NumberInv /\ WaitInv /\ ReferenceInv /\ FrameInv /\ DeliveryInv

-----------------------------------------------------------------------------
(***************************************************************************)
(* Lemmas about the operators.                                             *)
(***************************************************************************)

(* Less-than on the natural numbers, as a set of pairs.                    *)
LessThan == {p \in Nat \X Nat : p[1] < p[2]}

(* It is well-founded ...                                                  *)
LEMMA LessThanFounded == IsWellFoundedOn(LessThan, Nat)
BY NatLessThanWellFounded, Zenon DEF OpToRel, LessThan

(* ... so every set of them that is not empty has a least member.          *)
LEMMA Least ==
  ASSUME NEW T \in SUBSET Nat, T # {}
  PROVE  \E x \in T : \A y \in T : x <= y
<1>1. PICK x \in T : \A y \in T : ~(<<y, x>> \in LessThan)
  BY LessThanFounded, WFMin
<1>2. \A y \in T : ~(y < x)
  BY <1>1 DEF LessThan
<1>. QED BY <1>2

(* Where the packets up to t are data of one unit each, the sizes add up   *)
(* to t.  The table of the sums is the one function that is a sum of its   *)
(* predecessor: the least place where another differs has none.            *)
LEMMA DataSizeCounts ==
  ASSUME NEW s \in Seq(Packet), NEW t \in 0..Len(s),
         \A i \in 1..Len(s) : s[i].size = 1 /\ (IsFec(s[i]) <=> i > t)
  PROVE  DataSize(s) = t
<1>. DEFINE n == Len(s)
            term(i) == IF IsFec(s[i]) THEN 0 ELSE s[i].size
            sums(f) == f = [i \in 0..n |-> IF i = 0 THEN 0 ELSE f[i - 1] + term(i)]
            g == [i \in 0..n |-> IF i <= t THEN i ELSE t]
<1>1. n \in Nat /\ t \in Nat /\ t <= n
  OBVIOUS
<1>2. \A i \in 1..n : term(i) = IF i <= t THEN 1 ELSE 0
  BY <1>1
<1>. HIDE DEF term
<1>3. sums(g)
  BY <1>1, <1>2
<1>4. ASSUME NEW f, sums(f)
      PROVE  f[n] = t
  <2>1. \A i \in 0..n : f[i] = IF i = 0 THEN 0 ELSE f[i - 1] + term(i)
    BY <1>4
  <2>. DEFINE wrong == {i \in 0..n : f[i] # g[i]}
  <2>2. wrong \in SUBSET Nat
    BY <1>1
  <2>3. ASSUME wrong # {}
        PROVE  FALSE
    <3>1. PICK x \in wrong : \A y \in wrong : x <= y
      BY <2>2, <2>3, Least
    <3>2. x # 0
      BY <2>1, <1>1
    <3>3. x - 1 \in 0..n /\ x - 1 \notin wrong
      BY <3>1, <3>2, <1>1
    <3>4. f[x - 1] = g[x - 1]
      BY <3>3
    <3>5. f[x] = f[x - 1] + term(x) /\ g[x] = g[x - 1] + term(x)
      BY <2>1, <1>3, <3>2, <3>1, <1>1
    <3>. QED BY <3>1, <3>4, <3>5
  <2>4. n \notin wrong /\ n \in 0..n
    BY <2>3, <1>1
  <2>. QED BY <2>4, <1>1
<1>5. DataSize(s) = (CHOOSE f : sums(f))[n]
  BY DEF DataSize, term
<1>6. sums(CHOOSE f : sums(f))
  BY <1>3
<1>. QED BY <1>4, <1>5, <1>6

-----------------------------------------------------------------------------
(***************************************************************************)
(* The receiver behind the link: what holds of PacketData for every input  *)
(* holds of it here, with packets lost or not.                             *)
(***************************************************************************)

(* What the transmitter sends are headers. *)
LEMMA SentHeaders ==
  /\ \A a \in DataAddresses, c \in 0..3, f \in 0..3 :
       [addr |-> a, continuity |-> c, firstlast |-> f] \in Header
  /\ \A n \in 0..FecMaxFecPkt : FecHeader(n) \in Header
  /\ \A c \in Confusions, h \in Header : [h EXCEPT !.addr = c[2]] \in Header
<1>1. DataAddresses \subseteq 0..1023
  BY AddressAssumption, LinkAssumption DEF DataAddresses, PadAddress
<1>2. \A n \in 0..15 : n \div 4 \in 0..3 /\ n % 4 \in 0..3
  OBVIOUS
<1>3. FecMaxFecPkt \in 0..15
  BY FecAssumption
<1>4. \A n \in 0..FecMaxFecPkt : n \in 0..15
  BY <1>3
<1>5. \A c \in Confusions : c[2] \in 0..1023
  BY LinkAssumption, SMTT(40)
<1>. QED BY <1>1, <1>2, <1>4, <1>5 DEF Header, FecHeader, FecAddress

(* A packet that arrives over the channel keeps what holds of PacketData.  *)
LEMMA ArrivesBase ==
  ASSUME IInv, numberOf \in [Seqs -> Nat],
         NEW hdr \in Header, NEW h \in Header, NEW crc \in BOOLEAN, NEW number \in Nat,
         Arrives(hdr, h, crc, number)
  PROVE  IInv' /\ numberOf' \in [Seqs -> Nat]
<1>. DEFINE r == [hdr |-> hdr, sent |-> h, crc |-> crc, size |-> 1]
            p == Received(r)
<1>1. r \in Reception
  BY DEF Reception
<1>2. ArriveData(p) \/ ArriveOther(p) \/ LinkLastFec(p)
  BY DEF Arrives
<1>3. numberOf' = [numberOf EXCEPT ![seqno] = number]
  BY DEF Arrives
<1>. HIDE DEF r
<1>4. IInv'
  <2>1. CASE ArriveData(p)
    BY <2>1, <1>1, ArriveDataIInv
  <2>2. CASE ArriveOther(p)
    BY <2>2, <1>1, ArriveOtherIInv
  <2>3. CASE LinkLastFec(p)
    <3>0. ArriveLastFec(p) => EndOfGroup(p)
      BY JunkAssumption DEF ArriveLastFec, EndOfGroup
    <3>1. /\ Arriving /\ fecApplied
          /\ aggPkts' = SharedWith(aggPkts, pkts')
          /\ UNCHANGED <<dedupVars, dataframe, forwarded>>
      BY <2>3 DEF LinkLastFec, ArriveLastFec
    <3>2. p \in Packet
      BY <3>1, <1>1, ReceivedType DEF IInv
    <3>3. p.hdr \in Header
      BY <3>2 DEF Packet
    <3>4. FecDecode(p, Damaged(pkts), {}, p.hdr) =>
            \E fixed \in SUBSET Damaged(pkts) :
            \E clobbered \in SUBSET BehindFec(Append(pkts, p)) :
            \E junk \in Header : FecDecode(p, fixed, clobbered, junk)
      BY <3>3
    <3>5. EndOfGroup(p)
      BY <2>3, <3>0, <3>1, <3>4 DEF LinkLastFec, EndOfGroup
    <3>. QED BY <3>5, <1>1, ArriveLastFecIInv
  <2>. QED BY <1>2, <2>1, <2>2, <2>3
<1>. QED BY <1>3, <1>4

(* So does every transfer, the lost packet included.                       *)
LEMMA TransferBase ==
  ASSUME IInv, LinkTypes, NEW h \in Header, NEW number \in Nat, Transfer(h, number)
  PROVE  IInv' /\ numberOf' \in [Seqs -> Nat] /\ lost' \in Nat /\ damaged' \in 0..MaxDamage
<1>1. damaged \in 0..MaxDamage /\ MaxDamage \in Nat /\ lost \in Nat /\ numberOf \in [Seqs -> Nat]
  BY LinkAssumption DEF LinkTypes
<1>2. CASE Intact(h, number)
  BY <1>1, <1>2, ArrivesBase DEF Intact
<1>3. CASE Damage(h, number)
  <2>1. PICK c \in Confusions : Arrives([h EXCEPT !.addr = c[2]], h, FALSE, number)
    BY <1>3 DEF Damage
  <2>2. [h EXCEPT !.addr = c[2]] \in Header
    BY SentHeaders
  <2>3. damaged' \in 0..MaxDamage /\ lost' = lost
    BY <1>1, <1>3 DEF Damage, Fault
  <2>. QED BY <1>1, <2>1, <2>2, <2>3, ArrivesBase
<1>4. CASE Lose
  <2>1. damaged' \in 0..MaxDamage /\ lost' \in Nat /\ UNCHANGED <<vars, numberOf>>
    BY <1>1, <1>4 DEF Lose, Fault, Vanish
  <2>. QED BY <1>1, <2>1, NextIInv
<1>. QED BY <1>2, <1>3, <1>4 DEF Transfer

(* The FEC buffer misses a packet only if one was lost. *)
LEMMA GapStep ==
  ASSUME LinkTypes, [LinkNext]_linkVars
  PROVE  gap' => lost' # 0
<1>1. ASSUME NEW hdr, NEW h, NEW crc, NEW number, Arrives(hdr, h, crc, number)
      PROVE  gap' => gap
  BY <1>1 DEF Arrives
<1>2. ASSUME NEW h, NEW number, Transfer(h, number)
      PROVE  lost' = lost + 1 \/ (lost' = lost /\ (gap' => gap))
  BY <1>1, <1>2 DEF Transfer, Intact, Damage, Lose, Vanish
<1>3. LinkNext => lost' = lost + 1 \/ (lost' = lost /\ (gap' => gap))
  <2>1. ASSUME NEW f, SendOwn(f)
        PROVE  lost' = lost + 1 \/ (lost' = lost /\ (gap' => gap))
    BY <1>2, <2>1 DEF SendOwn
  <2>2. ASSUME NEW a, SendForeign(a)
        PROVE  lost' = lost + 1 \/ (lost' = lost /\ (gap' => gap))
    BY <1>2, <2>2 DEF SendForeign
  <2>3. SendFec => lost' = lost + 1 \/ (lost' = lost /\ (gap' => gap))
    BY <1>2 DEF SendFec
  <2>4. SendLastFec => lost' = lost + 1 \/ (lost' = lost /\ (gap' => gap))
    BY <1>1 DEF SendLastFec, Vanish
  <2>5. UNCHANGED channelVars => lost' = lost /\ gap' = gap
    BY DEF channelVars
  <2>. QED BY <2>1, <2>2, <2>3, <2>4, <2>5 DEF LinkNext
<1>4. UNCHANGED linkVars => lost' = lost /\ gap' = gap
  BY DEF linkVars, channelVars
<1>5. lost + 1 # 0
  BY DEF LinkTypes
<1>. QED BY <1>3, <1>4, <1>5 DEF LinkTypes

(* The types hold from the start, with packets lost or not. *)
LEMMA InitLinkTypes ==
  ASSUME LinkInit
  PROVE  IInv /\ LinkTypes
<1>1. IInv
  BY InitIInv DEF LinkInit
<1>. QED BY <1>1, FecAssumption, LinkAssumption DEF LinkInit, LinkTypes

(* Every step keeps them.                                                  *)
LEMMA NextLinkTypes ==
  ASSUME IInv, LinkTypes, [LinkNext]_linkVars
  PROVE  IInv' /\ LinkTypes'
<1>1. /\ txSize \in 0..FecDataSize /\ txFec \in 0..FecMaxFecPkt
      /\ txCont \in [DataAddresses -> 0..3] /\ ownNo \in Nat
      /\ FecDataSize \in Nat /\ FecMaxFecPkt \in Nat /\ MaxDamage \in Nat
      /\ numberOf \in [Seqs -> Nat] /\ lost \in Nat /\ damaged \in 0..MaxDamage
      /\ gap' => lost' # 0
  BY FecAssumption, LinkAssumption, GapStep DEF LinkTypes
<1>2. ASSUME NEW a \in DataAddresses, SendData(a)
      PROVE  /\ txSize' \in 0..FecDataSize /\ txFec' \in 0..FecMaxFecPkt
             /\ txCont' \in [DataAddresses -> 0..3] /\ txCont[a] \in 0..3
  BY <1>1, <1>2 DEF SendData, Next4
<1>3. ASSUME NEW f \in 0..3, SendOwn(f)
      PROVE  IInv' /\ LinkTypes'
  <2>1. OwnAddress \in DataAddresses
    BY DEF DataAddresses
  <2>2. SendData(OwnAddress) /\ ownNo' = ownNo + 1
    BY <1>3 DEF SendOwn
  <2>3. [addr |-> OwnAddress, continuity |-> txCont[OwnAddress], firstlast |-> f] \in Header
    BY <1>2, <2>1, <2>2, SentHeaders
  <2>4. IInv' /\ numberOf' \in [Seqs -> Nat] /\ lost' \in Nat /\ damaged' \in 0..MaxDamage
    BY <1>1, <1>3, <2>3, TransferBase DEF SendOwn
  <2>. QED BY <1>1, <1>2, <2>1, <2>2, <2>4 DEF LinkTypes
<1>4. ASSUME NEW a \in DataAddresses, SendForeign(a)
      PROVE  IInv' /\ LinkTypes'
  <2>1. SendData(a) /\ ownNo' = ownNo
    BY <1>4 DEF SendForeign
  <2>2. [addr |-> a, continuity |-> txCont[a], firstlast |-> 0] \in Header
    <3>1. txCont[a] \in 0..3 /\ 0 \in 0..3
      BY <1>1
    <3>. QED BY <3>1, SentHeaders
  <2>3. IInv' /\ numberOf' \in [Seqs -> Nat] /\ lost' \in Nat /\ damaged' \in 0..MaxDamage
    BY <1>4, <2>2, TransferBase DEF SendForeign
  <2>. QED BY <1>1, <1>2, <2>1, <2>3 DEF LinkTypes
<1>5. CASE SendFec
  <2>1. txFec' \in 0..FecMaxFecPkt /\ txSize' = txSize /\ txCont' = txCont /\ ownNo' = ownNo
    BY <1>1, <1>5 DEF SendFec
  <2>2. FecHeader(txFec) \in Header
    BY <1>1, SentHeaders
  <2>3. IInv' /\ numberOf' \in [Seqs -> Nat] /\ lost' \in Nat /\ damaged' \in 0..MaxDamage
    BY <1>5, <2>2, TransferBase DEF SendFec
  <2>. QED BY <1>1, <2>1, <2>3 DEF LinkTypes
<1>6. CASE SendLastFec
  <2>1. /\ txFec' = 0 /\ txSize' = 0 /\ damaged' = 0 /\ txCont' = txCont /\ ownNo' = ownNo
        /\ \/ Arrives(FecHeader(txFec), FecHeader(txFec), TRUE, 0) /\ UNCHANGED lost
           \/ Vanish
    BY <1>6 DEF SendLastFec
  <2>2. FecHeader(txFec) \in Header
    BY <1>1, SentHeaders
  <2>3. Vanish => UNCHANGED <<vars, numberOf>> /\ lost' \in Nat
    BY <1>1 DEF Vanish
  <2>4. IInv' /\ numberOf' \in [Seqs -> Nat] /\ lost' \in Nat
    BY <1>1, <2>1, <2>2, <2>3, ArrivesBase, NextIInv
  <2>. QED BY <1>1, <2>1, <2>4 DEF LinkTypes
<1>7. CASE (ResendStep \/ ResendDone) /\ UNCHANGED <<txVars, channelVars>>
  <2>1. IInv'
    BY <1>7, ResendStepIInv, ResendDoneIInv
  <2>. QED BY <1>1, <1>7, <2>1 DEF LinkTypes, txVars, channelVars
<1>8. CASE UNCHANGED linkVars
  <2>1. UNCHANGED vars /\ UNCHANGED <<txVars, channelVars>>
    BY <1>8, SMTT(40) DEF linkVars
  <2>. QED BY <1>1, <2>1, NextIInv DEF LinkTypes, txVars, channelVars
<1>. QED BY <1>3, <1>4, <1>5, <1>6, <1>7, <1>8 DEF LinkNext

-----------------------------------------------------------------------------
(***************************************************************************)
(* What a step of the transmitter comes to when its packet is not lost.    *)
(***************************************************************************)

(* The packet of a link reception. *)
LinkPacket(hdr, h, crc) == Received([hdr |-> hdr, sent |-> h, crc |-> crc, size |-> 1])

(* What sending a data packet that is not lost comes to.                   *)
DataReceived(hdr, h, crc, number) ==
  /\ resend = 0 /\ txSize < FecDataSize
  /\ txSize' = txSize + 1 /\ txFec' = txFec
  /\ number = 0 \/ number = ownNo + 1
  /\ ownNo' = IF number = 0 THEN ownNo ELSE number
  /\ txCont'[OwnAddress] = ownNo' % 4
  /\ Counted(number, h)
  /\ hdr.addr # FecAddress
  /\ crc => hdr = h
  /\ hdr.continuity = h.continuity
  /\ damaged' = IF crc THEN damaged ELSE damaged + 1
  /\ damaged' <= MaxDamage
  /\ number # 0 /\ hdr.addr = PadAddress => Hides /\ ~crc
  /\ numberOf' = [numberOf EXCEPT ![seqno] = number]
  /\ ArriveData(LinkPacket(hdr, h, crc)) \/ ArriveOther(LinkPacket(hdr, h, crc))

(* packetInput decodes only behind an FEC packet.                          *)
LEMMA NotFec ==
  ASSUME NEW p, LinkLastFec(p)
  PROVE  IsFec(p) /\ LastOfGroup(p)
BY DEF LinkLastFec, ArriveLastFec, FecOverflow, FecIncomplete, FecDecode, LastOfGroup

(* The channel delivers a data packet of this component or padding, intact *)
(* or damaged; a damaged one does not look like an FEC packet.             *)
LEMMA TransferredData ==
  ASSUME OneComponent, lost = 0, lost' = 0, LinkTypes,
         NEW h \in Header, h.addr \in {OwnAddress, PadAddress},
         NEW number, Counted(number, h), Transfer(h, number)
  PROVE  \E hdr \in Header, crc \in BOOLEAN :
           /\ hdr.addr # FecAddress
           /\ crc => hdr = h
           /\ hdr.continuity = h.continuity
           /\ damaged' = IF crc THEN damaged ELSE damaged + 1
           /\ damaged' <= MaxDamage
           /\ number # 0 /\ hdr.addr = PadAddress => Hides /\ ~crc
           /\ numberOf' = [numberOf EXCEPT ![seqno] = number]
           /\ ArriveData(LinkPacket(hdr, h, crc)) \/ ArriveOther(LinkPacket(hdr, h, crc))
<1>1. h.addr # FecAddress /\ OwnAddress # PadAddress
  BY AddressAssumption DEF FecAddress, PadAddress
<1>2. number # 0 => h.addr = OwnAddress
  BY DEF Counted
<1>3. ~Lose
  BY DEF Lose, Vanish
<1>4. damaged \in Nat /\ damaged <= MaxDamage /\ MaxDamage \in Nat
  BY LinkAssumption DEF LinkTypes
<1>5. ASSUME NEW hdr \in Header, NEW crc \in BOOLEAN, hdr.addr # FecAddress,
             Arrives(hdr, h, crc, number)
      PROVE  /\ numberOf' = [numberOf EXCEPT ![seqno] = number]
             /\ ArriveData(LinkPacket(hdr, h, crc)) \/ ArriveOther(LinkPacket(hdr, h, crc))
  <2>1. ~IsFec(LinkPacket(hdr, h, crc))
    BY <1>5 DEF IsFec, LinkPacket, Received
  <2>2. ~LinkLastFec(LinkPacket(hdr, h, crc))
    BY <2>1, NotFec
  <2>. QED BY <1>5, <2>2 DEF Arrives, LinkPacket
<1>6. CASE Intact(h, number)
  <2>1. damaged' = damaged /\ Arrives(h, h, TRUE, number)
    BY <1>6 DEF Intact
  <2>2. /\ numberOf' = [numberOf EXCEPT ![seqno] = number]
        /\ ArriveData(LinkPacket(h, h, TRUE)) \/ ArriveOther(LinkPacket(h, h, TRUE))
    BY <1>1, <1>5, <2>1
  <2>. WITNESS h \in Header, TRUE \in BOOLEAN
  <2>. QED BY <1>1, <1>2, <1>4, <2>1, <2>2
<1>7. CASE Damage(h, number)
  <2>1. PICK c \in Confusions : c[1] = h.addr /\ Arrives([h EXCEPT !.addr = c[2]], h, FALSE, number)
    BY <1>7 DEF Damage
  <2>2. damaged' = damaged + 1 /\ damaged' <= MaxDamage
    BY <1>4, <1>7 DEF Damage, Fault
  <2>. DEFINE hdr == [h EXCEPT !.addr = c[2]]
  <2>3. hdr \in Header
    BY SentHeaders
  <2>4. hdr.addr = c[2] /\ hdr.continuity = h.continuity
    BY DEF Header
  <2>5. c[2] # FecAddress
    BY DEF OneComponent
  <2>. HIDE DEF hdr
  <2>6. number # 0 /\ hdr.addr = PadAddress => Hides
    BY <1>2, <2>1, <2>4 DEF Hides
  <2>7. /\ numberOf' = [numberOf EXCEPT ![seqno] = number]
        /\ ArriveData(LinkPacket(hdr, h, FALSE)) \/ ArriveOther(LinkPacket(hdr, h, FALSE))
    BY <1>5, <2>1, <2>3, <2>4, <2>5 DEF hdr
  <2>. WITNESS hdr \in Header, FALSE \in BOOLEAN
  <2>. QED BY <2>2, <2>4, <2>5, <2>6, <2>7
<1>. QED BY <1>3, <1>6, <1>7 DEF Transfer

(* The continuity index counts modulo 4: of four consecutive numbers only  *)
(* one has the index expected.                                             *)
LEMMA Modulo ==
  /\ \A n \in Nat : (n + 1) % 4 = ((n % 4) + 1) % 4 /\ n % 4 \in 0..3
  /\ \A x, y \in Nat : y >= 1 /\ y <= x /\ x - y <= 3 /\ x % 4 = (((y - 1) % 4) + 1) % 4 => x = y
OBVIOUS

(* A data packet sent and not lost is received. *)
LEMMA DataSent ==
  ASSUME OneComponent, lost = 0, lost' = 0, LinkTypes, NumberInv,
         \/ \E f \in 0..3 : SendOwn(f)
         \/ \E a \in DataAddresses \ {OwnAddress} : SendForeign(a)
  PROVE  \E hdr, h \in Header, crc \in BOOLEAN, number \in Nat : DataReceived(hdr, h, crc, number)
<1>1. /\ DataAddresses = {OwnAddress, PadAddress} /\ OwnAddress # PadAddress
      /\ ownNo \in Nat /\ txCont \in [DataAddresses -> 0..3] /\ txCont[OwnAddress] = ownNo % 4
  BY AddressAssumption DEF OneComponent, DataAddresses, LinkTypes, NumberInv, PadAddress
<1>2. ASSUME NEW a \in DataAddresses, Sending, SendData(a)
      PROVE  /\ resend = 0 /\ txSize < FecDataSize /\ txSize' = txSize + 1 /\ txFec' = txFec
             /\ txCont' = [txCont EXCEPT ![a] = (txCont[a] + 1) % 4]
  BY <1>2 DEF Sending, SendData, Next4
<1>3. ASSUME NEW f \in 0..3, SendOwn(f)
      PROVE  \E hdr, h \in Header, crc \in BOOLEAN, number \in Nat :
               DataReceived(hdr, h, crc, number)
  <2>. DEFINE h == [addr |-> OwnAddress, continuity |-> txCont[OwnAddress], firstlast |-> f]
              number == ownNo + 1
  <2>1. ownNo' = number /\ Transfer(h, number) /\ Sending /\ SendData(OwnAddress)
    BY <1>3 DEF SendOwn
  <2>2. OwnAddress \in DataAddresses /\ txCont[OwnAddress] \in 0..3
    BY <1>1
  <2>3. h \in Header
    BY <2>2, SentHeaders
  <2>4. /\ resend = 0 /\ txSize < FecDataSize /\ txSize' = txSize + 1 /\ txFec' = txFec
        /\ txCont' = [txCont EXCEPT ![OwnAddress] = (txCont[OwnAddress] + 1) % 4]
    BY <1>2, <2>1, <2>2
  <2>5. txCont'[OwnAddress] = number % 4
    BY <1>1, <2>2, <2>4, Modulo
  <2>6. h.addr = OwnAddress /\ h.continuity = ownNo % 4
    BY <1>1
  <2>7. number \in Nat /\ number # 0 /\ number - 1 = ownNo
    BY <1>1
  <2>. HIDE DEF h, number
  <2>8. Counted(number, h)
    BY <2>6, <2>7 DEF Counted
  <2>9. \E hdr \in Header, crc \in BOOLEAN :
           /\ hdr.addr # FecAddress
           /\ crc => hdr = h
           /\ hdr.continuity = h.continuity
           /\ damaged' = IF crc THEN damaged ELSE damaged + 1
           /\ damaged' <= MaxDamage
           /\ number # 0 /\ hdr.addr = PadAddress => Hides /\ ~crc
           /\ numberOf' = [numberOf EXCEPT ![seqno] = number]
           /\ ArriveData(LinkPacket(hdr, h, crc)) \/ ArriveOther(LinkPacket(hdr, h, crc))
    BY <2>1, <2>3, <2>6, <2>8, TransferredData
  <2>10. PICK hdr \in Header, crc \in BOOLEAN : DataReceived(hdr, h, crc, number)
    BY <2>1, <2>4, <2>5, <2>7, <2>8, <2>9 DEF DataReceived, number
  <2>. QED BY <2>3, <2>7, <2>10
<1>4. ASSUME NEW a \in DataAddresses \ {OwnAddress}, SendForeign(a)
      PROVE  \E hdr, h \in Header, crc \in BOOLEAN, number \in Nat :
               DataReceived(hdr, h, crc, number)
  <2>. DEFINE h == [addr |-> a, continuity |-> txCont[a], firstlast |-> 0]
  <2>1. ownNo' = ownNo /\ Transfer(h, 0) /\ Sending /\ SendData(a)
    BY <1>4 DEF SendForeign
  <2>2. a = PadAddress /\ a \in DataAddresses /\ txCont[a] \in 0..3 /\ 0 \in 0..3
        /\ OwnAddress \in DataAddresses
    BY <1>1
  <2>3. h \in Header
    BY <2>2, SentHeaders
  <2>4. /\ resend = 0 /\ txSize < FecDataSize /\ txSize' = txSize + 1 /\ txFec' = txFec
        /\ txCont' = [txCont EXCEPT ![a] = (txCont[a] + 1) % 4]
    BY <1>2, <2>1, <2>2
  <2>5. txCont'[OwnAddress] = ownNo % 4
    BY <1>1, <2>2, <2>4
  <2>6. h.addr = PadAddress
    BY <2>2
  <2>. HIDE DEF h
  <2>8. Counted(0, h)
    BY <2>6 DEF Counted
  <2>9. \E hdr \in Header, crc \in BOOLEAN :
           /\ hdr.addr # FecAddress
           /\ crc => hdr = h
           /\ hdr.continuity = h.continuity
           /\ damaged' = IF crc THEN damaged ELSE damaged + 1
           /\ damaged' <= MaxDamage
           /\ numberOf' = [numberOf EXCEPT ![seqno] = 0]
           /\ ArriveData(LinkPacket(hdr, h, crc)) \/ ArriveOther(LinkPacket(hdr, h, crc))
    BY <2>1, <2>3, <2>6, <2>8, TransferredData
  <2>10. PICK hdr \in Header, crc \in BOOLEAN : DataReceived(hdr, h, crc, 0)
    BY <2>1, <2>4, <2>5, <2>8, <2>9 DEF DataReceived
  <2>. QED BY <2>3, <2>10
<1>. QED BY <1>3, <1>4

(* Nothing vanishes while nothing is lost.                                 *)
LEMMA NoneVanishes ==
  ASSUME lost = 0, lost' = 0
  PROVE  ~Vanish
<1>1. Vanish => lost' = lost + 1
  BY DEF Vanish
<1>. QED BY <1>1

(* The FEC counter is put together again from its two fields.              *)
LEMMA Quarters == \A n \in 0..15 : (n \div 4) * 4 + (n % 4) = n
OBVIOUS

(* An FEC packet arrives as it was sent, with its counter. *)
LEMMA FecPacket ==
  ASSUME NEW n \in 0..FecMaxFecPkt
  PROVE  LET p == LinkPacket(FecHeader(n), FecHeader(n), TRUE)
         IN  /\ IsFec(p) /\ ~IsData(p) /\ p.crc /\ p.hdr = p.sent /\ p.size = 1
             /\ LastOfGroup(p) <=> n = FecMaxFecPkt
<1>. DEFINE p == LinkPacket(FecHeader(n), FecHeader(n), TRUE)
<1>1. /\ p.hdr = FecHeader(n) /\ p.sent = FecHeader(n) /\ p.crc /\ p.size = 1
  BY DEF LinkPacket, Received
<1>. HIDE DEF p
<1>2. /\ p.hdr.addr = FecAddress /\ p.hdr.continuity = n \div 4 /\ p.hdr.firstlast = n % 4
  BY <1>1 DEF FecHeader
<1>3. n \in 0..15
  BY FecAssumption
<1>4. FecCount(p) = n
  BY <1>2, <1>3, Quarters DEF FecCount
<1>5. IsFec(p) /\ (LastOfGroup(p) <=> n = FecMaxFecPkt)
  BY <1>2, <1>4 DEF IsFec, LastOfGroup
<1>6. ~IsData(p)
  BY <1>5 DEF IsData
<1>. QED BY <1>1, <1>5, <1>6 DEF p

(* What an FEC packet within a group, and the last one, come to. *)
FecReceived(p) ==
  /\ resend = 0 /\ txSize = FecDataSize /\ txFec < FecMaxFecPkt
  /\ txSize' = txSize /\ txFec' = txFec + 1
  /\ ownNo' = ownNo /\ txCont' = txCont /\ damaged' = damaged
  /\ numberOf' = [numberOf EXCEPT ![seqno] = 0]
  /\ ArriveOther(p)

GroupDecoded(p) ==
  /\ Arriving /\ txSize = FecDataSize /\ txFec = FecMaxFecPkt
  /\ txSize' = 0 /\ txFec' = 0
  /\ ownNo' = ownNo /\ txCont' = txCont /\ damaged' = 0
  /\ numberOf' = [numberOf EXCEPT ![seqno] = 0]
  /\ fecApplied /\ FecDecode(p, Damaged(pkts), {}, p.hdr)
  /\ aggPkts' = SharedWith(aggPkts, pkts')
  /\ UNCHANGED <<dedupVars, dataframe, forwarded>>

(* An FEC packet within a group is stored.                                 *)
LEMMA FecSent ==
  ASSUME OneComponent, lost = 0, lost' = 0, LinkTypes, SendFec
  PROVE  FecReceived(LinkPacket(FecHeader(txFec), FecHeader(txFec), TRUE))
<1>. DEFINE h == FecHeader(txFec)
            p == LinkPacket(h, h, TRUE)
<1>1. /\ resend = 0 /\ txSize = FecDataSize /\ txFec < FecMaxFecPkt
      /\ txSize' = txSize /\ txFec' = txFec + 1 /\ ownNo' = ownNo /\ txCont' = txCont
      /\ Transfer(h, 0)
  BY DEF SendFec, Sending
<1>2. txFec \in 0..FecMaxFecPkt /\ txFec # FecMaxFecPkt
  BY <1>1, FecAssumption DEF LinkTypes
<1>3. ~IsData(p) /\ ~LastOfGroup(p)
  BY <1>2, FecPacket
<1>4. h.addr = FecAddress
  BY DEF FecHeader
<1>. HIDE DEF h
<1>5. ~Lose /\ ~Damage(h, 0)
  <2>1. \A c \in Confusions : c[1] # h.addr
    BY <1>4 DEF OneComponent
  <2>2. ~Damage(h, 0)
    BY <2>1 DEF Damage
  <2>. QED BY <2>2, NoneVanishes DEF Lose
<1>6. Arrives(h, h, TRUE, 0) /\ damaged' = damaged
  BY <1>1, <1>5 DEF Transfer, Intact
<1>7. /\ ArriveData(p) \/ ArriveOther(p) \/ LinkLastFec(p)
      /\ numberOf' = [numberOf EXCEPT ![seqno] = 0]
  BY <1>6 DEF Arrives, LinkPacket
<1>8. ~ArriveData(p) /\ ~LinkLastFec(p)
  BY <1>3, NotFec DEF ArriveData
<1>. QED BY <1>1, <1>6, <1>7, <1>8 DEF FecReceived, h

(* The last one completes a group of the right size, which is decoded.     *)
LEMMA LastFecSent ==
  ASSUME OneComponent, lost = 0, lost' = 0, IInv, LinkTypes, GroupInv, SendLastFec
  PROVE  GroupDecoded(LinkPacket(FecHeader(txFec), FecHeader(txFec), TRUE))
<1>. DEFINE h == FecHeader(txFec)
            p == LinkPacket(h, h, TRUE)
<1>1. /\ resend = 0 /\ txSize = FecDataSize /\ txFec = FecMaxFecPkt
      /\ txSize' = 0 /\ txFec' = 0 /\ ownNo' = ownNo /\ txCont' = txCont /\ damaged' = 0
      /\ Arrives(h, h, TRUE, 0)
  BY NoneVanishes DEF SendLastFec, Sending
<1>2. txFec \in 0..FecMaxFecPkt
  BY DEF LinkTypes
<1>3. ~IsData(p) /\ LastOfGroup(p)
  BY <1>1, <1>2, FecPacket
<1>. HIDE DEF h
<1>4. /\ ArriveData(p) \/ ArriveOther(p) \/ LinkLastFec(p)
      /\ numberOf' = [numberOf EXCEPT ![seqno] = 0]
  BY <1>1 DEF Arrives, LinkPacket
<1>5. LinkLastFec(p)
  BY <1>3, <1>4 DEF ArriveData, ArriveOther, FecStore
<1>6. DataSize(pkts) = FecDataSize
  <2>1. pkts \in Seq(Packet)
    BY DEF IInv, TypeOK
  <2>2. txSize \in Nat /\ txFec \in Nat /\ Len(pkts) = txSize + txFec
    BY <1>1, FecAssumption DEF GroupInv, LinkTypes
  <2>3. \A i \in 1..Len(pkts) : pkts[i].size = 1 /\ (IsFec(pkts[i]) <=> ~(i <= txSize))
    BY <1>1 DEF GroupInv, Buffered, DataCount
  <2>4. /\ txSize \in 0..Len(pkts)
        /\ \A i \in 1..Len(pkts) : pkts[i].size = 1 /\ (IsFec(pkts[i]) <=> i > txSize)
    BY <2>2, <2>3
  <2>. QED BY <1>1, <2>1, <2>4, DataSizeCounts
<1>7. FecDataSize \in Nat
  BY FecAssumption
<1>8. ~FecOverflow(p) /\ ~FecIncomplete(p)
  <2>1. /\ FecOverflow(p) => DataSize(pkts) > FecDataSize
        /\ FecIncomplete(p) => DataSize(pkts) < FecDataSize
    BY DEF FecOverflow, FecIncomplete
  <2>2. ~(DataSize(pkts) > FecDataSize) /\ ~(DataSize(pkts) < FecDataSize)
    BY <1>6, <1>7
  <2>. QED BY <2>1, <2>2
<1>10. GroupAsSent
  BY DEF GroupAsSent, OneComponent, LinkTypes
<1>9. /\ Arriving /\ fecApplied /\ FecDecode(p, Damaged(pkts), {}, p.hdr)
      /\ aggPkts' = SharedWith(aggPkts, pkts')
      /\ UNCHANGED <<dedupVars, dataframe, forwarded>>
  BY <1>5, <1>8, <1>10 DEF LinkLastFec
<1>. QED BY <1>1, <1>4, <1>9 DEF GroupDecoded, h

-----------------------------------------------------------------------------
(***************************************************************************)
(* The invariant is inductive: the numbers, the buffer, and what becomes of *)
(* a packet on arrival.                                                    *)
(***************************************************************************)

(* The packet just received gets its number, the others keep theirs. *)
Numbered(number) ==
  /\ number \in Nat
  /\ number = 0 \/ number = ownNo + 1
  /\ ownNo' = IF number = 0 THEN ownNo ELSE number
  /\ seqno \in Seqs /\ seqno' = seqno + 1
  /\ numberOf' = [numberOf EXCEPT ![seqno] = number]

(* All other packets keep their numbers.                                   *)
LEMMA NumberedFacts ==
  ASSUME LinkTypes, NEW number, Numbered(number)
  PROVE  /\ numberOf'[seqno] = number
         /\ \A s \in Seqs : s # seqno => numberOf'[s] = numberOf[s]
         /\ seqno \in Nat /\ number \in Nat
         /\ \A s \in Seqs : s \in Nat /\ numberOf[s] \in Nat /\ numberOf'[s] \in Nat
<1>1. /\ numberOf'[seqno] = number
      /\ \A s \in Seqs : s # seqno => numberOf'[s] = numberOf[s]
  BY DEF LinkTypes, Numbered
<1>2. seqno \in Nat /\ number \in Nat /\ \A s \in Seqs : s \in Nat /\ numberOf[s] \in Nat
  BY SeqsNat DEF LinkTypes, Numbered
<1>. QED BY <1>1, <1>2

(* The own packets stay numbered as they come.                             *)
LEMMA NumberStep ==
  ASSUME LinkTypes, NumberInv, NEW number, Numbered(number), txCont'[OwnAddress] = ownNo' % 4
  PROVE  NumberInv'
<1>1. /\ numberOf'[seqno] = number
      /\ \A s \in Seqs : s # seqno => numberOf'[s] = numberOf[s]
      /\ seqno \in Nat /\ number \in Nat
      /\ \A s \in Seqs : s \in Nat /\ numberOf[s] \in Nat /\ numberOf'[s] \in Nat
  BY NumberedFacts
<1>2. /\ \A s \in Seqs : numberOf[s] <= ownNo /\ (s >= seqno => numberOf[s] = 0)
      /\ \A s, t \in Seqs : s < t /\ numberOf[s] # 0 /\ numberOf[t] # 0 => numberOf[s] < numberOf[t]
      /\ \A n \in 1..ownNo : \E s \in Seqs : numberOf[s] = n
  BY DEF NumberInv, IsOwn
<1>3. /\ number = 0 \/ number = ownNo + 1
      /\ ownNo' = IF number = 0 THEN ownNo ELSE number
      /\ seqno \in Seqs /\ seqno' = seqno + 1 /\ ownNo \in Nat
  BY DEF Numbered, LinkTypes
<1>4. \A s \in Seqs : numberOf'[s] <= ownNo' /\ (s >= seqno' => numberOf'[s] = 0)
  BY <1>1, <1>2, <1>3
<1>5. \A s, t \in Seqs :
        s < t /\ numberOf'[s] # 0 /\ numberOf'[t] # 0 => numberOf'[s] < numberOf'[t]
  <2>1. TAKE s, t \in Seqs
  <2>2. HAVE s < t /\ numberOf'[s] # 0 /\ numberOf'[t] # 0
  <2>3. CASE t = seqno
    BY <2>2, <2>3, <1>1, <1>2, <1>3
  <2>4. CASE t # seqno
    <3>1. numberOf'[t] = numberOf[t] /\ t < seqno
      BY <2>2, <2>4, <1>1, <1>2
    <3>2. s # seqno
      BY <3>1, <2>2, <1>1
    <3>. QED BY <3>1, <3>2, <2>2, <1>1, <1>2
  <2>. QED BY <2>3, <2>4
<1>6. \A n \in 1..ownNo' : \E s \in Seqs : numberOf'[s] = n
  <2>1. TAKE n \in 1..ownNo'
  <2>2. CASE n \in 1..ownNo
    <3>1. PICK s \in Seqs : numberOf[s] = n
      BY <2>2, <1>2
    <3>2. s # seqno
      BY <3>1, <2>2, <1>1, <1>2
    <3>. QED BY <3>1, <3>2, <1>1
  <2>3. CASE n \notin 1..ownNo
    BY <2>3, <1>1, <1>3
  <2>. QED BY <2>2, <2>3
<1>. QED BY <1>4, <1>5, <1>6 DEF NumberInv, IsOwn

(* A frame keeps the numbers of its packets when another is received. *)
LEMMA WholeKept ==
  ASSUME LinkTypes, NumberInv, NEW number, Numbered(number), 
         NEW frame \in Seq(Packet), Whole(frame, numberOf)
  PROVE  Whole(frame, numberOf')
<1>1. /\ \A s \in Seqs : s # seqno => numberOf'[s] = numberOf[s]
      /\ seqno \in Nat /\ seqno \in Seqs
  BY NumberedFacts DEF Numbered
<1>2. numberOf[seqno] = 0
  BY <1>1 DEF NumberInv, IsOwn
<1>3. \A i \in 1..Len(frame) :
        frame[i].seq \in Seqs /\ numberOf'[frame[i].seq] = numberOf[frame[i].seq]
  <2>1. TAKE i \in 1..Len(frame)
  <2>2. frame[i] \in Packet
    OBVIOUS
  <2>3. frame[i].seq \in Seqs /\ numberOf[frame[i].seq] # 0
    BY <2>2 DEF Packet, Whole
  <2>. QED BY <2>3, <1>1, <1>2
<1>4. \A i \in 1..Len(frame) : 1 \in 1..Len(frame)
  OBVIOUS
<1>. QED BY <1>3, <1>4 DEF Whole

(* The receiver's buffer grows by the packet received. *)
Lengthened ==
  /\ resend = 0 /\ resend' \in {0, 1}
  /\ Len(pkts') = Len(pkts) + 1
  /\ \A i \in 1..Len(pkts) : pkts'[i].seq = pkts[i].seq
  /\ pkts'[Len(pkts) + 1].seq = seqno

(* What was ahead stays ahead, and the packet received is ahead too.       *)
LEMMA WaitStep ==
  ASSUME IInv, LinkTypes, NEW number, Numbered(number), Lengthened,
         WaitInv, seqLast' \in Nat, seqLast' >= seqLast
  PROVE  /\ \A s : Ahead(s) \/ s = seqno => Ahead(s)'
         /\ WaitInv'
<1>1. Len(pkts) \in Nat /\ seqLast \in Nat
  BY Numbers DEF IInv
<1>2. /\ resend' <= 1 /\ Len(pkts') = Len(pkts) + 1
      /\ \A i \in 1..Len(pkts) : pkts'[i].seq = pkts[i].seq
      /\ pkts'[Len(pkts) + 1].seq = seqno
      /\ resend' \in Nat
  BY DEF Lengthened
<1>3. \A s : Ahead(s) => \E i \in 1..Len(pkts') : resend' <= i /\ pkts'[i].seq = s
  BY <1>1, <1>2 DEF Ahead
<1>4. \E i \in 1..Len(pkts') : resend' <= i /\ pkts'[i].seq = seqno
  BY <1>1, <1>2
<1>5. \A s \in Seqs : s # seqno => numberOf'[s] = numberOf[s]
  BY NumberedFacts
<1>6. \A s \in Seqs : numberOf'[s] # 0 =>
        s <= seqLast' \/ \E i \in 1..Len(pkts') : resend' <= i /\ pkts'[i].seq = s
  <2>1. TAKE s \in Seqs
  <2>2. HAVE numberOf'[s] # 0
  <2>3. CASE s = seqno
    BY <2>3, <1>4
  <2>4. CASE s # seqno
    <3>1. s <= seqLast \/ Ahead(s)
      BY <2>2, <2>4, <1>5 DEF WaitInv, IsOwn
    <3>2. s \in Nat
      BY SeqsNat
    <3>. QED BY <3>1, <3>2, <1>1, <1>3
  <2>. QED BY <2>3, <2>4
<1>7. \A s : Ahead(s)' <=> \E i \in 1..Len(pkts') : resend' <= i /\ pkts'[i].seq = s
  BY DEF Ahead
<1>8. WaitInv'
  BY <1>6, <1>7 DEF WaitInv, IsOwn
<1>. QED BY <1>3, <1>4, <1>7, <1>8

(* The buffer keeps its order when a packet that is not the last of the    *)
(* group is stored.                                                        *)
LEMMA StoredStep ==
  ASSUME IInv, LinkTypes, NumberInv, GroupInv, NEW number, Numbered(number),
         Arriving, NEW p \in Packet, p.seq = seqno, FecStore(p),
         NEW data \in BOOLEAN, Buffered(p, data, number),
         data => txSize < FecDataSize, ~data => txSize = FecDataSize,
         txSize' = IF data THEN txSize + 1 ELSE txSize,
         txFec' = IF data THEN txFec ELSE txFec + 1
  PROVE  GroupInv' /\ Lengthened
<1>1. /\ resend = 0 /\ fecApplied /\ fecApplied' = fecApplied
      /\ txSize \in Nat /\ txFec \in Nat /\ FecDataSize \in Nat
      /\ txFec > 0 => txSize = FecDataSize
      /\ Len(pkts) = txSize + txFec
  BY FecAssumption DEF Arriving, GroupInv, LinkTypes
<1>2. /\ Len(pkts') = Len(pkts) + 1 /\ resend' = 0
      /\ \A i \in 1..Len(pkts) : pkts'[i] = pkts[i]
      /\ pkts'[Len(pkts) + 1] = p
  BY <1>1, StoreStep
<1>3. Lengthened
  BY <1>1, <1>2 DEF Lengthened
<1>4. \A i \in 1..Len(pkts) : Buffered(pkts[i], i <= txSize, numberOf[pkts[i].seq])
  BY <1>1 DEF GroupInv, DataCount
<1>5. /\ txSize' \in Nat /\ txFec' \in Nat
      /\ txFec' > 0 => txSize' = FecDataSize
      /\ Len(pkts') = txSize' + txFec'
      /\ \A i \in 1..Len(pkts) : (i <= txSize) = (i <= txSize')
      /\ (Len(pkts) + 1 <= txSize') = data
  BY <1>1, <1>2
<1>6. \A i \in 1..Len(pkts) : numberOf'[pkts[i].seq] = numberOf[pkts[i].seq]
  <2>1. \A i \in 1..Len(pkts) : pkts[i].seq \in Seqs /\ pkts[i].seq \in Nat /\ pkts[i].seq < seqno
    BY Numbers, SeqsNat DEF IInv, BufferInv
  <2>2. seqno \in Nat /\ \A s \in Seqs : s # seqno => numberOf'[s] = numberOf[s]
    BY NumberedFacts
  <2>. QED BY <2>1, <2>2
<1>7. numberOf'[seqno] = number
  BY NumberedFacts
<1>8. \A i \in 1..Len(pkts') : Buffered(pkts'[i], i <= txSize', numberOf'[pkts'[i].seq])
  <2>1. TAKE i \in 1..Len(pkts')
  <2>2. CASE i = Len(pkts) + 1
    BY <2>2, <1>2, <1>5, <1>7
  <2>3. CASE i # Len(pkts) + 1
    <3>1. i \in 1..Len(pkts)
      BY <2>3, <1>1, <1>2
    <3>2. /\ pkts'[i] = pkts[i] /\ numberOf'[pkts'[i].seq] = numberOf[pkts[i].seq]
          /\ (i <= txSize) = (i <= txSize')
      BY <3>1, <1>2, <1>5, <1>6
    <3>. QED BY <3>1, <3>2, <1>4
  <2>. QED BY <2>2, <2>3
<1>. QED BY <1>1, <1>2, <1>3, <1>5, <1>8 DEF GroupInv, DataCount

(* The decoder restores every data packet and leaves the FEC packets be. *)
LEMMA DecodedStep ==
  ASSUME IInv, LinkTypes, NumberInv, GroupInv, Numbered(0),
         NEW p \in Packet, p.seq = seqno, GroupDecoded(p),
         IsFec(p), p.crc, p.hdr = p.sent, p.size = 1
  PROVE  /\ GroupInv' /\ Lengthened /\ resend' = 1 /\ pkts' \in Seq(Packet)
         /\ fate' = [fate EXCEPT ![seqno] = "ignored"]
<1>1. /\ resend = 0 /\ fecApplied /\ fecApplied' = fecApplied
      /\ txSize = FecDataSize /\ txSize' = 0 /\ txFec' = 0 /\ damaged' = 0
      /\ txFec \in Nat /\ FecDataSize \in Nat
      /\ Len(pkts) = txSize + txFec
  BY FecAssumption DEF GroupDecoded, Arriving, GroupInv, LinkTypes
<1>2. /\ pkts \in Seq(Packet) /\ \A i \in 1..Len(pkts) : pkts[i] \in Packet
  BY DEF IInv, TypeOK
<1>3. Append(pkts, p) \in Seq(Packet)
      /\ Len(Append(pkts, p)) = Len(pkts) + 1
      /\ \A i \in 1..Len(pkts) : Append(pkts, p)[i] = pkts[i]
      /\ Append(pkts, p)[Len(pkts) + 1] = p
  BY <1>2, AppendFacts
<1>. DEFINE group == Append(pkts, p)
            HeaderOf(i) == IF i \in Damaged(pkts) THEN group[i].sent ELSE group[i].hdr
<1>4. /\ resend' = 1 /\ fate' = [fate EXCEPT ![seqno] = "ignored"]
  BY DEF GroupDecoded, FecDecode
<1>20. pkts' = [i \in 1..Len(group) |->
                    [group[i] EXCEPT !.hdr = IF i \in {} THEN p.hdr ELSE HeaderOf(i),
                                     !.handled = TRUE,
                                     !.crc = i \notin {} /\ (@ \/ i \in Damaged(pkts))]]
  BY DEF GroupDecoded, FecDecode
<1>. HIDE DEF group
<1>5. \A i \in 1..Len(group) :
        /\ pkts'[i].seq = group[i].seq /\ pkts'[i].size = group[i].size
        /\ pkts'[i].sent = group[i].sent
        /\ pkts'[i].hdr = HeaderOf(i)
        /\ pkts'[i].crc = (group[i].crc \/ i \in Damaged(pkts))
  <2>1. \A i \in 1..Len(group) : group[i] \in Packet
    BY <1>3 DEF group
  <2>. QED BY <1>20, <2>1 DEF Packet
<1>6. /\ Len(pkts') = Len(pkts) + 1 /\ pkts' \in Seq(Packet)
      /\ \A i \in 1..Len(pkts) : pkts'[i].seq = pkts[i].seq
      /\ pkts'[Len(pkts) + 1].seq = seqno
  <2>1. p.hdr \in Header
    BY DEF Packet
  <2>2. {} \in SUBSET BehindFec(Append(pkts, p)) /\ Damaged(pkts) \in SUBSET Damaged(pkts)
    OBVIOUS
  <2>3. FecDecode(p, Damaged(pkts), {}, p.hdr)
    BY DEF GroupDecoded
  <2>4. \E fixed \in SUBSET Damaged(pkts) :
        \E clobbered \in SUBSET BehindFec(Append(pkts, p)) :
        \E junk \in Header : FecDecode(p, fixed, clobbered, junk)
    BY <2>1, <2>2, <2>3
  <2>. QED BY <2>4, LoopStarts DEF IInv
<1>7. /\ \A i \in 1..Len(pkts) : group[i] = pkts[i]
      /\ group[Len(pkts) + 1] = p /\ Len(group) = Len(pkts) + 1
  BY <1>3 DEF group
<1>. HIDE DEF HeaderOf
<1>8. Lengthened
  <2>1. resend' \in {0, 1}
    BY <1>4
  <2>. QED BY <1>1, <1>6, <2>1 DEF Lengthened
<1>9. \A i \in 1..Len(pkts) : Buffered(pkts[i], i <= FecDataSize, numberOf[pkts[i].seq])
  BY <1>1 DEF GroupInv, DataCount
<1>10. \A i \in 1..Len(pkts) : IsFec(pkts[i]) <=> i > FecDataSize
  BY <1>9, <1>1 DEF Buffered
<1>11. \A i \in 1..Len(pkts) : i \in Damaged(pkts) <=> i <= FecDataSize /\ ~pkts[i].crc
  BY <1>1, <1>10 DEF Damaged, BehindFec
<1>12. Len(pkts) + 1 \notin Damaged(pkts)
  BY <1>1 DEF Damaged
<1>13. \A i \in 1..Len(pkts) : numberOf'[pkts[i].seq] = numberOf[pkts[i].seq]
  <2>1. \A i \in 1..Len(pkts) : pkts[i].seq \in Seqs /\ pkts[i].seq \in Nat /\ pkts[i].seq < seqno
    BY Numbers, SeqsNat DEF IInv, BufferInv
  <2>2. seqno \in Nat /\ \A s \in Seqs : s # seqno => numberOf'[s] = numberOf[s]
    BY NumberedFacts
  <2>. QED BY <2>1, <2>2
<1>14. numberOf'[seqno] = 0
  BY NumberedFacts
<1>15. ASSUME NEW i \in 1..Len(pkts)
       PROVE  /\ Buffered(pkts'[i], i <= FecDataSize, numberOf'[pkts'[i].seq])
              /\ i <= FecDataSize => pkts'[i].crc
  <2>1. /\ pkts'[i].seq = pkts[i].seq /\ pkts'[i].size = pkts[i].size
        /\ pkts'[i].sent = pkts[i].sent
        /\ pkts'[i].hdr = IF i \in Damaged(pkts) THEN pkts[i].sent ELSE pkts[i].hdr
        /\ pkts'[i].crc = (pkts[i].crc \/ i \in Damaged(pkts))
    BY <1>1, <1>5, <1>7 DEF HeaderOf
  <2>2. Buffered(pkts[i], i <= FecDataSize, numberOf[pkts[i].seq])
    BY <1>9
  <2>3. i <= FecDataSize => pkts[i].sent.addr # FecAddress
    BY <2>2, AddressAssumption, SMTT(40) DEF Buffered, Counted, FecAddress, PadAddress
  <2>4. i <= FecDataSize => pkts'[i].crc
    BY <2>1, <1>11
  <2>5. pkts'[i].crc => pkts'[i].hdr = pkts'[i].sent
    BY <2>1, <2>2 DEF Buffered
  <2>6. IsFec(pkts'[i]) <=> ~(i <= FecDataSize)
    <3>1. CASE i <= FecDataSize
      BY <3>1, <2>1, <2>3, <2>4, <2>5 DEF IsFec
    <3>2. CASE ~(i <= FecDataSize)
      BY <3>2, <2>1, <2>2, <1>11 DEF IsFec, Buffered
    <3>. QED BY <3>1, <3>2
  <2>. QED BY <2>1, <2>2, <2>4, <2>5, <2>6, <1>13 DEF Buffered
<1>16. Buffered(pkts'[Len(pkts) + 1], FALSE, numberOf'[pkts'[Len(pkts) + 1].seq])
  <2>1. /\ pkts'[Len(pkts) + 1].seq = seqno /\ pkts'[Len(pkts) + 1].size = 1
        /\ pkts'[Len(pkts) + 1].sent = p.sent /\ pkts'[Len(pkts) + 1].hdr = p.hdr
    BY <1>1, <1>5, <1>7, <1>12 DEF HeaderOf
  <2>. QED BY <2>1, <1>14 DEF Buffered, IsFec
<1>17. \A i \in 1..Len(pkts') : Buffered(pkts'[i], i <= FecDataSize, numberOf'[pkts'[i].seq])
  <2>1. TAKE i \in 1..Len(pkts')
  <2>2. CASE i = Len(pkts) + 1
    <3>1. (i <= FecDataSize) = FALSE
      BY <2>2, <1>1
    <3>. QED BY <2>2, <3>1, <1>16
  <2>3. CASE i # Len(pkts) + 1
    <3>1. i \in 1..Len(pkts)
      BY <2>3, <1>1, <1>6
    <3>. QED BY <3>1, <1>15
  <2>. QED BY <2>2, <2>3
<1>18. \A i \in 1..FecDataSize : pkts'[i].crc
  <2>1. \A i \in 1..FecDataSize : i \in 1..Len(pkts) /\ i <= FecDataSize
    BY <1>1
  <2>. QED BY <2>1, <1>15
<1>19. GroupInv'
  <2>1. resend' # 0 /\ Len(pkts') >= FecDataSize
    <3>1. resend' # 0
      BY <1>4
    <3>. QED BY <3>1, <1>1, <1>6
  <2>. QED BY <2>1, <1>1, <1>17, <1>18 DEF GroupInv, DataCount
<1>. QED BY <1>4, <1>6, <1>8, <1>19

(* What the aggregator holds is as it was sent, also when the decoder has  *)
(* written to the group it is of.                                          *)
LEMMA HeldDecoded ==
  ASSUME IInv, LinkTypes, NumberInv, FrameInv, Numbered(0),
         GroupInv', resend' # 0, pkts' \in Seq(Packet),
         aggPkts' = SharedWith(aggPkts, pkts'), UNCHANGED <<dataframe, seqLast>>
  PROVE  FrameInv' /\ (aggPkts = <<>> => aggPkts' = <<>>)
<1>. DEFINE after == SharedWith(aggPkts, pkts')
<1>1. aggPkts \in Seq(Packet) /\ dataframe \in Seq(Packet)
  BY DEF IInv, TypeOK
<1>2. Whole(aggPkts, numberOf') /\ Whole(dataframe, numberOf')
  BY <1>1, WholeKept DEF FrameInv
<1>3. /\ after \in Seq(Packet) /\ Len(after) = Len(aggPkts)
      /\ \A k \in 1..Len(aggPkts) :
           /\ after[k].seq = aggPkts[k].seq
           /\ \/ after[k] = aggPkts[k]
              \/ \E i \in 1..Len(pkts') :
                   /\ pkts'[i].seq = aggPkts[k].seq
                   /\ after[k].crc = pkts'[i].crc
                   /\ after[k].hdr = pkts'[i].hdr
                   /\ after[k].sent = pkts'[i].sent
  BY <1>1, SharedFacts, SMTT(40)
<1>4. aggPkts' = after
  OBVIOUS
<1>. HIDE DEF after
<1>5. FecDataSize \in Nat
  BY FecAssumption
<1>6. ASSUME NEW i \in 1..Len(pkts'), numberOf'[pkts'[i].seq] # 0
      PROVE  pkts'[i].crc /\ pkts'[i].hdr = pkts'[i].sent
  <2>1. Buffered(pkts'[i], i <= FecDataSize, numberOf'[pkts'[i].seq])
    BY <1>6 DEF GroupInv, DataCount
  <2>2. i <= FecDataSize
    BY <1>6, <2>1 DEF Buffered
  <2>3. i \in 1..FecDataSize
    BY <1>5, <2>2
  <2>4. pkts'[i].crc
    BY <2>3 DEF GroupInv
  <2>. QED BY <2>1, <2>4 DEF Buffered
<1>7. \A k \in 1..Len(aggPkts) : after[k].crc /\ after[k].hdr = after[k].sent
  <2>1. TAKE k \in 1..Len(aggPkts)
  <2>2. /\ aggPkts[k].crc /\ aggPkts[k].hdr = aggPkts[k].sent
        /\ numberOf'[aggPkts[k].seq] # 0
    BY <1>2 DEF Whole
  <2>. QED BY <1>3, <1>6, <2>2
<1>8. Len(aggPkts) \in Nat /\ \A k \in 1..Len(aggPkts) : 1 \in 1..Len(aggPkts)
  BY <1>1
<1>9. Whole(after, numberOf')
  BY <1>2, <1>3, <1>7, <1>8 DEF Whole
<1>10. aggPkts = <<>> => after = <<>>
  BY <1>1, <1>3
<1>11. after # <<>> => aggPkts # <<>> /\ after[Len(after)].seq = seqLast
  <2>. SUFFICES ASSUME after # <<>> PROVE aggPkts # <<>> /\ after[Len(after)].seq = seqLast
    OBVIOUS
  <2>1. aggPkts # <<>>
    BY <1>10
  <2>2. Len(aggPkts) \in 1..Len(aggPkts)
    BY <1>1, <2>1
  <2>. QED BY <1>3, <2>1, <2>2 DEF FrameInv
<1>. QED BY <1>2, <1>4, <1>9, <1>10, <1>11 DEF FrameInv

(* A distance that grows by no more than its bound stays within it.        *)
LEMMA StillWithin ==
  ASSUME NEW a \in Nat, NEW b \in Nat, NEW c \in Nat, NEW x \in Int, NEW y \in Int,
         b - a <= x, c - b <= y - x
  PROVE  c - a <= y
OBVIOUS

(* The packets that wait are still ahead when another one is received.     *)
LEMMA DeliveryStep ==
  ASSUME IInv, LinkTypes, NumberInv, DeliveryInv, NEW number, Numbered(number),
         \A s \in Seqs : Ahead(s) \/ s = seqno => Ahead(s)',
         \A s \in Seqs : s # seqno => fate'[s] = fate[s],
         \/ fate'[seqno] = "first"
         \/ fate'[seqno] # "first" /\ seqLast' = seqLast
         \/ /\ fate'[seqno] = "forwarded" /\ seqLast # 0
            /\ OwnReference => \A s \in Seqs : IsOwn(s) => s <= seqLast
  PROVE  DeliveryInv'
<1>1. /\ numberOf'[seqno] = number
      /\ \A s \in Seqs : s # seqno => numberOf'[s] = numberOf[s]
      /\ seqno \in Nat /\ seqno \in Seqs /\ seqno' = seqno + 1
      /\ \A s \in Seqs : s \in Nat
      /\ \A s \in Seqs : s >= seqno => numberOf[s] = 0
  BY NumberedFacts DEF Numbered, NumberInv, IsOwn
<1>2. /\ seqLast \in Nat /\ (seqLast # 0 => seqLast < seqno)
      /\ \A t \in 0..(seqno - 1) : t \in Seqs /\ t # seqno
  BY <1>1, Numbers DEF IInv, ForwardedInv, Seqs
<1>. SUFFICES ASSUME OwnReference', NEW s \in Seqs, numberOf'[s] # 0
              PROVE  \/ fate'[s] = "forwarded"
                     \/ \E t \in s..seqno : fate'[t] = "first"
                     \/ Ahead(s)' /\ (s > seqLast' \/ seqLast' = 0)
  <2>1. seqno' - 1 = seqno
    BY <1>1
  <2>. QED BY <2>1 DEF DeliveryInv, Settled, IsOwn
<1>3. OwnReference
  <2>1. \A t \in 0..(seqno' - 1) : fate'[t] = "first" => numberOf'[t] # 0
    BY DEF OwnReference, IsOwn
  <2>. QED BY <2>1, <1>1, <1>2 DEF OwnReference, IsOwn
<1>4. s <= seqno
  BY <1>1
<1>5. s # seqno => Settled(s) \/ (Ahead(s) /\ (s > seqLast \/ seqLast = 0))
  BY <1>1, <1>3 DEF DeliveryInv, IsOwn
<1>6. s # seqno /\ Settled(s) => fate'[s] = "forwarded" \/ \E t \in s..seqno : fate'[t] = "first"
  <2>1. \A t \in s..(seqno - 1) : t \in 0..(seqno - 1) /\ t \in s..seqno
    BY <1>1
  <2>. QED BY <2>1, <1>2 DEF Settled
<1>7. CASE fate'[seqno] = "first"
  <2>1. seqno \in s..seqno
    BY <1>1, <1>4
  <2>. QED BY <2>1, <1>7
<1>8. CASE seqLast' = seqLast
  <2>1. s = seqno => s > seqLast \/ seqLast = 0
    BY <1>1, <1>2
  <2>. QED BY <2>1, <1>5, <1>6, <1>8
<1>9. CASE /\ fate'[seqno] = "forwarded" /\ seqLast # 0
           /\ OwnReference => \A t \in Seqs : IsOwn(t) => t <= seqLast
  <2>1. s # seqno => s <= seqLast
    BY <1>1, <1>3, <1>9 DEF IsOwn
  <2>2. s # seqno => Settled(s)
    BY <2>1, <1>1, <1>2, <1>5, <1>9
  <2>. QED BY <2>2, <1>6, <1>9
<1>. QED BY <1>7, <1>8, <1>9

(* A packet that is not forwarded leaves the reference and the frames. *)
LEMMA WaitingStep ==
  ASSUME IInv, LinkTypes, NumberInv, WaitInv, ReferenceInv, DeliveryInv,
         NEW number, Numbered(number), Lengthened,
         UNCHANGED <<seqLast, continuityLast>>, aggPkts = <<>> => aggPkts' = <<>>,
         NEW f \in Fates \ {"first", "forwarded"}, fate' = [fate EXCEPT ![seqno] = f],
         damaged' \in Nat,
         resend' = 0 /\ ~plugged' => ~plugged /\ ownNo' - ownNo <= Hidden' - Hidden
  PROVE  WaitInv' /\ ReferenceInv' /\ DeliveryInv'
<1>1. /\ seqLast \in Nat /\ (seqLast # 0 => seqLast < seqno /\ seqLast \in Seqs)
      /\ fate \in [Seqs -> Fates]
  BY Numbers DEF IInv, TypeOK, ForwardedInv
<1>2. /\ \A s \in Seqs : s # seqno => numberOf'[s] = numberOf[s]
      /\ seqno \in Nat /\ seqno \in Seqs
  BY NumberedFacts DEF Numbered
<1>3. /\ \A s \in Seqs : s # seqno => fate'[s] = fate[s]
      /\ fate'[seqno] \notin {"first", "forwarded"}
  BY <1>1, <1>2
<1>4. WaitInv' /\ \A s \in Seqs : Ahead(s) \/ s = seqno => Ahead(s)'
  BY <1>1, WaitStep
<1>5. DeliveryInv'
  BY <1>3, <1>4, DeliveryStep
<1>7. ReferenceInv'
  <2>1. seqLast # 0 => numberOf'[seqLast] = numberOf[seqLast] /\ fate'[seqLast] = fate[seqLast]
    BY <1>1, <1>2, <1>3
  <2>2. HasReference' <=> HasReference
    BY <2>1 DEF HasReference, IsOwn
  <2>3. HasReference => numberOf'[seqLast] = numberOf[seqLast] /\ numberOf[seqLast] \in Nat
    BY <2>1, <1>1 DEF HasReference, LinkTypes
  <2>4. ownNo \in Nat /\ ownNo' \in Nat /\ resend = 0
    BY DEF LinkTypes, Numbered, Lengthened
  <2>5. HasReference /\ resend' = 0 /\ ~plugged' => ownNo' - numberOf[seqLast] <= Hidden'
    <3>1. Hidden \in Int /\ Hidden' \in Int
      BY DEF Hidden, LinkTypes
    <3>2. HasReference /\ ~plugged => ownNo - numberOf[seqLast] <= Hidden
      BY <2>4 DEF ReferenceInv
    <3>3. resend' = 0 /\ ~plugged' => ~plugged /\ ownNo' - ownNo <= Hidden' - Hidden
      OBVIOUS
    <3>. SUFFICES ASSUME HasReference, resend' = 0, ~plugged'
                  PROVE  ownNo' - numberOf[seqLast] <= Hidden'
      OBVIOUS
    <3>. QED BY <2>3, <2>4, <3>1, <3>2, <3>3, StillWithin
  <2>6. seqLast # 0 /\ numberOf'[seqLast] = 0 => fate'[seqLast] = "first"
    BY <2>1 DEF ReferenceInv, IsOwn
  <2>7. \A s \in Seqs : fate'[s] \in {"first", "forwarded"} => s <= seqLast
    BY <1>3 DEF ReferenceInv
  <2>8. HasReference => continuityLast = (numberOf'[seqLast] - 1) % 4
    BY <2>3 DEF ReferenceInv
  <2>. QED BY <2>2, <2>3, <2>5, <2>6, <2>7, <2>8 DEF ReferenceInv, IsOwn
<1>. QED BY <1>4, <1>5, <1>7

(* A frame not touched stays as it was sent. *)
LEMMA FrameUntouched ==
  ASSUME IInv, LinkTypes, NumberInv, FrameInv, NEW number, Numbered(number),
         UNCHANGED <<aggPkts, dataframe, seqLast>>
  PROVE  FrameInv'
<1>1. aggPkts \in Seq(Packet) /\ dataframe \in Seq(Packet)
  BY DEF IInv, TypeOK
<1>. QED BY <1>1, WholeKept DEF FrameInv

(* The packet that gives the first reference. *)
LEMMA InitializeStep ==
  ASSUME IInv, LinkTypes, NumberInv, WaitInv, ReferenceInv, FrameInv, DeliveryInv,
         NEW number, Numbered(number), Lengthened,
         NEW p \in Packet, p.seq = seqno, DedupInitialize(p),
         number # 0 => p.hdr.continuity = (number - 1) % 4,
         damaged' \in Nat
  PROVE  WaitInv' /\ ReferenceInv' /\ FrameInv' /\ DeliveryInv'
<1>1. /\ aggPkts \in Seq(Packet) /\ dataframe \in Seq(Packet) /\ fate \in [Seqs -> Fates]
  BY DEF IInv, TypeOK
<1>2. /\ numberOf'[seqno] = number
      /\ seqno \in Nat /\ seqno \in Seqs /\ \A s \in Seqs : s \in Nat
      /\ number # 0 => ownNo' = number
      /\ number \in Nat
  BY NumberedFacts DEF Numbered
<1>3. /\ seqLast = 0 /\ seqLast' = seqno /\ continuityLast' = p.hdr.continuity
      /\ fate' = [fate EXCEPT ![seqno] = "first"]
      /\ plugged' = plugged /\ aggPkts' = aggPkts /\ dataframe' = dataframe
  BY DEF DedupInitialize, SetLast, aggVars
<1>4. /\ \A s \in Seqs : s # seqno => fate'[s] = fate[s]
      /\ fate'[seqno] = "first"
  BY <1>1, <1>2, <1>3
<1>5. WaitInv' /\ \A s \in Seqs : Ahead(s) \/ s = seqno => Ahead(s)'
  BY <1>2, <1>3, WaitStep
<1>6. DeliveryInv'
  BY <1>4, <1>5, DeliveryStep
<1>7. aggPkts = <<>>
  BY <1>3 DEF ReferenceInv, HasReference
<1>8. FrameInv'
  BY <1>1, <1>3, <1>7, WholeKept DEF FrameInv
<1>9. ReferenceInv'
  <2>1. HasReference' <=> seqno # 0 /\ number # 0
    BY <1>2, <1>3 DEF HasReference, IsOwn
  <2>2. Hidden' >= 0
    BY DEF Hidden
  <2>3. number # 0 => ownNo' - number <= Hidden'
    BY <1>2, <2>2
  <2>4. \A s \in Seqs : fate'[s] \in {"first", "forwarded"} => s <= seqno
    <3>1. TAKE s \in Seqs
    <3>2. CASE s = seqno
      BY <3>2, <1>2
    <3>3. CASE s # seqno
      <4>1. fate'[s] = fate[s]
        BY <3>3, <1>4
      <4>2. fate[s] \in {"first", "forwarded"} => s <= 0
        BY <1>3 DEF ReferenceInv
      <4>. QED BY <4>1, <4>2, <1>2
    <3>. QED BY <3>2, <3>3
  <2>. QED BY <2>1, <2>3, <2>4, <1>2, <1>3, <1>4, <1>7 DEF ReferenceInv, IsOwn
<1>. QED BY <1>5, <1>6, <1>8, <1>9

(* The aggregator takes the packet that is next. *)
LEMMA FrameStep ==
  ASSUME TypeOK, NEW no \in [Seqs -> Nat], NEW p \in Packet,
         p.crc, p.hdr = p.sent, p.hdr.addr = OwnAddress, no[p.seq] # 0,
         Whole(aggPkts, no), Whole(dataframe, no),
         aggPkts # <<>> => no[p.seq] = no[aggPkts[Len(aggPkts)].seq] + 1,
         FrameAggregate(p)
  PROVE  /\ Whole(aggPkts', no) /\ Whole(dataframe', no)
         /\ aggPkts' # <<>> => aggPkts'[Len(aggPkts')].seq = p.seq
<1>1. aggPkts \in Seq(Packet) /\ dataframe \in Seq(Packet)
  BY DEF TypeOK
<1>. DEFINE fresh == FrameFirst(p) \/ FrameOneAndOnly(p)
            before == IF fresh THEN <<>> ELSE aggPkts
            collected == Append(before, p)
            ended == FrameLast(p) \/ FrameOneAndOnly(p)
<1>2. /\ aggPkts' = IF ended THEN <<>> ELSE collected
      /\ dataframe' = IF ended /\ FrameFirst(collected[1]) THEN collected ELSE dataframe
  BY DEF FrameAggregate, AggregatorInput
<1>3. /\ before \in Seq(Packet) /\ Whole(before, no)
      /\ before # <<>> => no[p.seq] = no[before[Len(before)].seq] + 1
  BY <1>1 DEF Whole
<1>. HIDE DEF before
<1>4. /\ collected \in Seq(Packet) /\ Len(collected) = Len(before) + 1 /\ Len(before) \in Nat
      /\ \A i \in 1..Len(before) : collected[i] = before[i]
      /\ collected[Len(before) + 1] = p
  BY <1>3, AppendFacts
<1>. HIDE DEF collected
<1>5. \A i \in 1..Len(before) : no[before[i].seq] \in Nat
  <2>1. TAKE i \in 1..Len(before)
  <2>2. before[i] \in Packet
    BY <1>3
  <2>. QED BY <2>2 DEF Packet
<1>6. Whole(collected, no)
  <2>1. CASE Len(before) = 0
    <3>1. Len(collected) = 1 /\ collected[1] = p
      BY <2>1, <1>4
    <3>2. no[p.seq] \in Nat
      BY DEF Packet
    <3>. QED BY <3>1, <3>2 DEF Whole
  <2>2. CASE Len(before) # 0
    <3>1. /\ before # <<>> /\ 1 \in 1..Len(before) /\ Len(before) \in 1..Len(before)
          /\ collected[1] = before[1]
      BY <2>2, <1>3, <1>4
    <3>2. no[before[Len(before)].seq] = no[before[1].seq] + Len(before) - 1
      BY <3>1, <1>3 DEF Whole
    <3>3. no[p.seq] = no[before[1].seq] + (Len(before) + 1) - 1
      BY <3>1, <3>2, <1>3, <1>4, <1>5, SMTT(40)
    <3>4. ASSUME NEW i \in 1..Len(collected)
          PROVE  /\ collected[i].crc
                 /\ collected[i].hdr = collected[i].sent
                 /\ no[collected[i].seq] # 0
                 /\ no[collected[i].seq] = no[collected[1].seq] + i - 1
      <4>1. CASE i = Len(before) + 1
        BY <4>1, <3>1, <3>3, <1>4
      <4>2. CASE i # Len(before) + 1
        <5>1. i \in 1..Len(before) /\ collected[i] = before[i]
          BY <4>2, <1>4
        <5>. QED BY <5>1, <3>1, <1>3 DEF Whole
      <4>. QED BY <4>1, <4>2
    <3>. QED BY <3>4 DEF Whole
  <2>. QED BY <2>1, <2>2
<1>7. collected[Len(collected)].seq = p.seq
  BY <1>4
<1>8. Whole(<<>>, no)
  BY DEF Whole
<1>. HIDE DEF ended
<1>. QED BY <1>2, <1>6, <1>7, <1>8

(* A packet forwarded on arrival is the own packet after the last one      *)
(* forwarded: were others between them hidden, there would have to be      *)
(* four, or eight.                                                         *)
LEMMA ForwardStep ==
  ASSUME OneComponent, IInv, LinkTypes, NumberInv, WaitInv, ReferenceInv, FrameInv, DeliveryInv,
         NEW number, Numbered(number), Lengthened,
         NEW p \in Packet, p.seq = seqno, ~p.handled, DedupForward(p),
         p.crc, p.hdr = p.sent, Counted(number, p.sent), p.hdr.addr # PadAddress,
         damaged' \in Nat
  PROVE  WaitInv' /\ ReferenceInv' /\ FrameInv' /\ DeliveryInv'
<1>1. /\ aggPkts \in Seq(Packet) /\ dataframe \in Seq(Packet) /\ fate \in [Seqs -> Fates]
      /\ seqLast \in Nat /\ (seqLast # 0 => seqLast < seqno /\ seqLast \in Seqs)
  BY Numbers DEF IInv, TypeOK, ForwardedInv
<1>2. /\ numberOf'[seqno] = number
      /\ \A s \in Seqs : s # seqno => numberOf'[s] = numberOf[s]
      /\ seqno \in Nat /\ seqno \in Seqs
      /\ \A s \in Seqs : s \in Nat /\ numberOf[s] \in Nat
      /\ numberOf' \in [Seqs -> Nat]
  BY NumberedFacts DEF Numbered, LinkTypes
<1>3. /\ number # 0 /\ p.hdr.addr = OwnAddress /\ p.hdr.continuity = (number - 1) % 4
      /\ number = ownNo + 1 /\ ownNo' = number /\ ownNo \in Nat /\ number - 1 = ownNo
  BY DEF Counted, Numbered, LinkTypes
<1>4. /\ seqLast # 0 /\ resend = 0 /\ ~plugged
      /\ p.hdr.continuity = (continuityLast + 1) % 4
      /\ seqLast' = seqno /\ continuityLast' = p.hdr.continuity
      /\ plugged' = FALSE /\ FrameAggregate(p)
      /\ fate' = [fate EXCEPT ![seqno] = "forwarded"]
  BY DEF DedupForward, Accepted, Expected, Next4, SetLast, Lengthened
<1>5. /\ \A s \in Seqs : s # seqno => fate'[s] = fate[s]
      /\ fate'[seqno] = "forwarded"
  BY <1>1, <1>2, <1>4
<1>6. HasReference => numberOf[seqLast] = ownNo
  <2>. SUFFICES ASSUME HasReference PROVE numberOf[seqLast] = ownNo
    OBVIOUS
  <2>1. /\ continuityLast = (numberOf[seqLast] - 1) % 4
        /\ ownNo - numberOf[seqLast] <= Hidden
    BY <1>4 DEF ReferenceInv
  <2>2. numberOf[seqLast] \in Nat /\ numberOf[seqLast] >= 1 /\ numberOf[seqLast] <= ownNo
    BY <1>1, <1>2, <1>4 DEF HasReference, IsOwn, NumberInv
  <2>3. Hidden <= 3 /\ Hidden \in Int
    BY LinkAssumption DEF Hidden, OneComponent, LinkTypes
  <2>4. ownNo - numberOf[seqLast] <= 3
    BY <2>1, <2>2, <2>3, <1>3
  <2>5. ownNo % 4 = (((numberOf[seqLast] - 1) % 4) + 1) % 4
    BY <2>1, <1>3, <1>4
  <2>. QED BY <2>2, <2>4, <2>5, <1>3, Modulo
<1>7. WaitInv' /\ \A s \in Seqs : Ahead(s) \/ s = seqno => Ahead(s)'
  BY <1>1, <1>2, <1>4, WaitStep
<1>8. OwnReference => \A s \in Seqs : IsOwn(s) => s <= seqLast
  <2>. SUFFICES ASSUME OwnReference, NEW s \in Seqs, IsOwn(s) PROVE s <= seqLast
    OBVIOUS
  <2>1. seqLast \in 0..(seqno - 1)
    BY <1>1, <1>2, <1>4
  <2>2. HasReference
    BY <2>1, <1>4 DEF OwnReference, ReferenceInv, HasReference
  <2>3. numberOf[s] <= numberOf[seqLast]
    BY <2>2, <1>6 DEF NumberInv
  <2>4. s > seqLast => numberOf[seqLast] < numberOf[s]
    BY <2>2, <1>1 DEF HasReference, NumberInv
  <2>5. s \in Nat /\ numberOf[s] \in Nat /\ seqLast \in Nat /\ numberOf[seqLast] \in Nat
    BY <1>1, <1>2, <1>4
  <2>. QED BY <2>3, <2>4, <2>5
<1>9. DeliveryInv'
  BY <1>4, <1>5, <1>7, <1>8, DeliveryStep
<1>10. FrameInv'
  <2>1. Whole(aggPkts, numberOf') /\ Whole(dataframe, numberOf')
    BY <1>1, WholeKept DEF FrameInv
  <2>2. aggPkts # <<>> => numberOf'[p.seq] = numberOf'[aggPkts[Len(aggPkts)].seq] + 1
    <3>1. aggPkts # <<>> => HasReference /\ aggPkts[Len(aggPkts)].seq = seqLast
      BY DEF ReferenceInv, FrameInv
    <3>2. HasReference => numberOf'[seqLast] = ownNo
      BY <1>1, <1>2, <1>4, <1>6
    <3>. QED BY <3>1, <3>2, <1>2, <1>3
  <2>3. /\ Whole(aggPkts', numberOf') /\ Whole(dataframe', numberOf')
        /\ aggPkts' # <<>> => aggPkts'[Len(aggPkts')].seq = p.seq
    BY <2>1, <2>2, <1>2, <1>3, <1>4, FrameStep DEF IInv
  <2>. QED BY <2>3, <1>4 DEF FrameInv
<1>11. ReferenceInv'
  <2>1. seqno # 0
    BY <1>1, <1>2, <1>4
  <2>2. Hidden' >= 0
    BY DEF Hidden
  <2>3. ownNo' - number <= Hidden'
    BY <1>3, <2>2
  <2>4. \A s \in Seqs : fate'[s] \in {"first", "forwarded"} => s <= seqno
    <3>1. TAKE s \in Seqs
    <3>2. CASE s = seqno
      BY <3>2, <1>2
    <3>3. CASE s # seqno
      <4>1. fate'[s] \in {"first", "forwarded"} => s <= seqLast
        BY <3>3, <1>5 DEF ReferenceInv
      <4>. QED BY <4>1, <1>1, <1>2, <1>4
    <3>. QED BY <3>2, <3>3
  <2>. QED BY <2>1, <2>3, <2>4, <1>2, <1>3, <1>4 DEF ReferenceInv, HasReference, IsOwn
<1>. QED BY <1>7, <1>9, <1>10, <1>11

(* A data packet is received. *)
LEMMA DataStep ==
  ASSUME OneComponent, IInv, LinkTypes, LinkInv,
         NEW hdr \in Header, NEW h \in Header, NEW crc \in BOOLEAN, NEW number \in Nat,
         DataReceived(hdr, h, crc, number)
  PROVE  LinkInv'
<1>. DEFINE r == [hdr |-> hdr, sent |-> h, crc |-> crc, size |-> 1]
            p == LinkPacket(hdr, h, crc)
<1>1. /\ resend = 0 /\ txSize < FecDataSize
      /\ txSize' = txSize + 1 /\ txFec' = txFec
      /\ number = 0 \/ number = ownNo + 1
      /\ ownNo' = IF number = 0 THEN ownNo ELSE number
      /\ txCont'[OwnAddress] = ownNo' % 4
      /\ Counted(number, h)
      /\ hdr.addr # FecAddress
      /\ crc => hdr = h
      /\ hdr.continuity = h.continuity
      /\ damaged' = IF crc THEN damaged ELSE damaged + 1
      /\ number # 0 /\ hdr.addr = PadAddress => Hides /\ ~crc
      /\ numberOf' = [numberOf EXCEPT ![seqno] = number]
      /\ ArriveData(p) \/ ArriveOther(p)
  BY DEF DataReceived
<1>2. GroupInv /\ NumberInv /\ WaitInv /\ ReferenceInv /\ FrameInv /\ DeliveryInv
  BY DEF LinkInv
<1>3. Arriving /\ fecApplied /\ FecStore(p)
  BY <1>1 DEF ArriveData, ArriveOther
<1>4. /\ p \in Packet /\ p.seq = seqno /\ ~p.handled /\ seqno \in Seqs
      /\ seqno' = seqno + 1
  <2>1. r \in Reception
    BY DEF Reception
  <2>2. /\ Received(r) \in Packet /\ Received(r).seq = seqno
        /\ ~Received(r).handled /\ seqno \in Seqs
    BY <2>1, <1>3, ReceivedType DEF IInv
  <2>. QED BY <2>2, <1>3 DEF LinkPacket, Arriving
<1>5. p.hdr = hdr /\ p.sent = h /\ p.crc = crc /\ p.size = 1
  BY DEF LinkPacket, Received
<1>. HIDE DEF p
<1>6. Numbered(number)
  BY <1>1, <1>4 DEF Numbered
<1>7. Buffered(p, TRUE, number)
  BY <1>1, <1>5 DEF Buffered, IsFec
<1>8. GroupInv' /\ Lengthened
  BY <1>1, <1>2, <1>3, <1>4, <1>6, <1>7, StoredStep
<1>9. NumberInv'
  BY <1>1, <1>2, <1>6, NumberStep
<1>10. damaged \in Nat /\ damaged' \in Nat /\ ownNo \in Nat
  BY <1>1 DEF LinkTypes
<1>11. ASSUME UNCHANGED <<seqLast, continuityLast, aggPkts, dataframe>>,
              NEW f \in Fates \ {"first", "forwarded"}, fate' = [fate EXCEPT ![seqno] = f],
              plugged' \/ (plugged' = plugged /\ hdr.addr = PadAddress)
       PROVE  WaitInv' /\ ReferenceInv' /\ FrameInv' /\ DeliveryInv'
  <2>1. hdr.addr = PadAddress => ownNo' - ownNo <= Hidden' - Hidden
    BY <1>1, <1>10 DEF Hidden
  <2>2. resend' = 0 /\ ~plugged' => ~plugged /\ ownNo' - ownNo <= Hidden' - Hidden
    BY <2>1, <1>11
  <2>3. FrameInv'
    BY <1>2, <1>6, <1>11, FrameUntouched
  <2>. QED BY <2>2, <2>3, <1>2, <1>6, <1>8, <1>10, <1>11, WaitingStep
<1>12. CASE ArriveOther(p)
  <2>1. /\ ~IsData(p) /\ fate' = [fate EXCEPT ![seqno] = "ignored"]
        /\ UNCHANGED <<plugged, seqLast, continuityLast, aggPkts, dataframe>>
    BY <1>4, <1>12 DEF ArriveOther, dedupVars, aggVars
  <2>2. hdr.addr = PadAddress
    BY <2>1, <1>1, <1>5 DEF IsData, IsFec, IsPadding
  <2>3. "ignored" \in Fates \ {"first", "forwarded"}
    BY DEF Fates
  <2>. QED BY <2>1, <2>2, <2>3, <1>8, <1>9, <1>11 DEF LinkInv
<1>13. CASE ArriveData(p)
  <2>1. IsData(p) /\ PacketDeduplicate(p)
    BY <1>13 DEF ArriveData
  <2>2. hdr.addr # PadAddress
    BY <2>1, <1>5 DEF IsData, IsPadding
  <2>3. CASE DedupInitialize(p)
    <3>1. number # 0 => p.hdr.continuity = (number - 1) % 4
      BY <1>1, <1>5 DEF Counted
    <3>2. WaitInv' /\ ReferenceInv' /\ FrameInv' /\ DeliveryInv'
      BY <2>3, <3>1, <1>2, <1>4, <1>6, <1>8, <1>10, InitializeStep
    <3>. QED BY <3>2, <1>8, <1>9 DEF LinkInv
  <2>4. ~DedupOld(p)
    <3>1. seqLast # 0 => seqLast < seqno
      BY DEF IInv, ForwardedInv
    <3>2. seqLast \in Nat /\ seqno \in Nat
      BY <1>4, SeqsNat, Numbers DEF IInv
    <3>. QED BY <3>1, <3>2, <1>4 DEF DedupOld, Old
  <2>5. CASE DedupForward(p)
    <3>1. crc
      BY <2>5, <1>4, <1>5 DEF DedupForward, Accepted, Expected
    <3>2. p.crc /\ p.hdr = p.sent /\ Counted(number, p.sent) /\ p.hdr.addr # PadAddress
      BY <3>1, <2>2, <1>1, <1>5
    <3>3. WaitInv' /\ ReferenceInv' /\ FrameInv' /\ DeliveryInv'
      BY <2>5, <3>2, <1>2, <1>4, <1>6, <1>8, <1>10, ForwardStep
    <3>. QED BY <3>3, <1>8, <1>9 DEF LinkInv
  <2>6. CASE DedupPlug(p)
    <3>1. /\ plugged' /\ fate' = [fate EXCEPT ![seqno] = "pending"]
          /\ UNCHANGED <<seqLast, continuityLast, aggPkts, dataframe>>
      BY <2>6, <1>4 DEF DedupPlug, aggVars
    <3>2. "pending" \in Fates \ {"first", "forwarded"}
      BY DEF Fates
    <3>. QED BY <3>1, <3>2, <1>8, <1>9, <1>11 DEF LinkInv
  <2>. QED BY <2>1, <2>3, <2>4, <2>5, <2>6 DEF PacketDeduplicate
<1>. QED BY <1>1, <1>12, <1>13

(* FEC packets are received: one within a group, and the last one.         *)
LEMMA FecStep ==
  ASSUME IInv, LinkTypes, LinkInv,
         NEW n \in 0..FecMaxFecPkt, NEW p, p = LinkPacket(FecHeader(n), FecHeader(n), TRUE),
         FecReceived(p) \/ GroupDecoded(p)
  PROVE  LinkInv'
<1>1. /\ IsFec(p) /\ ~IsData(p) /\ p.crc /\ p.hdr = p.sent /\ p.size = 1
  BY FecPacket
<1>2. GroupInv /\ NumberInv /\ WaitInv /\ ReferenceInv /\ FrameInv /\ DeliveryInv
  BY DEF LinkInv
<1>3. /\ Arriving /\ ownNo' = ownNo /\ txCont' = txCont
      /\ numberOf' = [numberOf EXCEPT ![seqno] = 0]
      /\ UNCHANGED <<plugged, seqLast, continuityLast, dataframe>>
  BY DEF FecReceived, GroupDecoded, ArriveOther, dedupVars, aggVars
<1>4. /\ p \in Packet /\ p.seq = seqno /\ ~p.handled /\ seqno \in Seqs
      /\ seqno' = seqno + 1
  <2>. DEFINE r == [hdr |-> FecHeader(n), sent |-> FecHeader(n), crc |-> TRUE, size |-> 1]
  <2>1. r \in Reception
    BY SentHeaders DEF Reception
  <2>2. /\ Received(r) \in Packet /\ Received(r).seq = seqno
        /\ ~Received(r).handled /\ seqno \in Seqs
    BY <2>1, <1>3, ReceivedType DEF IInv
  <2>. QED BY <2>2, <1>3 DEF LinkPacket, Arriving
<1>5. Numbered(0)
  BY <1>3, <1>4 DEF Numbered
<1>6. NumberInv'
  BY <1>2, <1>3, <1>5, NumberStep DEF NumberInv
<1>7. /\ GroupInv' /\ Lengthened /\ damaged' \in Nat
      /\ fate' = [fate EXCEPT ![seqno] = "ignored"]
      /\ resend' = 0 => ownNo' - ownNo <= Hidden' - Hidden
      /\ FrameInv' /\ (aggPkts = <<>> => aggPkts' = <<>>)
  <2>0. ownNo \in Nat /\ damaged \in Nat
    BY DEF LinkTypes
  <2>1. CASE FecReceived(p)
    <3>1. /\ FecStore(p) /\ txSize = FecDataSize /\ txSize' = txSize /\ txFec' = txFec + 1
          /\ fate' = [fate EXCEPT ![seqno] = "ignored"] /\ damaged' = damaged
      BY <2>1, <1>4 DEF FecReceived, ArriveOther
    <3>2. Buffered(p, FALSE, 0)
      BY <1>1 DEF Buffered
    <3>3. GroupInv' /\ Lengthened
      BY <3>1, <3>2, <1>2, <1>3, <1>4, <1>5, StoredStep
    <3>4. ownNo' - ownNo <= Hidden' - Hidden
      BY <3>1, <2>0, <1>3 DEF Hidden
    <3>5. aggPkts' = aggPkts
      BY <2>1 DEF FecReceived, ArriveOther, aggVars
    <3>6. FrameInv'
      BY <3>5, <1>2, <1>3, <1>5, FrameUntouched
    <3>. QED BY <3>1, <3>3, <3>4, <3>5, <3>6, <2>0
  <2>2. CASE GroupDecoded(p)
    <3>1. /\ GroupInv' /\ Lengthened /\ resend' = 1 /\ pkts' \in Seq(Packet)
          /\ fate' = [fate EXCEPT ![seqno] = "ignored"]
      BY <2>2, <1>1, <1>2, <1>4, <1>5, DecodedStep
    <3>2. damaged' = 0
      BY <2>2 DEF GroupDecoded
    <3>3. aggPkts' = SharedWith(aggPkts, pkts')
      BY <2>2 DEF GroupDecoded
    <3>4. FrameInv' /\ (aggPkts = <<>> => aggPkts' = <<>>)
      BY <3>1, <3>3, <1>2, <1>3, <1>5, HeldDecoded
    <3>. QED BY <3>1, <3>2, <3>4
  <2>. QED BY <2>1, <2>2
<1>8. "ignored" \in Fates \ {"first", "forwarded"}
  BY DEF Fates
<1>9. WaitInv' /\ ReferenceInv' /\ DeliveryInv'
  BY <1>2, <1>3, <1>5, <1>7, <1>8, WaitingStep
<1>. QED BY <1>6, <1>7, <1>9 DEF LinkInv

-----------------------------------------------------------------------------
(***************************************************************************)
(* The loop that sends the buffer again.                                   *)
(***************************************************************************)

(* What a turn of the loop over the buffer does with the packet: one of    *)
(* padding or FEC at most withdraws it, an own one is forwarded unless it  *)
(* was before.                                                             *)
ResendOutcome(p) ==
  /\ \A s \in Seqs : s # p.seq => fate'[s] = fate[s]
  /\ \A s \in Seqs : fate[s] = "first" => fate'[s] = "first"
  /\ \A s \in Seqs : fate[s] = "forwarded" => fate'[s] \in {"first", "forwarded"}
  /\ \/ /\ UNCHANGED <<seqLast, continuityLast, aggPkts, dataframe>>
        /\ fate'[p.seq] \in {"first", "forwarded"} => fate'[p.seq] = fate[p.seq]
        /\ ~IsOwn(p.seq) \/ (p.seq <= seqLast /\ seqLast # 0)
     \/ /\ IsOwn(p.seq) /\ fate'[p.seq] \in {"first", "forwarded"}
        /\ seqLast' = p.seq /\ continuityLast' = p.hdr.continuity
        /\ \/ seqLast = 0 /\ UNCHANGED <<aggPkts, dataframe>>
           \/ seqLast # 0 /\ seqLast < p.seq /\ FrameAggregate(p)

(* These are all the outcomes: the packets sent again are handled, so none *)
(* plugs the stream, and after decoding each is what was sent.             *)
LEMMA ResendCases ==
  ASSUME IInv, LinkTypes, LinkInv, ResendStep, NEW p, p = pkts[resend]
  PROVE  /\ p \in Packet /\ p.seq \in Seqs /\ ResendOutcome(p)
         /\ IsOwn(p.seq) => /\ p.crc /\ p.hdr = p.sent /\ p.hdr.addr = OwnAddress
                            /\ p.hdr.continuity = (numberOf[p.seq] - 1) % 4
<1>1. /\ resend \in 1..Len(pkts) /\ resend # 0
      /\ IF IsData(p) THEN PacketDeduplicate(p)
         ELSE /\ fate' = [fate EXCEPT ![p.seq] = IF @ = "pending" THEN "withdrawn" ELSE @]
              /\ UNCHANGED <<plugged, seqLast, continuityLast, aggPkts, dataframe>>
  BY DEF ResendStep, dedupVars, aggVars
<1>2. /\ p \in Packet /\ p.seq \in Seqs /\ p.seq \in Nat /\ p.handled
      /\ seqLast \in Nat /\ fate \in [Seqs -> Fates]
  BY <1>1, Numbers, SeqsNat DEF IInv, BufferInv, TypeOK
<1>3. /\ Buffered(p, resend <= FecDataSize, numberOf[p.seq])
      /\ resend <= FecDataSize => p.crc
  BY <1>1 DEF LinkInv, GroupInv, DataCount
<1>4. /\ IsOwn(p.seq) => /\ p.crc /\ p.hdr = p.sent /\ p.hdr.addr = OwnAddress
                         /\ p.hdr.continuity = (numberOf[p.seq] - 1) % 4
      /\ IsData(p) <=> IsOwn(p.seq)
  <2>1. OwnAddress # PadAddress /\ OwnAddress # FecAddress
    BY AddressAssumption DEF PadAddress, FecAddress
  <2>2. CASE resend <= FecDataSize
    BY <2>1, <2>2, <1>3 DEF Buffered, Counted, IsOwn, IsData, IsFec, IsPadding
  <2>3. CASE ~(resend <= FecDataSize)
    BY <2>3, <1>3 DEF Buffered, IsOwn, IsData
  <2>. QED BY <2>2, <2>3
<1>5. \A s \in Seqs : fate[s] \in {"first", "forwarded"} => s <= seqLast
  BY DEF LinkInv, ReferenceInv
<1>6. ASSUME NEW f, fate' = [fate EXCEPT ![p.seq] = f]
      PROVE  fate'[p.seq] = f /\ \A s \in Seqs : s # p.seq => fate'[s] = fate[s]
  BY <1>2, <1>6
<1>7. CASE ~IsData(p)
  <2>1. /\ fate' = [fate EXCEPT ![p.seq] =
                      IF fate[p.seq] = "pending" THEN "withdrawn" ELSE fate[p.seq]]
        /\ UNCHANGED <<seqLast, continuityLast, aggPkts, dataframe>>
    BY <1>1, <1>7
  <2>. QED BY <2>1, <1>2, <1>4, <1>6, <1>7 DEF ResendOutcome
<1>8. CASE DedupInitialize(p) /\ IsData(p)
  <2>1. /\ fate' = [fate EXCEPT ![p.seq] = "first"] /\ seqLast = 0 /\ seqLast' = p.seq
        /\ continuityLast' = p.hdr.continuity /\ UNCHANGED <<aggPkts, dataframe>>
    BY <1>8 DEF DedupInitialize, SetLast, aggVars
  <2>. QED BY <2>1, <1>2, <1>4, <1>6, <1>8 DEF ResendOutcome
<1>9. CASE DedupOld(p) /\ IsData(p)
  <2>1. /\ fate' = [fate EXCEPT ![p.seq] =
                      IF fate[p.seq] \in {"ignored", "pending"} THEN "overtaken"
                      ELSE fate[p.seq]]
        /\ UNCHANGED <<seqLast, continuityLast, aggPkts, dataframe>>
        /\ seqLast # 0 /\ p.seq <= seqLast
    BY <1>9 DEF DedupOld, Old, dedupVars, aggVars
  <2>. QED BY <2>1, <1>2, <1>4, <1>6, <1>9 DEF ResendOutcome
<1>10. CASE DedupForward(p) /\ IsData(p)
  <2>1. /\ fate' = [fate EXCEPT ![p.seq] = "forwarded"]
        /\ seqLast' = p.seq /\ continuityLast' = p.hdr.continuity
        /\ seqLast # 0 /\ seqLast < p.seq /\ FrameAggregate(p)
    BY <1>2, <1>10 DEF DedupForward, SetLast, Old
  <2>2. fate[p.seq] \notin {"first", "forwarded"}
    BY <2>1, <1>2, <1>5
  <2>. QED BY <2>1, <2>2, <1>2, <1>4, <1>6, <1>10 DEF ResendOutcome
<1>11. ~DedupPlug(p)
  BY <1>2 DEF DedupPlug, Accepted
<1>12. ResendOutcome(p)
  BY <1>1, <1>7, <1>8, <1>9, <1>10, <1>11 DEF PacketDeduplicate
<1>. QED BY <1>2, <1>4, <1>12

(* A turn of the loop. *)
LEMMA LoopStep ==
  ASSUME IInv, LinkTypes, LinkInv, ResendStep, UNCHANGED <<txVars, channelVars>>
  PROVE  LinkInv'
<1>. DEFINE p == pkts[resend]
<1>1. /\ p \in Packet /\ p.seq \in Seqs /\ ResendOutcome(p)
      /\ IsOwn(p.seq) => /\ p.crc /\ p.hdr = p.sent /\ p.hdr.addr = OwnAddress
                         /\ p.hdr.continuity = (numberOf[p.seq] - 1) % 4
  BY ResendCases
<1>2. /\ resend \in 1..Len(pkts) /\ resend' = resend + 1 /\ resend # 0 /\ resend' # 0
      /\ UNCHANGED <<seqno, fecApplied, pkts, txSize, txFec, txCont, ownNo, damaged, numberOf>>
  BY DEF ResendStep, txVars, channelVars
<1>3. GroupInv /\ NumberInv /\ WaitInv /\ ReferenceInv /\ FrameInv /\ DeliveryInv
  BY DEF LinkInv
<1>4. /\ seqLast \in Nat /\ seqLast \in Seqs \cup {0} /\ (seqLast # 0 => seqLast \in 0..(seqno - 1))
      /\ \A s \in Seqs : s \in Nat /\ numberOf[s] \in Nat
      /\ p.seq \in Nat /\ aggPkts \in Seq(Packet) /\ dataframe \in Seq(Packet)
      /\ ownNo \in Nat /\ numberOf \in [Seqs -> Nat]
  <2>1. /\ seqLast \in Nat /\ seqLast \in Seqs \cup {0} /\ seqno \in Nat
        /\ seqLast # 0 => seqLast < seqno
        /\ aggPkts \in Seq(Packet) /\ dataframe \in Seq(Packet)
    BY Numbers DEF IInv, TypeOK, ForwardedInv
  <2>2. /\ \A s \in Seqs : s \in Nat /\ numberOf[s] \in Nat
        /\ ownNo \in Nat /\ numberOf \in [Seqs -> Nat]
    BY SeqsNat DEF LinkTypes
  <2>3. p.seq \in Seqs
    BY <1>1
  <2>4. seqLast # 0 => seqLast \in 0..(seqno - 1)
    BY <2>1
  <2>. HIDE DEF p
  <2>5. p.seq \in Nat
    BY <2>2, <2>3
  <2>. QED BY <2>1, <2>2, <2>4, <2>5
<1>5. \A s \in Seqs : Ahead(s) /\ s # p.seq =>
        s > p.seq /\ \E i \in 1..Len(pkts) : resend' <= i /\ pkts[i].seq = s
  <2>1. TAKE s \in Seqs
  <2>2. HAVE Ahead(s) /\ s # p.seq
  <2>3. PICK i \in 1..Len(pkts) : resend <= i /\ pkts[i].seq = s
    BY <2>2 DEF Ahead
  <2>4. i > resend
    BY <2>2, <2>3, <1>2
  <2>5. s > p.seq
    BY <2>3, <2>4, <1>2 DEF IInv, BufferInv
  <2>6. resend' <= i
    BY <2>4, <1>2
  <2>. QED BY <2>3, <2>5, <2>6
<1>. HIDE DEF p
<1>6. GroupInv' /\ NumberInv'
  BY <1>2, <1>3 DEF GroupInv, DataCount, NumberInv, IsOwn
<1>7. seqLast' \in {seqLast, p.seq} /\ seqLast' >= seqLast
  BY <1>1, <1>4 DEF ResendOutcome
<1>8. IsOwn(p.seq) => p.seq <= seqLast'
  BY <1>1, <1>4 DEF ResendOutcome
<1>9. WaitInv'
  <2>1. \A s \in Seqs : numberOf[s] # 0 =>
          s <= seqLast' \/ \E i \in 1..Len(pkts) : resend' <= i /\ pkts[i].seq = s
    <3>1. TAKE s \in Seqs
    <3>2. HAVE numberOf[s] # 0
    <3>3. s <= seqLast \/ Ahead(s)
      BY <3>2, <1>3 DEF WaitInv, IsOwn
    <3>4. CASE s <= seqLast
      BY <3>4, <1>4, <1>7
    <3>5. CASE Ahead(s) /\ s # p.seq
      BY <3>5, <1>5
    <3>6. CASE s = p.seq
      BY <3>2, <3>6, <1>8 DEF IsOwn
    <3>. QED BY <3>3, <3>4, <3>5, <3>6
  <2>. QED BY <2>1, <1>2 DEF WaitInv, IsOwn, Ahead
<1>10. DeliveryInv'
  <2>. SUFFICES ASSUME OwnReference', NEW s \in Seqs, numberOf[s] # 0
                PROVE  \/ fate'[s] = "forwarded"
                       \/ \E t \in s..(seqno - 1) : fate'[t] = "first"
                       \/ /\ \E i \in 1..Len(pkts) : resend' <= i /\ pkts[i].seq = s
                          /\ s > seqLast' \/ seqLast' = 0
    BY <1>2 DEF DeliveryInv, Settled, IsOwn, Ahead
  <2>1. \A t \in 0..(seqno - 1) : t \in Seqs
    BY <1>4, Numbers DEF IInv, TypeOK, Seqs
  <2>2. \A t \in 0..(seqno - 1) : fate[t] = "first" => fate'[t] = "first"
    BY <2>1, <1>1 DEF ResendOutcome
  <2>3. OwnReference
    BY <2>2, <1>2 DEF OwnReference, IsOwn
  <2>4. Settled(s) \/ (Ahead(s) /\ (s > seqLast \/ seqLast = 0))
    BY <2>3, <1>3 DEF DeliveryInv, IsOwn
  <2>5. s \in s..(seqno - 1)
    BY <1>3, <1>4, Numbers, SMTT(40) DEF NumberInv, IsOwn, IInv
  <2>6. CASE Settled(s)
    <3>1. CASE fate[s] = "forwarded"
      <4>1. fate'[s] \in {"first", "forwarded"}
        BY <3>1, <1>1 DEF ResendOutcome
      <4>. QED BY <4>1, <2>5
    <3>2. CASE \E t \in s..(seqno - 1) : fate[t] = "first"
      <4>1. \A t \in s..(seqno - 1) : t \in 0..(seqno - 1)
        BY <1>4
      <4>. QED BY <3>2, <4>1, <2>2
    <3>. QED BY <2>6, <3>1, <3>2 DEF Settled
  <2>7. CASE Ahead(s) /\ (s > seqLast \/ seqLast = 0) /\ s # p.seq
    <3>1. s > p.seq /\ \E i \in 1..Len(pkts) : resend' <= i /\ pkts[i].seq = s
      BY <2>7, <1>5
    <3>. QED BY <3>1, <2>7, <1>7
  <2>8. CASE (s > seqLast \/ seqLast = 0) /\ s = p.seq
    <3>1. ~(p.seq <= seqLast /\ seqLast # 0)
      BY <2>8, <1>4
    <3>2. fate'[s] \in {"first", "forwarded"}
      BY <3>1, <2>8, <1>1 DEF ResendOutcome, IsOwn
    <3>. QED BY <3>2, <2>5
  <2>. QED BY <2>4, <2>6, <2>7, <2>8
<1>11. CASE /\ UNCHANGED <<seqLast, continuityLast, aggPkts, dataframe>>
            /\ fate'[p.seq] \in {"first", "forwarded"} => fate'[p.seq] = fate[p.seq]
  <2>1. FrameInv'
    BY <1>2, <1>3, <1>11 DEF FrameInv
  <2>2. seqLast # 0 /\ fate[seqLast] = "first" => fate'[seqLast] = "first"
    BY <1>1, <1>4 DEF ResendOutcome
  <2>3. \A s \in Seqs : fate'[s] \in {"first", "forwarded"} => fate'[s] = fate[s]
    BY <1>1, <1>11 DEF ResendOutcome
  <2>4. ReferenceInv'
    BY <2>2, <2>3, <1>2, <1>3, <1>11 DEF ReferenceInv, HasReference, IsOwn
  <2>. QED BY <2>1, <2>4, <1>6, <1>9, <1>10 DEF LinkInv
<1>12. CASE /\ IsOwn(p.seq) /\ fate'[p.seq] \in {"first", "forwarded"}
            /\ seqLast' = p.seq /\ continuityLast' = p.hdr.continuity
            /\ \/ seqLast = 0 /\ UNCHANGED <<aggPkts, dataframe>>
               \/ seqLast # 0 /\ seqLast < p.seq /\ FrameAggregate(p)
  <2>1. /\ Whole(aggPkts', numberOf) /\ Whole(dataframe', numberOf)
        /\ aggPkts' # <<>> => aggPkts'[Len(aggPkts')].seq = p.seq
        /\ p.seq = 0 => aggPkts' = <<>>
    <3>1. CASE seqLast = 0 /\ UNCHANGED <<aggPkts, dataframe>>
      <4>1. aggPkts = <<>>
        BY <3>1, <1>3 DEF ReferenceInv, HasReference
      <4>. QED BY <3>1, <4>1, <1>3 DEF FrameInv
    <3>2. CASE seqLast # 0 /\ seqLast < p.seq /\ FrameAggregate(p)
      <4>1. HasReference => numberOf[p.seq] = numberOf[seqLast] + 1
        <5>. SUFFICES ASSUME HasReference PROVE numberOf[p.seq] = numberOf[seqLast] + 1
          OBVIOUS
        <5>. DEFINE n == numberOf[seqLast] + 1
        <5>1. seqLast \in Seqs /\ numberOf[seqLast] # 0 /\ numberOf[p.seq] # 0
          BY <3>2, <1>4, <1>12 DEF HasReference, IsOwn
        <5>2. numberOf[seqLast] < numberOf[p.seq] /\ numberOf[p.seq] <= ownNo
          BY <5>1, <3>2, <1>1, <1>3 DEF NumberInv, IsOwn
        <5>3. n \in 1..ownNo
          BY <5>1, <5>2, <1>1, <1>4
        <5>4. PICK s \in Seqs : numberOf[s] = n
          BY <5>3, <1>3 DEF NumberInv
        <5>5. numberOf[s] # 0 /\ numberOf[seqLast] < numberOf[s]
          BY <5>1, <5>4, <1>4
        <5>6. ~(s <= seqLast)
          <6>1. s < seqLast => numberOf[s] < numberOf[seqLast]
            BY <5>1, <5>5, <1>3 DEF NumberInv, IsOwn
          <6>2. numberOf[s] \in Nat /\ numberOf[seqLast] \in Nat /\ s \in Nat
            BY <5>1, <1>4
          <6>. QED BY <6>1, <6>2, <5>5, <1>4
        <5>7. Ahead(s)
          BY <5>5, <5>6, <1>3 DEF WaitInv, IsOwn
        <5>8. s = p.seq \/ s > p.seq
          BY <5>7, <1>5
        <5>9. s > p.seq => numberOf[p.seq] < numberOf[s]
          BY <5>1, <5>5, <1>1, <1>3 DEF NumberInv, IsOwn
        <5>10. numberOf[s] \in Nat /\ numberOf[p.seq] \in Nat /\ numberOf[seqLast] \in Nat
          BY <5>1, <1>1, <1>4
        <5>. QED BY <5>2, <5>4, <5>8, <5>9, <5>10
      <4>2. aggPkts # <<>> => numberOf[p.seq] = numberOf[aggPkts[Len(aggPkts)].seq] + 1
        BY <4>1, <1>3 DEF ReferenceInv, FrameInv
      <4>3. p.crc /\ p.hdr = p.sent /\ p.hdr.addr = OwnAddress /\ numberOf[p.seq] # 0
        BY <1>1, <1>12 DEF IsOwn
      <4>4. /\ Whole(aggPkts', numberOf) /\ Whole(dataframe', numberOf)
            /\ aggPkts' # <<>> => aggPkts'[Len(aggPkts')].seq = p.seq
        BY <3>2, <4>2, <4>3, <1>1, <1>3, <1>4, FrameStep DEF IInv, FrameInv
      <4>5. p.seq # 0
        BY <3>2, <1>4
      <4>. QED BY <4>4, <4>5
    <3>. QED BY <1>12, <3>1, <3>2
  <2>2. FrameInv'
    BY <2>1, <1>2, <1>12 DEF FrameInv
  <2>3. \A s \in Seqs : fate'[s] \in {"first", "forwarded"} => s <= p.seq
    <3>1. TAKE s \in Seqs
    <3>2. CASE s = p.seq
      BY <3>2, <1>4
    <3>3. CASE s # p.seq
      <4>1. fate'[s] = fate[s]
        BY <3>3, <1>1 DEF ResendOutcome
      <4>2. fate[s] \in {"first", "forwarded"} => s <= seqLast
        BY <1>3 DEF ReferenceInv
      <4>3. seqLast <= p.seq
        BY <1>4, <1>12
      <4>. QED BY <4>1, <4>2, <4>3, <1>4
    <3>. QED BY <3>2, <3>3
  <2>4. continuityLast' = (numberOf[p.seq] - 1) % 4 /\ numberOf[p.seq] # 0
    BY <1>1, <1>12 DEF IsOwn
  <2>5. ReferenceInv'
    BY <2>1, <2>3, <2>4, <1>2, <1>12 DEF ReferenceInv, HasReference, IsOwn
  <2>. QED BY <2>2, <2>5, <1>6, <1>9, <1>10 DEF LinkInv
<1>. QED BY <1>1, <1>11, <1>12 DEF ResendOutcome

(* The end of the loop: nothing is ahead any more. *)
LEMMA LoopEnd ==
  ASSUME IInv, LinkTypes, LinkInv, ResendDone, UNCHANGED <<txVars, channelVars>>
  PROVE  LinkInv'
<1>1. /\ resend = Len(pkts) + 1 /\ resend' = 0 /\ pkts' = <<>>
      /\ UNCHANGED <<seqno, fecApplied, plugged, seqLast, continuityLast, aggPkts, dataframe, fate>>
      /\ UNCHANGED <<txSize, txFec, txCont, ownNo, damaged, numberOf>>
  BY DEF ResendDone, dedupVars, aggVars, txVars, channelVars
<1>2. /\ Len(pkts) \in Nat /\ seqLast \in Nat /\ (seqLast # 0 => seqLast \in Seqs)
      /\ \A s \in Seqs : s \in Nat /\ numberOf[s] \in Nat
      /\ ownNo \in Nat /\ resend # 0
  BY <1>1, Numbers, SeqsNat DEF IInv, TypeOK, LinkTypes
<1>3. \A s \in Seqs : ~Ahead(s)
  BY <1>1, <1>2 DEF Ahead
<1>4. GroupInv /\ NumberInv /\ WaitInv /\ ReferenceInv /\ FrameInv /\ DeliveryInv
  BY DEF LinkInv
<1>5. txSize = 0 /\ txFec = 0 /\ damaged = 0 /\ fecApplied
  BY <1>2, <1>4 DEF GroupInv
<1>6. GroupInv'
  <2>1. Len(pkts') = 0
    BY <1>1
  <2>. QED BY <2>1, <1>1, <1>5 DEF GroupInv
<1>7. NumberInv' /\ FrameInv'
  BY <1>1, <1>4 DEF NumberInv, FrameInv, IsOwn
<1>8. \A s \in Seqs : numberOf[s] # 0 => s <= seqLast
  BY <1>3, <1>4 DEF WaitInv, IsOwn
<1>9. WaitInv'
  BY <1>1, <1>8 DEF WaitInv, IsOwn
<1>10. HasReference => ownNo - numberOf[seqLast] <= 0
  <2>. SUFFICES ASSUME HasReference PROVE ownNo - numberOf[seqLast] <= 0
    OBVIOUS
  <2>1. seqLast \in Seqs /\ numberOf[seqLast] # 0 /\ numberOf[seqLast] \in Nat
    BY <1>2 DEF HasReference, IsOwn
  <2>2. numberOf[seqLast] <= ownNo
    BY <2>1, <1>4 DEF NumberInv
  <2>3. ownNo \in 1..ownNo
    BY <2>1, <2>2, <1>2
  <2>4. PICK s \in Seqs : numberOf[s] = ownNo
    BY <2>3, <1>4 DEF NumberInv
  <2>5. s <= seqLast
    BY <2>3, <2>4, <1>8
  <2>6. s < seqLast => numberOf[s] < numberOf[seqLast]
    BY <2>1, <2>3, <2>4, <1>4 DEF NumberInv, IsOwn
  <2>. QED BY <2>1, <2>4, <2>5, <2>6, <1>2
<1>11. ReferenceInv'
  BY <1>1, <1>4, <1>5, <1>10 DEF ReferenceInv, HasReference, IsOwn, Hidden
<1>12. DeliveryInv'
  BY <1>1, <1>3, <1>4 DEF DeliveryInv, OwnReference, Settled, IsOwn
<1>. QED BY <1>6, <1>7, <1>9, <1>11, <1>12 DEF LinkInv

(* Nothing has been sent. *)
LEMMA InitLink ==
  ASSUME OneComponent, LinkInit
  PROVE  LinkInv
<1>1. /\ seqno = 0 /\ fecApplied /\ seqLast = 0 /\ pkts = <<>> /\ resend = 0
      /\ aggPkts = <<>> /\ dataframe = <<>> /\ fate = [s \in Seqs |-> "none"]
      /\ txSize = 0 /\ txFec = 0 /\ txCont = [a \in DataAddresses |-> 0]
      /\ ownNo = 0 /\ numberOf = [s \in Seqs |-> 0]
  BY DEF LinkInit, InitWith
<1>2. Len(pkts) = 0 /\ Len(aggPkts) = 0 /\ Len(dataframe) = 0 /\ OwnAddress \in DataAddresses
  BY <1>1 DEF DataAddresses
<1>3. \A s \in Seqs : ~IsOwn(s) /\ fate[s] = "none" /\ numberOf[s] = 0
  BY <1>1 DEF IsOwn
<1>4. GroupInv
  BY <1>1, <1>2 DEF GroupInv
<1>5. NumberInv
  BY <1>1, <1>2, <1>3 DEF NumberInv
<1>6. WaitInv /\ DeliveryInv
  BY <1>3 DEF WaitInv, DeliveryInv
<1>7. ReferenceInv
  BY <1>1, <1>3 DEF ReferenceInv, HasReference
<1>8. FrameInv
  BY <1>1, <1>2 DEF FrameInv, Whole
<1>. QED BY <1>4, <1>5, <1>6, <1>7, <1>8 DEF LinkInv

(* Every step keeps the invariant as long as nothing is lost. *)
LEMMA NextLink ==
  ASSUME OneComponent, IInv, LinkTypes, lost = 0 => LinkInv, [LinkNext]_linkVars
  PROVE  lost' = 0 => LinkInv'
<1>. SUFFICES ASSUME lost' = 0 PROVE LinkInv'
  OBVIOUS
<1>1. lost = 0
  <2>1. lost \in Nat
    BY DEF LinkTypes
  <2>2. lost' = lost \/ lost' = lost + 1
    BY DEF LinkNext, linkVars, txVars, channelVars, SendOwn, SendForeign, SendFec, SendLastFec,
           Transfer, Intact, Damage, Lose, Vanish
  <2>. QED BY <2>1, <2>2
<1>2. LinkInv /\ NumberInv /\ GroupInv
  BY <1>1 DEF LinkInv
<1>3. CASE \/ \E f \in 0..3 : SendOwn(f)
           \/ \E a \in DataAddresses \ {OwnAddress} : SendForeign(a)
  <2>1. PICK hdr \in Header, h \in Header, crc \in BOOLEAN, number \in Nat :
          DataReceived(hdr, h, crc, number)
    BY <1>1, <1>2, <1>3, DataSent
  <2>. QED BY <2>1, <1>2, DataStep
<1>4. CASE SendFec \/ SendLastFec
  <2>. DEFINE p == LinkPacket(FecHeader(txFec), FecHeader(txFec), TRUE)
  <2>1. FecReceived(p) \/ GroupDecoded(p)
    BY <1>1, <1>2, <1>4, FecSent, LastFecSent
  <2>2. txFec \in 0..FecMaxFecPkt
    BY DEF LinkTypes
  <2>. QED BY <2>1, <2>2, <1>2, FecStep
<1>5. CASE (ResendStep \/ ResendDone) /\ UNCHANGED <<txVars, channelVars>>
  BY <1>2, <1>5, LoopStep, LoopEnd
<1>6. CASE UNCHANGED linkVars
  <2>1. /\ UNCHANGED <<seqno, fecApplied, plugged, seqLast, continuityLast, pkts, resend,
                       aggPkts, dataframe, fate>>
        /\ UNCHANGED <<txSize, txFec, txCont, ownNo, damaged, numberOf>>
    BY <1>6 DEF linkVars, vars, dedupVars, aggVars, txVars, channelVars
  <2>2. GroupInv' /\ NumberInv' /\ WaitInv'
    BY <2>1, <1>2 DEF LinkInv, GroupInv, DataCount, NumberInv, WaitInv, Ahead, IsOwn
  <2>3. ReferenceInv' /\ FrameInv'
    BY <2>1, <1>2 DEF LinkInv, ReferenceInv, HasReference, Hidden, FrameInv, IsOwn
  <2>4. DeliveryInv'
    BY <2>1, <1>2 DEF LinkInv, DeliveryInv, OwnReference, Settled, Ahead, IsOwn
  <2>. QED BY <2>2, <2>3, <2>4 DEF LinkInv
<1>. QED BY <1>3, <1>4, <1>5, <1>6 DEF LinkNext

-----------------------------------------------------------------------------
(***************************************************************************)
(* The theorems.                                                           *)
(***************************************************************************)

(* What holds of the receiver for every input holds behind the link, with  *)
(* packets lost or not.                                                    *)
LEMMA ReceiverInvariance == LinkSpec => [](IInv /\ LinkTypes)
<1>1. LinkInit => IInv /\ LinkTypes
  BY InitLinkTypes
<1>2. IInv /\ LinkTypes /\ [LinkNext]_linkVars => (IInv /\ LinkTypes)'
  BY NextLinkTypes
<1>. QED BY <1>1, <1>2, PTL DEF LinkSpec

(* Behind the link the variables have their types, no packet overtakes one *)
(* that waits for the FEC and frames are well formed, though packets are   *)
(* damaged and lost (packetDeduplicate, DabDataFrameAggregator).           *)
THEOREM LinkReceiver == LinkSpec => [](TypeOK /\ NothingOvertakesPending /\ FrameWellFormed)
<1>1. IInv => TypeOK /\ NothingOvertakesPending /\ FrameWellFormed
  BY DEF IInv
<1>. QED BY <1>1, ReceiverInvariance, PTL

(* A step of the link is a step of the receiver's promise, or none. *)
LEMMA LinkStepDelivers ==
  ASSUME IInv, LinkTypes, [LinkNext]_linkVars
  PROVE  Delivery!ODNext \/ UNCHANGED <<seqno, forwarded>>
<1>1. ASSUME NEW hdr \in Header, NEW h \in Header, NEW crc \in BOOLEAN, NEW number \in Nat,
             Arrives(hdr, h, crc, number)
      PROVE  Delivery!ODNext
  <2>. DEFINE r == [hdr |-> hdr, sent |-> h, crc |-> crc, size |-> 1]
  <2>1. r \in Reception
    BY DEF Reception
  <2>2. ArriveData(Received(r)) \/ ArriveOther(Received(r)) \/ LinkLastFec(Received(r))
    BY <1>1 DEF Arrives
  <2>. HIDE DEF r
  <2>3. CASE ArriveData(Received(r)) \/ ArriveOther(Received(r))
    BY <2>1, <2>3, ArriveIsReceive DEF Arrive, Delivery!ODNext
  <2>4. CASE LinkLastFec(Received(r))
    BY <2>4 DEF LinkLastFec, ArriveLastFec, Arriving, Delivery!ODNext, Delivery!Receive
  <2>. QED BY <2>2, <2>3, <2>4
<1>2. ASSUME NEW h \in Header, NEW number \in Nat, Transfer(h, number)
      PROVE  Delivery!ODNext \/ UNCHANGED <<seqno, forwarded>>
  <2>1. CASE Intact(h, number)
    BY <1>1, <2>1 DEF Intact
  <2>2. CASE Damage(h, number)
    BY <1>1, <2>2, SentHeaders DEF Damage
  <2>3. CASE Lose
    BY <2>3 DEF Lose, Vanish, vars
  <2>. QED BY <1>2, <2>1, <2>2, <2>3 DEF Transfer
<1>3. /\ \A a \in DataAddresses : txCont[a] \in 0..3
      /\ OwnAddress \in DataAddresses /\ 0 \in 0..3
      /\ ownNo \in Nat /\ FecHeader(txFec) \in Header
  BY SentHeaders, SMTT(40) DEF LinkTypes, DataAddresses
<1>4. ASSUME NEW f \in 0..3, SendOwn(f)
      PROVE  Delivery!ODNext \/ UNCHANGED <<seqno, forwarded>>
  <2>1. [addr |-> OwnAddress, continuity |-> txCont[OwnAddress], firstlast |-> f] \in Header
    BY <1>3, SentHeaders
  <2>. QED BY <2>1, <1>2, <1>3, <1>4 DEF SendOwn
<1>5. ASSUME NEW a \in DataAddresses, SendForeign(a)
      PROVE  Delivery!ODNext \/ UNCHANGED <<seqno, forwarded>>
  <2>1. [addr |-> a, continuity |-> txCont[a], firstlast |-> 0] \in Header
    BY <1>3, SentHeaders
  <2>. QED BY <2>1, <1>2, <1>5 DEF SendForeign
<1>6. CASE SendFec
  BY <1>2, <1>3, <1>6 DEF SendFec
<1>7. CASE SendLastFec
  BY <1>1, <1>3, <1>7 DEF SendLastFec, Vanish, vars
<1>8. CASE ResendStep \/ ResendDone
  BY <1>8, ResendIsLate DEF ResendDone, Delivery!ODNext
<1>9. CASE UNCHANGED linkVars
  BY <1>9 DEF linkVars, vars
<1>. QED BY <1>4, <1>5, <1>6, <1>7, <1>8, <1>9 DEF LinkNext

(* Nor is a packet forwarded twice or out of order behind the link, with   *)
(* packets lost or not (packetDeduplicate).                                *)
THEOREM LinkRefinement == LinkSpec => DeliversInOrder
<1>1. LinkInit => Delivery!ODInit
  BY DEF LinkInit, InitWith, Delivery!ODInit
<1>2. IInv /\ LinkTypes /\ [LinkNext]_linkVars => [Delivery!ODNext]_<<seqno, forwarded>>
  BY LinkStepDelivers
<1>. QED BY <1>1, <1>2, ReceiverInvariance, PTL
         DEF LinkSpec, DeliversInOrder, Delivery!ODSpec, Delivery!odVars

(* The whole invariant. *)
LEMMA LinkInvariance ==
  ASSUME OneComponent
  PROVE  LinkSpec => [](IInv /\ LinkTypes /\ (lost = 0 => LinkInv))
<1>1. LinkInit => IInv /\ LinkTypes /\ (lost = 0 => LinkInv)
  BY InitLinkTypes, InitLink
<1>2. IInv /\ LinkTypes /\ (lost = 0 => LinkInv) /\ [LinkNext]_linkVars
        => (IInv /\ LinkTypes /\ (lost = 0 => LinkInv))'
  BY NextLinkTypes, NextLink
<1>. QED BY <1>1, <1>2, PTL DEF LinkSpec

(* The deduplication with its plug and the FEC's second pass deliver every *)
(* packet of the component at the end of its group, whatever damage there  *)
(* was, once reception has begun (packetDeduplicate, packetInput).         *)
THEOREM Delivered ==
  ASSUME OneComponent
  PROVE  LinkSpec => []GroupDelivered
<1>1. IInv /\ LinkTypes /\ (lost = 0 => LinkInv) => GroupDelivered
  <2>. SUFFICES ASSUME IInv, LinkTypes, LinkInv, pkts = <<>>, OwnReference,
                       NEW s \in 0..(seqno - 1), IsOwn(s)
                PROVE  fate[s] = "forwarded" \/ \E t \in s..(seqno - 1) : fate[t] = "first"
    BY DEF GroupDelivered
  <2>1. s \in Seqs
    BY Numbers DEF IInv, TypeOK, Seqs
  <2>2. Len(pkts) = 0
    OBVIOUS
  <2>3. ~Ahead(s)
    BY <2>2 DEF Ahead
  <2>. QED BY <2>1, <2>3 DEF LinkInv, DeliveryInv, Settled
<1>. QED BY <1>1, LinkInvariance, PTL

(* A dispatched frame is one that was sent, whole and undamaged, though    *)
(* the aggregator looks at neither CRC nor continuity.                     *)
THEOREM FramesAsSent ==
  ASSUME OneComponent
  PROVE  LinkSpec => []FramesIntact
<1>1. IInv /\ LinkTypes /\ (lost = 0 => LinkInv) => FramesIntact
  BY DEF LinkInv, FrameInv, Whole, FramesIntact, IsOwn
<1>. QED BY <1>1, LinkInvariance, PTL

=============================================================================
