------------------------------ MODULE PacketLink ------------------------------
(***************************************************************************)
(* PacketData behind the transmitter of its subchannel.  The transmitter   *)
(* (EN 300 401, 5.3) sends groups: data packets up to the size of an FEC   *)
(* frame, then the FEC packets 0 .. FecMaxFecPkt.  Data packets count      *)
(* their continuity index per address; those of the own address form       *)
(* frames.  The channel damages a bounded number of packets of a group,    *)
(* within what the Reed-Solomon code repairs, and may lose packets         *)
(* altogether (the tuner zaps its MSC buffer).  Neither is code of src/:   *)
(* they are the environment in which the receiver has to do its work.      *)
(***************************************************************************)
EXTENDS PacketData

CONSTANTS
  OtherAddresses,  \* addresses of other components in the same subchannel
  Confusions,      \* pairs <<sent, received>>: addresses damage may confuse
  MaxDamage,       \* bound: packets damaged or lost in one group
  MaxLoss,         \* bound: packets lost altogether
  MaxGroups        \* bound: groups sent

ASSUME LinkAssumption ==
  /\ OtherAddresses \subseteq (1..1021) \ {OwnAddress}
  /\ Confusions \subseteq (0..1023) \X (0..1023)
  /\ MaxDamage \in Nat /\ MaxLoss \in Nat /\ MaxGroups \in Nat
  /\ MaxSeq >= MaxGroups * (FecDataSize + FecMaxFecPkt + 1)

VARIABLES
  txGroup,   \* groups sent completely
  txSize,    \* data packets sent in this group
  txFec,     \* FEC packets sent in this group
  txCont,    \* the next continuity index of each address
  txOpen,    \* a frame of the own address has begun and not ended
  damaged,   \* packets damaged or lost in this group
  lost,      \* packets lost so far
  gap,       \* a packet was lost since the FEC buffer was emptied last
  ownNo,     \* history: own packets sent so far
  numberOf   \* history: which own packet a sequence number is, 0 for none

txVars      == <<txGroup, txSize, txFec, txCont, txOpen, ownNo>>
channelVars == <<damaged, lost, gap, numberOf>>
linkVars    == <<vars, txVars, channelVars>>

DataAddresses == {OwnAddress, PadAddress} \cup OtherAddresses

(* FIG 0/14 came before the service was started, as it does when the       *)
(* ensemble has been collected first.                                      *)
LinkInit ==
  /\ InitWith(TRUE)
  /\ txGroup = 0 /\ txSize = 0 /\ txFec = 0
  /\ txCont = [a \in DataAddresses |-> 0]
  /\ txOpen = FALSE
  /\ damaged = 0 /\ lost = 0 /\ gap = FALSE
  /\ ownNo = 0
  /\ numberOf = [s \in Seqs |-> 0]

-----------------------------------------------------------------------------
(* The RS decoder restores every damaged packet of a group, and corrects   *)
(* nothing behind it, when the group is in the buffer as it was sent and   *)
(* damage spares FEC packets.  Otherwise it may do anything.               *)
GroupAsSent == ~gap /\ \A c \in Confusions : FecAddress \notin {c[1], c[2]}

LinkLastFec(p) ==
  \/ ~GroupAsSent /\ ArriveLastFec(p)
  \/ /\ Arriving
     /\ fecApplied
     /\ FecOverflow(p) \/ FecIncomplete(p) \/ FecDecode(p, Damaged(pkts), {}, p.hdr)
     /\ aggPkts' = SharedWith(aggPkts, pkts')
     /\ UNCHANGED <<dedupVars, dataframe, forwarded>>

Arrives(hdr, h, crc, number) ==
  LET p == Received([hdr |-> hdr, sent |-> h, crc |-> crc, size |-> 1])
  IN  /\ \/ (ArriveData(p) \/ ArriveOther(p)) /\ UNCHANGED gap
         \/ LinkLastFec(p) /\ gap' = FALSE
      /\ numberOf' = [numberOf EXCEPT ![seqno] = number]

(* The packet with header h arrives intact, ... *)
Intact(h, number) ==
  /\ Arrives(h, h, TRUE, number)
  /\ UNCHANGED <<damaged, lost>>

Fault ==
  /\ damaged < MaxDamage
  /\ damaged' = damaged + 1

(* ... it arrives damaged, perhaps under another address, ... *)
Damage(h, number) ==
  /\ Fault
  /\ \E c \in Confusions :
       c[1] = h.addr /\ Arrives([h EXCEPT !.addr = c[2]], h, FALSE, number)
  /\ UNCHANGED lost

(* ... or it is lost; not in the last group, the stream goes on behind it. *)
Vanish ==
  /\ lost < MaxLoss
  /\ txGroup + 1 < MaxGroups
  /\ lost' = lost + 1
  /\ gap' = TRUE
  /\ UNCHANGED <<vars, numberOf>>

Lose == Fault /\ Vanish

Transfer(h, number) == Intact(h, number) \/ Damage(h, number) \/ Lose

-----------------------------------------------------------------------------
(* The transmitter. *)
Sending == txGroup < MaxGroups /\ resend = 0

FecHeader(n) == [addr |-> FecAddress, continuity |-> n \div 4, firstlast |-> n % 4]

SendData(a) ==
  /\ txSize < FecDataSize
  /\ txSize' = txSize + 1
  /\ txCont' = [txCont EXCEPT ![a] = Next4(@)]
  /\ UNCHANGED <<txGroup, txFec>>

(* The first or only packet of a frame, or a further one of the open frame. *)
SendOwn(f) ==
  /\ Sending
  /\ SendData(OwnAddress)
  /\ f \in IF txOpen THEN {0, 1} ELSE {2, 3}
  /\ txOpen' = (f \in {0, 2})
  /\ ownNo' = ownNo + 1
  /\ Transfer([addr |-> OwnAddress, continuity |-> txCont[OwnAddress], firstlast |-> f],
              ownNo + 1)

SendForeign(a) ==
  /\ Sending
  /\ SendData(a)
  /\ Transfer([addr |-> a, continuity |-> txCont[a], firstlast |-> 0], 0)
  /\ UNCHANGED <<txOpen, ownNo>>

SendFec ==
  /\ Sending
  /\ txSize = FecDataSize
  /\ txFec < FecMaxFecPkt
  /\ txFec' = txFec + 1
  /\ Transfer(FecHeader(txFec), 0)
  /\ UNCHANGED <<txGroup, txSize, txCont, txOpen, ownNo>>

(* The last FEC packet: the next group starts with a fresh budget. *)
SendLastFec ==
  /\ Sending
  /\ txSize = FecDataSize
  /\ txFec = FecMaxFecPkt
  /\ txGroup' = txGroup + 1
  /\ txSize' = 0
  /\ txFec' = 0
  /\ damaged' = 0
  /\ LET h == FecHeader(txFec)
     IN  \/ Arrives(h, h, TRUE, 0) /\ UNCHANGED lost
         \/ damaged < MaxDamage /\ Vanish
  /\ UNCHANGED <<txCont, txOpen, ownNo>>

LinkNext ==
  \/ \E f \in 0..3 : SendOwn(f)
  \/ \E a \in DataAddresses \ {OwnAddress} : SendForeign(a)
  \/ SendFec
  \/ SendLastFec
  \/ (ResendStep \/ ResendDone) /\ UNCHANGED <<txVars, channelVars>>

(* The transmitter never stops sending and the thread that reads the MSC   *)
(* data never stops processing it: steps are taken until the bound on the  *)
(* groups.  LinkNext is enabled but when Ended, so this is its weak        *)
(* fairness.                                                               *)
Ended == txGroup = MaxGroups /\ resend = 0
Progress == []<>Ended \/ []<><<TRUE>>_linkVars

LinkSpec == LinkInit /\ [][LinkNext]_linkVars /\ Progress

-----------------------------------------------------------------------------
IsOwn(s) == numberOf[s] # 0

(* packetDeduplicate takes its first reference from whatever packet comes  *)
(* first, also from a damaged padding packet that looks like an own one.   *)
OwnReference == \A s \in 0..(seqno - 1) : fate[s] = "first" => IsOwn(s)

(* At the end of a group, as long as nothing was lost, every packet of the *)
(* component has been forwarded, whatever the damage: but for those at the *)
(* start of reception, up to the packet that only initialises seq_last     *)
(* (packetDeduplicate, packetInput, packetsProcessFec).                    *)
GroupDelivered ==
  lost = 0 /\ pkts = <<>> /\ OwnReference =>
    \A s \in 0..(seqno - 1) : IsOwn(s) =>
      fate[s] = "forwarded" \/ \E t \in s..(seqno - 1) : fate[t] = "first"

(* As long as nothing was lost, a dispatched frame is one the transmitter  *)
(* sent: no packet of it is damaged, none missing, none of another frame,  *)
(* though the aggregator checks neither CRC nor continuity.                *)
FramesIntact ==
  lost = 0 =>
    \A i \in 1..Len(dataframe) :
      /\ dataframe[i].crc
      /\ dataframe[i].hdr = dataframe[i].sent
      /\ IsOwn(dataframe[i].seq)
      /\ numberOf[dataframe[i].seq] = numberOf[dataframe[1].seq] + i - 1

(* Packets refused on arrival do not wait for good, with packets lost or   *)
(* not: the next group that ends settles all of them, forwarded or given   *)
(* up, so the plug cannot stop the stream.                                 *)
SomePending == \E s \in 0..(seqno - 1) : fate[s] = "pending"
PendingResolved == SomePending ~> ~SomePending

(* Documented in packetDeduplicate: "continuity counter is per address so  *)
(* we need to drop others here" - so a packet of another address neither   *)
(* moves seq_last and continuity_last on nor plugs the stream.             *)
OthersDropped ==
  \A s \in 0..(seqno - 1) : fate[s] \in {"forwarded", "pending"} => IsOwn(s)
=============================================================================
