------------------------------ MODULE FibParser ------------------------------
(***************************************************************************)
(* FicParser with the bytes in it: call checks the FIBs and queues them,    *)
(* processFib, on its thread, cuts a FIB into FIGs, has each decoded and    *)
(* looks whether it has been seen.  In front of it a transmitter, which     *)
(* sends FIGs of Figs, any of them, in any order.                           *)
(***************************************************************************)
EXTENDS FigDecoder, FigCoding, FiniteSets

CONSTANTS
  Figs,      \* the FIGs that are sent
  MaxFigs,   \* bound: FIGs received
  Junk       \* what uninitialised memory may hold

(* A FIG of the types 0 to 6, its extension in its first byte, which fits    *)
(* into a FIB behind the byte with its type and length.                     *)
IsFigSent(f) ==
  LET type == f.kind \div 100
  IN  /\ f.kind \in Nat /\ type \in 0..6
      /\ Coded(f) \in Seq(0..255) /\ Len(Coded(f)) \in 1..29
      /\ f.kind = Kind(type, Coded(f)[1] % (IF type = 0 THEN 32 ELSE 8))

ASSUME SenderAssumption == MaxFigs \in Nat /\ \A f \in Figs : IsFigSent(f)

VARIABLES
  queue,    \* m_fibDataQueue
  fib,      \* the rest of the FIB processFib is at
  parsed,   \* m_parsedFig0001 ... m_parsedFig0106: kind and content
  read,     \* history: what the objects held, FIG by FIG
  done,     \* history: whether a FIG was told to be a repeated one
  sent      \* history: the FIGs of the FIBs that arrived intact

vars == <<queue, fib, parsed, read, done, sent>>

Init == /\ queue = <<>>
        /\ fib = <<>>
        /\ parsed = {}
        /\ read = <<>>
        /\ done = <<>>
        /\ sent = <<>>

(* FIGs in the 30 bytes of a FIB, each behind its type and length, an end   *)
(* marker and zeros behind them unless they fill it, and the CRC.           *)
CodedFigs == [f \in Figs |-> LET d == Coded(f)
                             IN  <<32 * (f.kind \div 100) + Len(d)>> \o d]

FigBytes(figs) == FlattenSeq([k \in DOMAIN figs |-> CodedFigs[figs[k]]])

FibOf(figs) ==
  LET bytes == FigBytes(figs)
  IN  [k \in 1..32 |-> IF k <= Len(bytes) THEN bytes[k]
                       ELSE IF k = Len(bytes) + 1 /\ k <= 30 THEN 255 ELSE 0]

(* A FIB arrives; one with a bad CRC is dropped.                            *)
Call(figs, crcOk) ==
  /\ queue' = IF crcOk THEN Append(queue, FibOf(figs)) ELSE queue
  /\ sent' = IF crcOk THEN sent \o figs ELSE sent
  /\ UNCHANGED <<fib, parsed, read, done>>

Receive == \E n \in 1 .. (MaxFigs - Len(sent)) : \E figs \in [1..n -> Figs] :
             /\ Len(FigBytes(figs)) <= 30
             /\ \E crcOk \in BOOLEAN : Call(figs, crcOk)

TakeFib == /\ fib = <<>>
           /\ queue # <<>>
           /\ fib' = Head(queue)
           /\ queue' = Tail(queue)
           /\ UNCHANGED <<parsed, read, done, sent>>

(* The kinds whose repetition is looked for.                                *)
Compared == {1, 2, 3, 8, 13, 14, 17, 100, 101, 104, 105, 106}

MutantSeen(fig) == \E other \in parsed : other[1] = fig[1] /\ Len(other[2]) = Len(fig[2])

(* contains: compared are all members, but not the flags of the header.     *)
Seen(fig) == fig \in parsed

(* parseFig_00, parseFig_01: the object is made, compared with those seen   *)
(* before and kept if it is new.                                           *)
Parse(kind, data) ==
  IF kind \notin Kinds
  THEN /\ read' = Append(read, <<>>)
       /\ done' = Append(done, FALSE)
       /\ UNCHANGED parsed
  ELSE \E g \in Junk :
         LET fig == <<kind, Decoded(kind, data, g)>>
         IN  /\ read' = Append(read, fig[2])
             /\ done' = Append(done, kind \in Compared /\ Seen(fig))
             /\ parsed' = IF kind \in Compared THEN parsed \union {fig} ELSE parsed

MutantIsFig(type, len) == type \in {0, 1} /\ len # 31 /\ len > 0

(* What processFib takes for a FIG; anything else ends the FIB.             *)
IsFig(type, len) == type # 7 /\ len # 31 /\ len > 0

ProcessFig ==
  /\ Len(fib) > 2
  /\ LET type == fib[1] \div 32
         len  == fib[1] % 32
         data == SubSeq(fib, 2, len + 1)
     IN  IF IsFig(type, len)
         THEN /\ fib' = After(fib, len + 1)
              /\ Parse(Kind(type, data[1] % (IF type = 0 THEN 32 ELSE 8)), data)
         ELSE /\ fib' = <<>>
              /\ UNCHANGED <<parsed, read, done>>
  /\ UNCHANGED <<queue, sent>>

(* Only the CRC is left.                                                   *)
FibUsedUp == /\ Len(fib) = 2
             /\ fib' = <<>>
             /\ UNCHANGED <<queue, parsed, read, done, sent>>

Next == Receive \/ TakeFib \/ ProcessFig \/ FibUsedUp

Spec == Init /\ [][Next]_vars

-----------------------------------------------------------------------------
(* What a FIG that has been read should hold: its entries, the last copy of *)
(* each frequency list, and of a kind without a list the last entry.        *)
Meant(f) == IF f.kind \in KeepLast THEN <<Last(f.entries)>> ELSE f.entries
Held(f, value) ==
  IF f.kind = 21
  THEN [k \in DOMAIN value |-> [j \in DOMAIN value[k] |-> Last(value[k][j])]]
  ELSE value

LateShortLabel(e) == \E k \in 9..16 : e.label[k] \in ToSet(e.short)

(* FIGs that come to be held as something else than they say, one line for  *)
(* each place in the code.                                                 *)
Misread(f) ==
  \/ f.kind \notin Kinds \ {106}                       \* ignored; 1/6 never read
  \/ \E e \in ToSet(f.entries) :
       \/ f.kind = 1 /\ e.type = "EEP_B" /\ e.rate > 255       \* uint8_t
       \/ f.kind = 10 /\ e.utc = 0                             \* no seconds
       \/ f.kind = 13 /\ f.pd = 1 /\ e.apps # <<>>             \* members not set
       \/ f.kind = 21 /\ \E l \in ToSet(e) :
            \/ l.adjacent \notin {"UNKNOWN", "NOT_MODE_ONE"}   \* no breaks
            \/ l.rm \in {6, 14} /\ (l.id > 65535 \/ \E khz \in ToSet(l.khz) : khz > 255)
            \/ l.rm = 8 /\ l.id # 0                            \* id not set
       \/ f.kind = 104 /\ e.id > 65535                         \* uint8_t
       \/ f.kind \in {100, 101, 104, 105} /\ LateShortLabel(e) \* counts from 7

(* Undefined when it is read: two objects of the same FIG may differ.       *)
Undetermined(f) == f.kind = 106 \/ (f.kind = 13 /\ f.pd = 1)

(* A FIG comes to be held as the transmitter meant it, whatever stands      *)
(* before and behind it in its FIB, unless it is one of those of Misread,   *)
(* and those do not: processFib keeps its place, and each parseFigData      *)
(* reads every field at its bits and goes on where the next entry begins.   *)
ReadAsMeant ==
  \A k \in DOMAIN read : (Held(sent[k], read[k]) = Meant(sent[k])) <=> ~Misread(sent[k])

(* No FIG of an intact FIB is left out.                                     *)
AllRead == queue = <<>> /\ fib = <<>> => Len(read) = Len(sent)

(* A FIG is told to be a repeated one exactly if the same entries were sent *)
(* before, in a FIG of its kind: what the ensemble's collection takes for   *)
(* the end of a cycle.  The flags of the header are not compared.           *)
RepeatRecognized ==
  \A k \in DOMAIN done :
    sent[k].kind \in Compared /\ ~Undetermined(sent[k])
      => (done[k] <=> \E j \in 1..k-1 : /\ sent[j].kind = sent[k].kind
                                        /\ sent[j].entries = sent[k].entries)
=============================================================================
