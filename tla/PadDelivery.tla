----------------------------- MODULE PadDelivery -----------------------------
(***************************************************************************)
(* What the superframe decoder promises the PAD decoder behind it: the PADs  *)
(* of the station, any of them, but in order, none twice and each as it was  *)
(* sent.  With what labels and slides shall come of that.                   *)
(***************************************************************************)
EXTENDS PadDecoder, FiniteSetsExt

CONSTANTS
  Stations,      \* what may be sent: sequences of PADs, one for each AU
  Labels,        \* label -> its segments
  Objects,       \* the slides: [header, body]
  LabelMargin    \* groups before a label that counts

PadCells == UNION {ToSet(f) : f \in UNION {ToSet(p.fields) : p \in UNION {ToSet(s) : s \in Stations}}}

(* A field for each type; without a CI, one.  The first field of a data      *)
(* group stands behind its length, and may be longer.  A short X-PAD with    *)
(* the type below that of a data group's beginning would be continued with   *)
(* this one.                                                               *)
IsPadSent(p) ==
  /\ p.xpad \in {"none", "short", "variable"} /\ p.ci \in BOOLEAN
  /\ p.types \in Seq(0 .. 31) /\ p.fields \in Seq(Seq(PadCells))
  /\ Len(p.fields) = IF p.ci THEN Len(p.types) ELSE IF p.xpad = "none" THEN 0 ELSE 1
  /\ \A k \in DOMAIN p.types :
       p.types[k] = MotStart => /\ k > 1 /\ p.types[k-1] = LengthIndicator
                                /\ IsLength(p.fields[k-1])
  /\ p.xpad = "short" /\ p.ci => Len(p.types) = 1 /\ p.types[1] # MotStart - 1

ASSUME StationAssumption ==
  /\ \A s \in Stations : s \in Seq(ToSet(s)) /\ \A p \in ToSet(s) : IsPadSent(p)
  /\ \A c \in PadCells : c[1] = "length" => c[2] \in Nat

(* A body is as long as its header says.  Several objects may have the same  *)
(* transport id, one after the other.                                       *)
ASSUME ObjectAssumption ==
  /\ Objects \subseteq [header : DOMAIN MotGroups, body : Seq(DOMAIN MotGroups)]
  /\ \A o \in Objects :
       /\ MotGroups[o.header].bytes = BodySize(o.body)
       /\ \A i \in DOMAIN o.body : MotGroups[o.body[i]].bytes \in Nat \ {0}

VARIABLES
  station,   \* what is sent
  pad,       \* m_padDecoder
  heard,     \* history: PADs handed to the PAD decoder
  shown,     \* history: labels dispatched, and at which PAD
  slides     \* history: slides dispatched, and at which PAD

deliveryVars == <<station, pad, heard, shown, slides>>

DeliveryInit ==
  /\ station \in Stations
  /\ pad = NoPadSeen
  /\ heard = {} /\ shown = {} /\ slides = {}

(* The PAD decoder gets a PAD.                                              *)
Unheard(r) == [pad |-> r, heard |-> {}, shown |-> {}, slides |-> {}]

Hear(h, i) ==
  LET next == PadDataInput(h.pad, station[i])
  IN  [pad    |-> next,
       heard  |-> h.heard \union {i},
       shown  |-> h.shown \union {[at |-> i, label |-> l] : l \in ToSet(next.label.shown)},
       slides |-> h.slides \union {[at |-> i, slide |-> l] : l \in ToSet(next.mot.slides)}]

Record(h) ==
  /\ pad' = h.pad
  /\ heard' = heard \union h.heard
  /\ shown' = shown \union h.shown
  /\ slides' = slides \union h.slides

(* It gets some that are behind all before, one after the other.             *)
HeardInOrder(r, new) ==
  LET after[i \in 0 .. Len(station)] ==
        IF i = 0 THEN Unheard(r)
        ELSE IF i \in new THEN Hear(after[i-1], i) ELSE after[i-1]
  IN  after[Len(station)]

HearPads(new) ==
  /\ new # {} /\ new \subseteq 1 .. Len(station)
  /\ \A i \in new, j \in heard : j < i
  /\ Record(HeardInOrder(pad, new))
  /\ UNCHANGED station

(* Every step of the superframe decoder hands over some PADs, or none.       *)
PadsDelivered == DeliveryInit /\ [][HearPads(heard' \ heard)]_deliveryVars

-----------------------------------------------------------------------------
(* Where data groups of an application begin, and which.                    *)
GroupStarts(pads, type) ==
  LET Begins(i) == type \in ToSet(pads[i].types)
      Start(i)  == [at |-> i, group |-> pads[i].fields[CHOOSE k \in DOMAIN pads[i].types :
                                                         pads[i].types[k] = type][1][1]]
  IN  SelectSeq([i \in DOMAIN pads |-> IF Begins(i) THEN Start(i) ELSE [at |-> 0]],
                LAMBDA x : x.at # 0)

LabelStarts == [s \in Stations |-> GroupStarts(s, DlsStart)]
MotStarts   == [s \in Stations |-> GroupStarts(s, MotStart)]

Heard(from, to) == from .. to \subseteq heard

Plus == {g \in DOMAIN LabelGroups : LabelGroups[g].seg = "plus"}

(* What is to be shown when group g is complete.                            *)
Due(g) ==
  LET text == Labels[LabelGroups[g].label]
  IN  CASE g \in Plus                            -> {[text |-> text, tags |-> g]}
        [] LabelGroups[g].seg \in {"last", "only"} -> {[text |-> text, tags |-> Untagged]}
        [] OTHER                                 -> {}

(* What is due where a group begins, to who heard everything from a few      *)
(* groups before the label on.  Labels that have tags may come without.      *)
LabelsDue ==
  [s \in Stations |->
     LET starts   == LabelStarts[s]
         Group(n) == starts[n-1].group
         First(n) == n - 1 - Len(Labels[LabelGroups[Group(n)].label]) - LabelMargin
         From(n)  == IF First(n) < 1 THEN 1 ELSE starts[First(n)].at
         tagged   == \E n \in DOMAIN starts : starts[n].group \in Plus
     IN  {[from |-> From(n), at |-> starts[n].at,
           ways |-> {Due(Group(n))} \union
                    (IF tagged /\ Group(n) \notin Plus THEN {{}} ELSE {})] :
            n \in 2 .. Len(starts)}]

(* When a label is complete, or its tags are, it is dispatched: whole, with  *)
(* its own tags, and nothing else is.  That is so once its PADs have been    *)
(* heard and those of a few groups before it, whatever was lost before.      *)
LabelsRight ==
  \A due \in LabelsDue[station] :
    Heard(due.from, due.at) =>
      {s.label : s \in {t \in shown : t.at = due.at}} \in due.ways

(* Beginnings of data groups that are longer than the group, and its length. *)
PaddedStarts(pads) ==
  UNION {{<<p.fields[k], p.fields[k-1][1][2]>> :
            k \in {j \in 2 .. Len(p.types) : /\ p.types[j] = MotStart
                                            /\ Len(p.fields[j]) > p.fields[j-1][1][2]}} :
         p \in pads}

(* The slide whose body ends with group g.                                  *)
Object(g) == CHOOSE o \in Objects : Last(o.body) = g

(* When an object has been sent completely and the next group begins, it is  *)
(* due, to who heard everything from the beginning of its header on, and of  *)
(* what was sent under its transport id the time before, be it the same      *)
(* object or the one it replaces.  A group whose beginning is padded is      *)
(* lost: its CRC is looked for behind the padding.                          *)
SlidesDue ==
  [s \in Stations |->
     LET starts == MotStarts[s]
         Ends(n)   == \E o \in Objects : Last(o.body) = starts[n-1].group /\ Len(o.body) < n - 1
         Start(n)  == n - 1 - Len(Object(starts[n-1].group).body)
         Before(n) == {m \in 1 .. (Start(n) - 1) :
                         LET h == MotGroups[starts[m].group]
                         IN  h.kind = "header" /\ h.tid = MotGroups[starts[n-1].group].tid}
         From(n)   == IF Before(n) = {} THEN Start(n) ELSE Max(Before(n))
         Fits(n)   == PaddedStarts({s[starts[m].at] : m \in From(n) .. (n - 1)}) = {}
     IN  {[from |-> starts[From(n)].at, at |-> starts[n].at, object |-> Object(starts[n-1].group)] :
            n \in {m \in 2 .. Len(starts) : Ends(m) /\ Fits(m)}}]

(* Who heard all that an object takes is handed the object.                  *)
SlidesRight ==
  \A due \in SlidesDue[station] :
    Heard(due.from, due.at) =>
      \E s \in slides : /\ s.at = due.at
                        /\ s.slide.header = due.object.header
                        /\ s.slide.data = due.object.body

(* The segments from the first on that were sent under a header's transport  *)
(* id, without a gap, as long together as the header says.                   *)
Gapless(h, body) ==
  /\ MotGroups[h].kind = "header"
  /\ \A i \in DOMAIN body : /\ MotGroups[body[i]].kind = "body"
                            /\ MotGroups[body[i]].tid = MotGroups[h].tid
                            /\ MotGroups[body[i]].num = i - 1
  /\ BodySize(body) = MotGroups[h].bytes

(* Only one object is ever sent under a header's transport id.               *)
Alone(h) ==
  \E o \in Objects :
    /\ o.header = h
    /\ \A g \in DOMAIN MotGroups :
         MotGroups[g].kind = "body" /\ MotGroups[g].tid = MotGroups[h].tid =>
           MotGroups[g].num + 1 \in DOMAIN o.body /\ o.body[MotGroups[g].num + 1] = g

(* Whatever is lost, a slide is a header and, without a gap, the segments    *)
(* sent under its transport id, as long as the header says: if the object is *)
(* alone under the id, the whole of its body.  The segments may come from    *)
(* several of its transmissions, since nothing tells one from another; and   *)
(* where another object follows under the id, a header whose own body was    *)
(* lost may get the body of that one.                                       *)
SlidesWhole ==
  \A s \in slides :
    /\ Gapless(s.slide.header, s.slide.data)
    /\ \/ [header |-> s.slide.header, body |-> s.slide.data] \in Objects
       \/ ~Alone(s.slide.header)

(* A data group is longer than its length says only by what its own          *)
(* beginning brought: nothing that goes on with one makes it so.             *)
RoomLeft ==
  \/ Len(pad.group) <= pad.length
  \/ <<pad.group, pad.length>> \in PaddedStarts(ToSet(station))
=============================================================================
