---------------------------- MODULE ProgrammeProofs ----------------------------
(***************************************************************************)
(* That a slide is a header and the segments under its transport id, whole,  *)
(* whatever is lost, that no continuation makes a data group too long, that  *)
(* two undisturbed superframes regain the place in the stream, and that PADs *)
(* are delivered in order: for all stations, objects, sizes of frames and   *)
(* chunks, and any faults.                                                 *)
(***************************************************************************)
EXTENDS Programme, SequenceTheorems, WellFoundedInduction, TLAPS

LessThan == {p \in Nat \X Nat : p[1] < p[2]}

LEMMA LessThanFounded == IsWellFoundedOn(LessThan, Nat)
BY NatLessThanWellFounded, Zenon DEF OpToRel, LessThan

(* What holds at 0 and goes on from each number to the next.                *)
LEMMA Ascends ==
  ASSUME NEW n \in Nat, NEW T, 0 \in T, \A k \in 1..n : k - 1 \in T => k \in T
  PROVE  \A k \in 0..n : k \in T
<1> DEFINE wrong == (0..n) \ T
<1>1. wrong \in SUBSET Nat
  OBVIOUS
<1>2. ASSUME wrong # {} PROVE FALSE
  <2>1. PICK x \in wrong : \A y \in wrong : ~(<<y, x>> \in LessThan)
    <3> HIDE DEF wrong
    <3> QED
      BY <1>1, <1>2, LessThanFounded, WFMin
  <2>2. x \in 0..n /\ x \notin T
    BY <2>1
  <2>3. x \in 1..n
    <3>1. x # 0
      BY <2>2
    <3> QED
      BY <2>2, <3>1
  <2>4. x - 1 \notin T
    BY <2>2, <2>3
  <2>5. x - 1 \in wrong /\ x - 1 \in Nat /\ x \in Nat /\ x - 1 < x
    BY <2>3, <2>4
  <2> QED
    BY <2>1, <2>5 DEF LessThan
<1> QED
  BY <1>2

-----------------------------------------------------------------------------
(* BodySize is the last of a table of sums.                                 *)
Sums(f, body, n) ==
  f = [k \in 0..n |-> IF k = 0 THEN 0 ELSE f[k-1] + MotGroups[body[k]].bytes]

LEMMA SumsExist ==
  ASSUME NEW body, NEW n \in Nat
  PROVE  \E f : Sums(f, body, n)
<1> DEFINE T == {k \in 0..n : \E f : Sums(f, body, k)}
<1>1. 0 \in T
  <2>1. Sums([k \in 0..0 |-> 0], body, 0)
    BY DEF Sums
  <2> QED
    BY <2>1
<1>2. ASSUME NEW k \in 1..n, k - 1 \in T PROVE k \in T
  <2>1. PICK f : Sums(f, body, k - 1)
    BY <1>2
  <2> DEFINE g == [j \in 0..k |-> IF j < k THEN f[j] ELSE f[k-1] + MotGroups[body[k]].bytes]
  <2>2. \A j \in 0..(k-1) : f[j] = IF j = 0 THEN 0 ELSE f[j-1] + MotGroups[body[j]].bytes
    BY <2>1 DEF Sums
  <2>3. \A j \in 0..k : g[j] = IF j = 0 THEN 0 ELSE g[j-1] + MotGroups[body[j]].bytes
    BY <2>2
  <2>4. g = [j \in 0..k |-> IF j = 0 THEN 0 ELSE g[j-1] + MotGroups[body[j]].bytes]
    <3> DEFINE h == [j \in 0..k |-> IF j = 0 THEN 0 ELSE g[j-1] + MotGroups[body[j]].bytes]
    <3>1. DOMAIN g = DOMAIN h /\ \A j \in 0..k : g[j] = h[j]
      BY <2>3
    <3> QED
      BY <3>1
  <2>5. Sums(g, body, k)
    BY <2>4 DEF Sums
  <2> QED
    BY <2>5
<1> HIDE DEF T
<1>3. n \in T
  BY <1>1, <1>2, Ascends
<1> QED
  BY <1>3 DEF T

LEMMA BodySizeTable ==
  ASSUME NEW body \in Seq(DOMAIN MotGroups)
  PROVE  \E f : /\ BodySize(body) = f[Len(body)]
                /\ f[0] = 0
                /\ \A k \in 1..Len(body) : f[k] = f[k-1] + MotGroups[body[k]].bytes
<1> DEFINE n == Len(body)
           f == CHOOSE f : Sums(f, body, n)
<1>1. n \in Nat
  OBVIOUS
<1>2. BodySize(body) = f[n]
  BY DEF BodySize, Sums
<1>3. Sums(f, body, n)
  BY <1>1, SumsExist
<1> HIDE DEF f
<1>4. f[0] = 0 /\ \A k \in 1..n : f[k] = f[k-1] + MotGroups[body[k]].bytes
  BY <1>1, <1>3 DEF Sums
<1> QED
  BY <1>2, <1>4

(* A body as long as one it is the beginning of is the whole of it.         *)
LEMMA BodySizeTells ==
  ASSUME NEW s \in Seq(DOMAIN MotGroups), NEW t \in Seq(DOMAIN MotGroups), Len(t) <= Len(s),
         \A i \in 1..Len(t) : t[i] = s[i],
         \A i \in 1..Len(s) : MotGroups[s[i]].bytes \in Nat \ {0},
         BodySize(t) = BodySize(s)
  PROVE  t = s
<1> DEFINE n == Len(t)
           L == Len(s)
<1>1. n \in Nat /\ L \in Nat /\ n <= L
  OBVIOUS
<1>2. PICK f : /\ BodySize(s) = f[L] /\ f[0] = 0
               /\ \A k \in 1..L : f[k] = f[k-1] + MotGroups[s[k]].bytes
  BY BodySizeTable
<1>3. PICK g : /\ BodySize(t) = g[n] /\ g[0] = 0
               /\ \A k \in 1..n : g[k] = g[k-1] + MotGroups[t[k]].bytes
  BY BodySizeTable
<1>4. \A k \in 1..L : MotGroups[s[k]].bytes \in Nat \ {0}
  OBVIOUS
<1>5. \A k \in 1..n : t[k] = s[k]
  OBVIOUS
<1> HIDE DEF n, L
<1>6. \A k \in 0..n : g[k] = f[k]
  <2> DEFINE T == {k \in 0..n : g[k] = f[k]}
  <2>1. 0 \in T
    BY <1>1, <1>2, <1>3
  <2>2. ASSUME NEW k \in 1..n, k - 1 \in T PROVE k \in T
    BY <1>1, <1>2, <1>3, <1>5, <2>2, SMTT(40)
  <2> HIDE DEF T
  <2>3. \A k \in 0..n : k \in T
    BY <1>1, <2>1, <2>2, Ascends
  <2> QED
    BY <2>3 DEF T
<1>7. \A k \in 0..L : f[k] \in Nat /\ (k > n => f[k] > f[n])
  <2>1. \A k \in 0..L : f[k] \in Nat
    <3> DEFINE T == {k \in 0..L : f[k] \in Nat}
    <3>1. 0 \in T
      BY <1>1, <1>2
    <3>2. ASSUME NEW k \in 1..L, k - 1 \in T PROVE k \in T
      <4>1. f[k] = f[k-1] + MotGroups[s[k]].bytes /\ MotGroups[s[k]].bytes \in Nat
        BY <1>2, <1>4
      <4> QED
        BY <1>1, <3>2, <4>1
    <3> HIDE DEF T
    <3>3. \A k \in 0..L : k \in T
      BY <1>1, <3>1, <3>2, Ascends
    <3> QED
      BY <3>3 DEF T
  <2> DEFINE T == {k \in 0..L : k > n => f[k] > f[n]}
  <2>2. 0 \in T
    BY <1>1
  <2>3. ASSUME NEW k \in 1..L, k - 1 \in T PROVE k \in T
    <3>1. f[k] > f[k-1] /\ f[k-1] \in Nat /\ f[k] \in Nat /\ f[n] \in Nat
      <4>1. f[k-1] \in Nat /\ f[n] \in Nat /\ f[k] \in Nat
        BY <1>1, <2>1
      <4>2. f[k] = f[k-1] + MotGroups[s[k]].bytes
        BY <1>2
      <4>3. MotGroups[s[k]].bytes \in Nat \ {0}
        BY <1>4
      <4> QED
        BY <4>1, <4>2, <4>3
    <3>2. CASE k - 1 > n
      BY <1>1, <2>3, <3>1, <3>2
    <3>3. CASE k - 1 = n
      BY <1>1, <2>3, <3>1, <3>3
    <3>4. CASE k - 1 < n
      BY <1>1, <2>3, <3>4
    <3> QED
      BY <1>1, <3>2, <3>3, <3>4
  <2> HIDE DEF T
  <2>4. \A k \in 0..L : k \in T
    BY <1>1, <2>2, <2>3, Ascends
  <2> QED
    BY <2>1, <2>4 DEF T
<1>8. g[n] = f[L] /\ g[n] = f[n]
  BY <1>1, <1>2, <1>3, <1>6
<1>9. n = L
  <2>1. f[n] \in Nat /\ f[L] = f[n]
    BY <1>1, <1>7, <1>8
  <2>2. L > n => f[L] > f[n]
    BY <1>1, <1>7
  <2> QED
    BY <1>1, <2>1, <2>2
<1> QED
  BY <1>5, <1>9, SeqEqual DEF n, L

-----------------------------------------------------------------------------
(* What is collected under a transport id are the first segments of a body,  *)
(* behind the header that belongs to them.                                  *)
EntryOk(t, e) ==
  /\ e = [header |-> e.header, previous |-> e.previous, body |-> e.body]
  /\ e.header \in DOMAIN MotGroups
  /\ MotGroups[e.header].kind = "header" /\ MotGroups[e.header].tid = t
  /\ e.body \in Seq(DOMAIN MotGroups) /\ e.previous = Len(e.body) - 1
  /\ \A i \in 1..Len(e.body) :
       LET g == MotGroups[e.body[i]] IN g.kind = "body" /\ g.tid = t /\ g.num = i - 1

WholeSlides ==
  {Slide([header |-> x[1], previous |-> 0, body |-> x[2]]) :
     x \in {y \in (DOMAIN MotGroups) \X Seq(DOMAIN MotGroups) : Gapless(y[1], y[2])}}

MotOk(m) ==
  /\ m = [map |-> m.map, slides |-> m.slides]
  /\ m.map = [t \in DOMAIN m.map |-> m.map[t]]
  /\ \A t \in DOMAIN m.map : EntryOk(t, m.map[t])
  /\ m.slides \in Seq(WholeSlides)

LEMMA CompleteIsWhole ==
  ASSUME NEW t, NEW e, EntryOk(t, e), Complete(e)
  PROVE  Slide(e) \in WholeSlides
<1> DEFINE x == <<e.header, e.body>>
<1>1. /\ e.header \in DOMAIN MotGroups /\ MotGroups[e.header].kind = "header"
      /\ MotGroups[e.header].tid = t /\ e.body \in Seq(DOMAIN MotGroups)
      /\ \A i \in 1..Len(e.body) : /\ MotGroups[e.body[i]].kind = "body"
                                   /\ MotGroups[e.body[i]].tid = t
                                   /\ MotGroups[e.body[i]].num = i - 1
  BY DEF EntryOk
<1>2. DOMAIN e.body = 1..Len(e.body)
  BY <1>1
<1>3. Gapless(e.header, e.body)
  BY <1>1, <1>2 DEF Gapless, Complete
<1>4. x \in {y \in (DOMAIN MotGroups) \X Seq(DOMAIN MotGroups) : Gapless(y[1], y[2])}
  <2>1. x \in (DOMAIN MotGroups) \X Seq(DOMAIN MotGroups) /\ x[1] = e.header /\ x[2] = e.body
    BY <1>1
  <2> HIDE DEF x
  <2> QED
    BY <1>3, <2>1
<1>5. Slide(e) = Slide([header |-> x[1], previous |-> 0, body |-> x[2]])
  BY DEF Slide
<1> HIDE DEF x
<1> QED
  BY <1>4, <1>5 DEF WholeSlides

(* What is as long as the only object under its transport id is that object. *)
LEMMA AloneIsObject ==
  ASSUME NEW h, NEW body \in Seq(DOMAIN MotGroups), Gapless(h, body), Alone(h)
  PROVE  [header |-> h, body |-> body] \in Objects
<1>1. /\ MotGroups[h].bytes = BodySize(body) /\ DOMAIN body = 1..Len(body)
      /\ \A i \in 1..Len(body) : /\ MotGroups[body[i]].kind = "body"
                                 /\ MotGroups[body[i]].tid = MotGroups[h].tid
                                 /\ MotGroups[body[i]].num = i - 1
  BY DEF Gapless
<1>2. PICK o \in Objects :
        /\ o.header = h
        /\ \A g \in DOMAIN MotGroups :
             MotGroups[g].kind = "body" /\ MotGroups[g].tid = MotGroups[h].tid =>
               MotGroups[g].num + 1 \in DOMAIN o.body /\ o.body[MotGroups[g].num + 1] = g
  BY DEF Alone
<1>3. /\ o = [header |-> h, body |-> o.body] /\ o.body \in Seq(DOMAIN MotGroups)
      /\ MotGroups[h].bytes = BodySize(o.body) /\ DOMAIN o.body = 1..Len(o.body)
      /\ \A i \in 1..Len(o.body) : MotGroups[o.body[i]].bytes \in Nat \ {0}
  <2>1. o \in [header : DOMAIN MotGroups, body : Seq(DOMAIN MotGroups)]
    BY ObjectAssumption
  <2>2. o.body \in Seq(DOMAIN MotGroups) /\ DOMAIN o.body = 1..Len(o.body)
        /\ o = [header |-> o.header, body |-> o.body]
    BY <2>1
  <2> QED
    BY <1>2, <2>2, ObjectAssumption
<1>4. \A i \in 1..Len(body) : i \in 1..Len(o.body) /\ o.body[i] = body[i]
  <2> SUFFICES ASSUME NEW i \in 1..Len(body) PROVE i \in 1..Len(o.body) /\ o.body[i] = body[i]
    OBVIOUS
  <2>1. body[i] \in DOMAIN MotGroups
    OBVIOUS
  <2>2. MotGroups[body[i]].num + 1 = i
    BY <1>1
  <2> QED
    BY <1>1, <1>2, <1>3, <2>1, <2>2
<1>5. Len(body) <= Len(o.body)
  <2>1. Len(body) \in Nat /\ Len(o.body) \in Nat
    BY <1>3
  <2>2. CASE Len(body) = 0
    BY <2>1, <2>2
  <2>3. CASE Len(body) > 0
    <3>1. Len(body) \in 1..Len(body)
      BY <2>1, <2>3
    <3> QED
      BY <1>4, <2>1, <3>1
  <2> QED
    BY <2>1, <2>2, <2>3
<1>6. body = o.body
  <2>1. BodySize(body) = BodySize(o.body)
    BY <1>1, <1>3
  <2> QED
    BY <1>3, <1>4, <1>5, <2>1, BodySizeTells
<1> QED
  BY <1>3, <1>6

LEMMA NewEntry ==
  ASSUME NEW g \in DOMAIN MotGroups, MotGroups[g].kind = "header"
  PROVE  EntryOk(MotGroups[g].tid, Entry(g))
<1>1. Entry(g).body = <<>> /\ Entry(g).header = g /\ Entry(g).previous = -1
  BY DEF Entry
<1>2. Len(<<>>) = 0 /\ <<>> \in Seq(DOMAIN MotGroups)
  OBVIOUS
<1>3. Entry(g) = [header |-> g, previous |-> -1, body |-> <<>>]
  BY DEF Entry
<1> QED
  BY <1>1, <1>2, <1>3 DEF EntryOk

LEMMA HeaderKeeps ==
  ASSUME NEW m, MotOk(m), NEW g \in DOMAIN MotGroups, MotGroups[g].kind = "header"
  PROVE  MotOk(HeaderInput(m, g))
<1> DEFINE tid == MotGroups[g].tid
           map == [t \in DOMAIN m.map \union {tid} |->
                    IF t \in DOMAIN m.map THEN m.map[t] ELSE Entry(g)]
<1>1. CASE tid \in DOMAIN m.map
  BY <1>1 DEF HeaderInput
<1>2. CASE tid \notin DOMAIN m.map
  <2>1. HeaderInput(m, g) = [map |-> map, slides |-> m.slides]
    <3>1. HeaderInput(m, g) = [m EXCEPT !.map = map]
      BY <1>2 DEF HeaderInput
    <3> HIDE DEF map
    <3> QED
      BY <3>1 DEF MotOk
  <2>2. DOMAIN map = DOMAIN m.map \union {tid}
    OBVIOUS
  <2>3. ASSUME NEW t \in DOMAIN map PROVE EntryOk(t, map[t])
    BY <2>2, NewEntry DEF MotOk
  <2> HIDE DEF map
  <2>4. map = [t \in DOMAIN map |-> map[t]]
    BY DEF map
  <2> QED
    BY <2>1, <2>3, <2>4 DEF MotOk
<1> QED
  BY <1>1, <1>2

Extended(e, g) == [e EXCEPT !.previous = MotGroups[g].num, !.body = Append(@, g)]

LEMMA EntryExtends ==
  ASSUME NEW t, NEW e, EntryOk(t, e), NEW g \in DOMAIN MotGroups, MotGroups[g].kind = "body",
         MotGroups[g].tid = t, InSequence(e, g)
  PROVE  EntryOk(t, Extended(e, g))
<1> DEFINE n == Len(e.body)
           body == Append(e.body, g)
           new == Extended(e, g)
<1>1. /\ e = [header |-> e.header, previous |-> e.previous, body |-> e.body]
      /\ e.body \in Seq(DOMAIN MotGroups) /\ e.previous = n - 1 /\ n \in Nat
      /\ \A i \in 1..n : /\ MotGroups[e.body[i]].kind = "body"
                         /\ MotGroups[e.body[i]].tid = t
                         /\ MotGroups[e.body[i]].num = i - 1
  BY DEF EntryOk
<1>2. MotGroups[g].num = n
  BY <1>1 DEF InSequence
<1>3. new = [header |-> e.header, previous |-> n, body |-> body]
  <2>1. new = [e EXCEPT !.previous = n, !.body = body]
    BY <1>2 DEF Extended
  <2> HIDE DEF body, n, new
  <2> QED
    BY <1>1, <2>1
<1>4. /\ body \in Seq(DOMAIN MotGroups) /\ Len(body) = n + 1
      /\ \A i \in 1..(n+1) : body[i] = IF i = n + 1 THEN g ELSE e.body[i]
  BY <1>1
<1> HIDE DEF body, n
<1>5. \A i \in 1..(n+1) : /\ MotGroups[body[i]].kind = "body"
                         /\ MotGroups[body[i]].tid = t
                         /\ MotGroups[body[i]].num = i - 1
  BY <1>1, <1>2, <1>4, SMTT(40)
<1>6. new.header = e.header /\ new.previous = n /\ new.body = body
  BY <1>3
<1> HIDE DEF new
<1>7. EntryOk(t, new)
  BY <1>1, <1>3, <1>4, <1>5, <1>6 DEF EntryOk
<1> QED
  BY <1>7 DEF new

LEMMA BodyKeeps ==
  ASSUME NEW m, MotOk(m), NEW g \in DOMAIN MotGroups, MotGroups[g].kind = "body"
  PROVE  MotOk(BodyInput(m, g))
<1> DEFINE tid == MotGroups[g].tid
           e == m.map[tid]
           new == Extended(e, g)
<1>1. CASE tid \notin DOMAIN m.map
  BY <1>1 DEF BodyInput
<1>2. CASE tid \in DOMAIN m.map
  <2>1. EntryOk(tid, e)
    BY <1>2 DEF MotOk
  <2>2. /\ m = [map |-> m.map, slides |-> m.slides] /\ m.slides \in Seq(WholeSlides)
        /\ m.map = [t \in DOMAIN m.map |-> m.map[t]]
        /\ \A t \in DOMAIN m.map : EntryOk(t, m.map[t])
    BY DEF MotOk
  <2>3. ASSUME NEW done \in Seq(WholeSlides)
        PROVE  MotOk([map |-> Erased(m.map, tid), slides |-> done])
    <3> DEFINE map == Erased(m.map, tid)
    <3>1. /\ map = [t \in DOMAIN map |-> map[t]]
          /\ \A t \in DOMAIN map : t \in DOMAIN m.map /\ map[t] = m.map[t]
      BY DEF Erased
    <3> HIDE DEF map
    <3>2. MotOk([map |-> map, slides |-> done])
      BY <2>2, <3>1 DEF MotOk
    <3> QED
      BY <3>2 DEF map
  <2>4. CASE ~InSequence(e, g)
    <3>1. BodyInput(m, g) = [m EXCEPT !.map = Erased(m.map, tid)]
      BY <1>2, <2>4 DEF BodyInput
    <3>2. BodyInput(m, g) = [map |-> Erased(m.map, tid), slides |-> m.slides]
      BY <2>2, <3>1
    <3> QED
      BY <2>2, <2>3, <3>2
  <2>5. CASE InSequence(e, g)
    <3>1. EntryOk(tid, new)
      BY <2>1, <2>5, EntryExtends
    <3>2. ASSUME NEW done \in Seq(WholeSlides)
          PROVE  MotOk([map |-> [m.map EXCEPT ![tid] = new], slides |-> done])
      <4> DEFINE map == [m.map EXCEPT ![tid] = new]
      <4> HIDE DEF new, e
      <4>1. /\ map = [t \in DOMAIN map |-> map[t]] /\ DOMAIN map = DOMAIN m.map
            /\ \A t \in DOMAIN map : map[t] = IF t = tid THEN new ELSE m.map[t]
        BY <2>2
      <4> HIDE DEF map, tid
      <4>2. MotOk([map |-> map, slides |-> done])
        BY <2>2, <3>1, <4>1 DEF MotOk
      <4> QED
        BY <4>2 DEF map
    <3>3. Complete(new) => Append(m.slides, Slide(new)) \in Seq(WholeSlides)
      <4> HIDE DEF new
      <4> QED
        BY <2>2, <3>1, CompleteIsWhole
    <3> DEFINE all == IF Complete(new) /\ MotGroups[e.header].image
                      THEN Append(m.slides, Slide(new)) ELSE m.slides
    <3>4. all \in Seq(WholeSlides)
      BY <2>2, <3>3
    <3>5. BodyInput(m, g) = [map |-> IF MotGroups[g].last THEN Erased(m.map, tid)
                                     ELSE [m.map EXCEPT ![tid] = new],
                             slides |-> all]
      BY <1>2, <2>5 DEF BodyInput, Extended
    <3> HIDE DEF all, new, tid, e
    <3> QED
      BY <2>3, <3>2, <3>4, <3>5
  <2> QED
    BY <2>4, <2>5
<1> QED
  BY <1>1, <1>2

LEMMA MotKeeps ==
  ASSUME NEW m, MotOk(m), NEW cells
  PROVE  MotOk(MotDataInput(m, cells))
<1> DEFINE g == cells[1][1]
<1>1. CASE ~MotCrcFits(cells)
  BY <1>1 DEF MotDataInput
<1>2. CASE MotCrcFits(cells)
  <2>1. g \in DOMAIN MotGroups
    BY <1>2 DEF MotCrcFits
  <2> HIDE DEF g
  <2>2. MotDataInput(m, cells) = CASE MotGroups[g].kind = "header" -> HeaderInput(m, g)
                                   [] MotGroups[g].kind = "body"   -> BodyInput(m, g)
                                   [] OTHER                        -> m
    BY <1>2 DEF MotDataInput, g
  <2> QED
    BY <2>1, <2>2, HeaderKeeps, BodyKeeps
<1> QED
  BY <1>1, <1>2

-----------------------------------------------------------------------------
(* The PAD decoder: its data group fits into its length or is one of R as it *)
(* began, and no application is remembered whose continuation would be taken *)
(* for the beginning of a data group.                                       *)
RoomOk(R, group, length) == Len(group) <= length \/ <<group, length>> \in R

PadOk(R, r) ==
  /\ r = [last |-> r.last, lastShort |-> r.lastShort, group |-> r.group, length |-> r.length,
          label |-> r.label, mot |-> r.mot]
  /\ r.last \in 0..255 /\ r.lastShort \in 0..255 /\ r.lastShort # MotStart - 1
  /\ r.group \in Seq(PadCells) /\ r.length \in Nat /\ RoomOk(R, r.group, r.length)
  /\ MotOk(r.mot)

LEMMA NoPadOk == ASSUME NEW R PROVE PadOk(R, NoPadSeen)
<1>1. MotOk(NoMot)
  <2>1. NoMot.map = <<>> /\ NoMot.slides = <<>> /\ DOMAIN <<>> = {}
    BY DEF NoMot
  <2>2. <<>> = [t \in DOMAIN <<>> |-> <<>>[t]]
    BY <2>1
  <2>3. <<>> \in Seq(WholeSlides)
    OBVIOUS
  <2> QED
    BY <2>1, <2>2, <2>3 DEF MotOk, NoMot
<1>2. <<>> \in Seq(PadCells) /\ Len(<<>>) = 0
  OBVIOUS
<1> QED
  BY <1>1, <1>2 DEF PadOk, RoomOk, NoPadSeen, Unknown, MotStart

(* A field as the CI of its PAD or an earlier one named it.                  *)
LEMMA LengthKeeps ==
  ASSUME NEW R, NEW r, PadOk(R, r), NEW field \in Seq(PadCells)
  PROVE  /\ PadOk(R, LengthInput(r, field))
         /\ IsLength(field) => /\ LengthInput(r, field).group = <<>>
                               /\ LengthInput(r, field).length = field[1][2]
<1>1. /\ r = [last |-> r.last, lastShort |-> r.lastShort, group |-> r.group,
              length |-> r.length, label |-> r.label, mot |-> r.mot]
      /\ MotOk(r.mot) /\ r.last \in 0..255 /\ r.lastShort \in 0..255
      /\ r.lastShort # MotStart - 1
  BY DEF PadOk
<1>2. <<>> \in Seq(PadCells) /\ Len(<<>>) = 0
  OBVIOUS
<1>3. CASE ~IsLength(field)
  <2>1. LengthInput(r, field) =
          [last |-> r.last, lastShort |-> r.lastShort, group |-> <<>>, length |-> 0,
           label |-> r.label, mot |-> r.mot]
    <3>1. LengthInput(r, field) = [r EXCEPT !.group = <<>>, !.length = 0]
      BY <1>3 DEF LengthInput
    <3> QED
      BY <1>1, <3>1
  <2> QED
    BY <1>1, <1>2, <1>3, <2>1 DEF PadOk, RoomOk
<1>4. CASE IsLength(field)
  <2> DEFINE mot == IF r.group = <<>> THEN r.mot ELSE MotDataInput(r.mot, r.group)
             size == field[1][2]
  <2>1. MotOk(mot)
    BY <1>1, MotKeeps
  <2>2. size \in Nat
    <3>1. field[1] \in PadCells
      <4>1. field # <<>> /\ field[1][1] = "length"
        BY <1>4 DEF IsLength
      <4>2. 1 \in 1..Len(field)
        BY <4>1
      <4> QED
        BY <4>2
    <3> QED
      BY <1>4, <3>1, StationAssumption DEF IsLength
  <2>3. LengthInput(r, field) =
          [last |-> r.last, lastShort |-> r.lastShort, group |-> <<>>, length |-> size,
           label |-> r.label, mot |-> mot]
    <3>1. LengthInput(r, field) = [r EXCEPT !.mot = mot, !.group = <<>>, !.length = size]
      BY <1>4 DEF LengthInput
    <3> HIDE DEF mot, size
    <3> QED
      BY <1>1, <3>1
  <2> HIDE DEF mot
  <2> QED
    BY <1>1, <1>2, <2>1, <2>2, <2>3 DEF PadOk, RoomOk
<1> QED
  BY <1>3, <1>4

LEMMA GroupGrows ==
  ASSUME NEW R, NEW r, PadOk(R, r), NEW group \in Seq(PadCells), RoomOk(R, group, r.length)
  PROVE  PadOk(R, [r EXCEPT !.group = group])
<1>1. /\ r = [last |-> r.last, lastShort |-> r.lastShort, group |-> r.group,
              length |-> r.length, label |-> r.label, mot |-> r.mot]
      /\ MotOk(r.mot) /\ r.last \in 0..255 /\ r.lastShort \in 0..255
      /\ r.lastShort # MotStart - 1 /\ r.length \in Nat
  BY DEF PadOk
<1>2. [r EXCEPT !.group = group] =
        [last |-> r.last, lastShort |-> r.lastShort, group |-> group,
         length |-> r.length, label |-> r.label, mot |-> r.mot]
  BY <1>1
<1> QED
  BY <1>1, <1>2 DEF PadOk

(* Nothing is appended to a group that is longer than its length.            *)
LEMMA ContinuationKeeps ==
  ASSUME NEW R, NEW r, PadOk(R, r), NEW field \in Seq(PadCells)
  PROVE  PadOk(R, MotContinuationInput(r, field))
<1> DEFINE remaining == r.length - Len(r.group)
           more == IF Len(field) <= remaining THEN field ELSE SubSeq(field, 1, remaining)
           group == r.group \o more
<1>1. /\ r.length \in Nat /\ Len(r.group) \in Nat /\ remaining \in Int /\ Len(field) \in Nat
      /\ r.group \in Seq(PadCells) /\ RoomOk(R, r.group, r.length)
  BY DEF PadOk
<1>2. MotContinuationInput(r, field) = [r EXCEPT !.group = group]
  BY DEF MotContinuationInput
<1>3. CASE remaining < 0
  <2>1. more = SubSeq(field, 1, remaining)
    BY <1>1, <1>3
  <2>2. SubSeq(field, 1, remaining) = <<>>
    <3> HIDE DEF remaining
    <3> QED
      BY <1>1, <1>3, SubSeqProperties
  <2>3. more = <<>>
    BY <2>1, <2>2
  <2>4. group = r.group
    BY <1>1, <2>3
  <2> HIDE DEF group
  <2> QED
    BY <1>1, <1>2, <2>4, GroupGrows
<1>4. CASE remaining >= 0
  <2>1. more \in Seq(PadCells) /\ Len(more) <= remaining
    <3> HIDE DEF remaining
    <3>1. CASE Len(field) <= remaining
      BY <3>1
    <3>2. CASE ~(Len(field) <= remaining)
      <4>1. \A i \in 1..remaining : field[i] \in PadCells
        BY <1>1, <1>4, <3>2
      <4>2. /\ SubSeq(field, 1, remaining) \in Seq(PadCells)
            /\ Len(SubSeq(field, 1, remaining)) = remaining
        BY <1>1, <1>4, <3>2, <4>1, SubSeqProperties
      <4> QED
        BY <1>1, <3>2, <4>2
    <3> QED
      BY <3>1, <3>2
  <2> HIDE DEF more
  <2>2. Len(group) = Len(r.group) + Len(more) /\ Len(more) \in Nat /\ group \in Seq(PadCells)
    BY <1>1, <2>1
  <2> HIDE DEF group
  <2>3. Len(group) <= r.length
    BY <1>1, <2>1, <2>2
  <2>4. RoomOk(R, group, r.length)
    BY <2>3 DEF RoomOk
  <2> QED
    BY <1>2, <2>2, <2>4, GroupGrows
<1> QED
  BY <1>1, <1>3, <1>4

LEMMA LabelFree ==
  ASSUME NEW R, NEW r, PadOk(R, r), NEW label
  PROVE  PadOk(R, [r EXCEPT !.label = label])
BY DEF PadOk

LEMMA FieldKeeps ==
  ASSUME NEW R, NEW r, PadOk(R, r), NEW type, NEW field \in Seq(PadCells),
         type = MotStart => r.group = <<>> /\ RoomOk(R, field, r.length)
  PROVE  /\ PadOk(R, FieldInput(r, type, field))
         /\ type = LengthIndicator /\ IsLength(field) =>
              /\ FieldInput(r, type, field).group = <<>>
              /\ FieldInput(r, type, field).length = field[1][2]
<1> USE DEF LengthIndicator, MotStart, MotContinuation, DlsStart, DlsContinuation
<1>1. CASE type = 1
  <2>1. FieldInput(r, type, field) = LengthInput(r, field)
    BY <1>1 DEF FieldInput
  <2> QED
    BY <2>1, LengthKeeps
<1>2. CASE type = 12
  <2>1. FieldInput(r, type, field) = [r EXCEPT !.group = @ \o field]
    BY <1>2 DEF FieldInput
  <2> DEFINE group == r.group \o field
  <2>2. PadOk(R, [r EXCEPT !.group = group])
    <3>1. r.group = <<>> /\ RoomOk(R, field, r.length)
      BY <1>2
    <3>2. group = field
      BY <3>1
    <3> HIDE DEF group
    <3> QED
      BY <3>1, <3>2, GroupGrows
  <2>3. FieldInput(r, type, field) = [r EXCEPT !.group = group]
    BY <2>1
  <2> HIDE DEF group
  <2> QED
    BY <1>2, <2>2, <2>3
<1>3. CASE type = 13
  <2>1. FieldInput(r, type, field) = MotContinuationInput(r, field)
    BY <1>3 DEF FieldInput
  <2> QED
    BY <1>3, <2>1, ContinuationKeeps
<1>4. CASE type = 2
  <2> DEFINE label == LabelStart(r.label, field)
  <2>1. FieldInput(r, type, field) = [r EXCEPT !.label = label]
    BY <1>4 DEF FieldInput
  <2> HIDE DEF label
  <2>2. PadOk(R, [r EXCEPT !.label = label])
    BY LabelFree
  <2> QED
    BY <1>4, <2>1, <2>2
<1>5. CASE type = 3
  <2> DEFINE label == LabelContinuation(r.label, field)
  <2>1. FieldInput(r, type, field) = [r EXCEPT !.label = label]
    BY <1>5 DEF FieldInput
  <2> HIDE DEF label
  <2>2. PadOk(R, [r EXCEPT !.label = label])
    BY LabelFree
  <2> QED
    BY <1>5, <2>1, <2>2
<1>6. CASE type \notin {1, 2, 3, 12, 13}
  BY <1>6 DEF FieldInput
<1> QED
  BY <1>1, <1>2, <1>3, <1>4, <1>5, <1>6

-----------------------------------------------------------------------------
(* All fields of a PAD, one after the other.                                *)
Fields(f, r, types, fields, n) ==
  f = [k \in 0..n |-> IF k = 0 THEN r ELSE FieldInput(f[k-1], types[k], fields[k])]

LEMMA FieldsExist ==
  ASSUME NEW r, NEW types, NEW fields, NEW n \in Nat
  PROVE  \E f : Fields(f, r, types, fields, n)
<1> DEFINE T == {k \in 0..n : \E f : Fields(f, r, types, fields, k)}
<1>1. 0 \in T
  <2>1. Fields([k \in 0..0 |-> r], r, types, fields, 0)
    BY DEF Fields
  <2> QED
    BY <2>1
<1>2. ASSUME NEW k \in 1..n, k - 1 \in T PROVE k \in T
  <2>1. PICK f : Fields(f, r, types, fields, k - 1)
    BY <1>2
  <2> DEFINE g == [j \in 0..k |-> IF j < k THEN f[j] ELSE FieldInput(f[k-1], types[k], fields[k])]
             h == [j \in 0..k |-> IF j = 0 THEN r ELSE FieldInput(g[j-1], types[j], fields[j])]
  <2>2. \A j \in 0..(k-1) : f[j] = IF j = 0 THEN r ELSE FieldInput(f[j-1], types[j], fields[j])
    BY <2>1 DEF Fields
  <2>3. \A j \in 0..k : g[j] = IF j = 0 THEN r ELSE FieldInput(g[j-1], types[j], fields[j])
    BY <2>2
  <2>4. DOMAIN g = DOMAIN h /\ \A j \in 0..k : g[j] = h[j]
    BY <2>3
  <2>5. Fields(g, r, types, fields, k)
    BY <2>4 DEF Fields
  <2> QED
    BY <2>5
<1> HIDE DEF T
<1>3. n \in T
  BY <1>1, <1>2, Ascends
<1> QED
  BY <1>3 DEF T

(* The first field of a data group stands behind its length, and R has those *)
(* that are longer.                                                        *)
Led(R, types, fields) ==
  /\ types \in Seq(0..255) /\ fields \in Seq(Seq(PadCells)) /\ Len(types) <= Len(fields)
  /\ \A k \in 1..Len(types) :
       types[k] = MotStart => /\ k > 1 /\ types[k-1] = LengthIndicator
                              /\ IsLength(fields[k-1])
                              /\ RoomOk(R, fields[k], fields[k-1][1][2])

LEMMA FieldsKeep ==
  ASSUME NEW R, NEW r, PadOk(R, r), NEW types, NEW fields, Led(R, types, fields), NEW f,
         Fields(f, r, types, fields, Len(types))
  PROVE  PadOk(R, f[Len(types)])
<1> DEFINE n == Len(types)
           Behind(k) == k > 0 /\ types[k] = LengthIndicator /\ IsLength(fields[k]) =>
                          f[k].group = <<>> /\ f[k].length = fields[k][1][2]
           T == {k \in 0..n : PadOk(R, f[k]) /\ Behind(k)}
<1>1. /\ n \in Nat /\ Len(fields) \in Nat /\ n <= Len(fields)
      /\ \A k \in 1..n : fields[k] \in Seq(PadCells)
  <2>1. n \in Nat /\ Len(fields) \in Nat /\ n <= Len(fields)
    BY DEF Led
  <2>2. \A k \in 1..Len(fields) : fields[k] \in Seq(PadCells)
    BY DEF Led
  <2> QED
    BY <2>1, <2>2
<1>2. f[0] = r /\ \A k \in 1..n : f[k] = FieldInput(f[k-1], types[k], fields[k])
  <2> HIDE DEF n
  <2>1. \A k \in 0..n : f[k] = IF k = 0 THEN r ELSE FieldInput(f[k-1], types[k], fields[k])
    BY DEF Fields, n
  <2> QED
    BY <1>1, <2>1
<1>3. 0 \in T
  BY <1>1, <1>2
<1>4. ASSUME NEW k \in 1..n, k - 1 \in T PROVE k \in T
  <2>1. PadOk(R, f[k-1]) /\ Behind(k-1)
    BY <1>4
  <2>2. types[k] = MotStart => f[k-1].group = <<>> /\ RoomOk(R, fields[k], f[k-1].length)
    <3> SUFFICES ASSUME types[k] = MotStart
                 PROVE  f[k-1].group = <<>> /\ RoomOk(R, fields[k], f[k-1].length)
      OBVIOUS
    <3>1. /\ k > 1 /\ types[k-1] = LengthIndicator /\ IsLength(fields[k-1])
          /\ RoomOk(R, fields[k], fields[k-1][1][2])
      BY DEF Led
    <3>2. f[k-1].group = <<>> /\ f[k-1].length = fields[k-1][1][2]
      BY <2>1, <3>1, <1>1
    <3> QED
      BY <3>1, <3>2
  <2>3. fields[k] \in Seq(PadCells)
    BY <1>1
  <2>4. f[k] = FieldInput(f[k-1], types[k], fields[k])
    BY <1>2
  <2>5. PadOk(R, f[k]) /\ Behind(k)
    BY <2>1, <2>2, <2>3, <2>4, FieldKeeps
  <2> QED
    BY <1>1, <2>5
<1> HIDE DEF T, n
<1>5. \A k \in 0..n : k \in T
  <2>1. n \in Nat
    BY <1>1
  <2>2. \A k \in 1..n : k - 1 \in T => k \in T
    BY <1>4
  <2> QED
    BY <1>3, <2>1, <2>2, Ascends
<1>6. n \in T
  BY <1>1, <1>5
<1> QED
  BY <1>6 DEF T, n

LEMMA TypesLed ==
  ASSUME NEW R, NEW r, PadOk(R, r), NEW p, IsPadSent(p), PaddedStarts({p}) \subseteq R
  PROVE  Led(R, Types(r, p), p.fields)
<1>1. /\ p.types \in Seq(0..31) /\ p.fields \in Seq(Seq(PadCells)) /\ Len(p.fields) \in Nat
      /\ p.xpad \in {"none", "short", "variable"} /\ p.ci \in BOOLEAN
  BY DEF IsPadSent
<1>2. r.last \in 0..255 /\ r.lastShort \in 0..255 /\ r.lastShort # 11
  BY DEF PadOk, MotStart
<1>3. ASSUME NEW type \in 0..255, type # 12, Types(r, p) = <<type>>, Len(p.fields) = 1
      PROVE  Led(R, Types(r, p), p.fields)
  <2>1. Types(r, p) \in Seq(0..255) /\ Len(Types(r, p)) = 1 /\ \A k \in 1..1 : Types(r, p)[k] # 12
    BY <1>3
  <2> QED
    BY <1>1, <1>3, <2>1 DEF Led, MotStart
<1>4. ASSUME Types(r, p) = <<>> PROVE Led(R, Types(r, p), p.fields)
  <2>1. Types(r, p) \in Seq(0..255) /\ Len(Types(r, p)) = 0
    BY <1>4
  <2> QED
    BY <1>1, <2>1 DEF Led
<1>5. CASE p.xpad = "none"
  BY <1>4, <1>5 DEF Types
<1>6. CASE p.xpad # "none" /\ p.ci
  <2>1. Types(r, p) = p.types
    BY <1>6 DEF Types
  <2>2. p.types \in Seq(0..255)
    BY <1>1, SMTT(40)
  <2>3. Len(p.fields) = Len(p.types) /\ Len(p.types) \in Nat
    BY <1>1, <1>6 DEF IsPadSent
  <2>4. \A k \in 1..Len(p.types) :
          p.types[k] = MotStart => /\ k > 1 /\ p.types[k-1] = LengthIndicator
                                   /\ IsLength(p.fields[k-1])
                                   /\ RoomOk(R, p.fields[k], p.fields[k-1][1][2])
    <3> SUFFICES ASSUME NEW k \in 1..Len(p.types), p.types[k] = MotStart
                 PROVE  /\ k > 1 /\ p.types[k-1] = LengthIndicator
                        /\ IsLength(p.fields[k-1])
                        /\ RoomOk(R, p.fields[k], p.fields[k-1][1][2])
      OBVIOUS
    <3>1. DOMAIN p.types = 1..Len(p.types)
      BY <1>1
    <3>2. k > 1 /\ p.types[k-1] = LengthIndicator /\ IsLength(p.fields[k-1])
      BY <3>1 DEF IsPadSent
    <3> DEFINE size == p.fields[k-1][1][2]
    <3>3. size \in Nat
      <4>1. p.fields[k-1] \in Seq(PadCells)
        BY <1>1, <2>3, <3>2
      <4>2. p.fields[k-1][1] \in PadCells /\ p.fields[k-1][1][1] = "length"
        <5>1. p.fields[k-1] # <<>> /\ p.fields[k-1][1][1] = "length"
          BY <3>2 DEF IsLength
        <5>2. 1 \in 1..Len(p.fields[k-1])
          BY <4>1, <5>1
        <5> QED
          BY <4>1, <5>1, <5>2
      <4> QED
        BY <4>2, StationAssumption
    <3>4. Len(p.fields[k]) \in Nat
      BY <1>1, <2>3
    <3>5. CASE Len(p.fields[k]) > size
      <4>1. k \in {j \in 2 .. Len(p.types) : /\ p.types[j] = MotStart
                                            /\ Len(p.fields[j]) > p.fields[j-1][1][2]}
        BY <2>3, <3>2, <3>5
      <4>2. <<p.fields[k], size>> \in PaddedStarts({p})
        BY <4>1 DEF PaddedStarts
      <4> QED
        BY <3>2, <4>2 DEF RoomOk
    <3>6. CASE Len(p.fields[k]) <= size
      BY <3>2, <3>6 DEF RoomOk
    <3> QED
      BY <3>3, <3>4, <3>5, <3>6
  <2>5. Led(R, p.types, p.fields)
    BY <1>1, <2>2, <2>3, <2>4 DEF Led
  <2> QED
    BY <2>1, <2>5
<1>7. CASE p.xpad = "short" /\ ~p.ci
  <2>1. Len(p.fields) = 1
    BY <1>7 DEF IsPadSent
  <2> DEFINE type == (r.lastShort + 1) % 256
  <2>2. type \in 0..255 /\ type # 12
    BY <1>2
  <2>3. Types(r, p) = <<type>>
    BY <1>7 DEF Types
  <2> HIDE DEF type
  <2> QED
    BY <1>3, <2>1, <2>2, <2>3
<1>8. CASE p.xpad = "variable" /\ ~p.ci
  <2>1. Len(p.fields) = 1
    BY <1>8 DEF IsPadSent
  <2>2. CASE r.last = Unknown
    <3>1. Types(r, p) = <<>>
      BY <1>8, <2>2 DEF Types
    <3> QED
      BY <1>4, <3>1
  <2>3. CASE r.last # Unknown
    <3> DEFINE type == Continued(r.last)
    <3>1. Types(r, p) = <<type>>
      BY <1>8, <2>3 DEF Types
    <3>2. type \in 0..255 /\ type # 12
      BY <1>2, <2>3 DEF Continued, Unknown
    <3> HIDE DEF type
    <3> QED
      BY <1>3, <2>1, <3>1, <3>2
  <2> QED
    BY <2>2, <2>3
<1> QED
  BY <1>1, <1>5, <1>6, <1>7, <1>8

LEMMA RememberedKeeps ==
  ASSUME NEW R, NEW r, PadOk(R, r), NEW p, IsPadSent(p), PaddedStarts({p}) \subseteq R
  PROVE  PadOk(R, Remembered(r, p))
<1> DEFINE types == Types(r, p)
<1>1. CASE p.xpad = "short" /\ p.ci
  <2>1. Remembered(r, p) = [r EXCEPT !.lastShort = p.types[1]]
    BY <1>1 DEF Remembered
  <2>2. p.types[1] \in 0..255 /\ p.types[1] # MotStart - 1
    <3>1. p.types \in Seq(0..31)
      BY DEF IsPadSent
    <3>2. Len(p.types) = 1 /\ p.types[1] # MotStart - 1
      BY <1>1 DEF IsPadSent
    <3>3. 1 \in 1..Len(p.types)
      BY <3>2
    <3>4. p.types[1] \in 0..31
      BY <3>1, <3>3, ElementOfSeq
    <3> QED
      BY <3>2, <3>4
  <2> DEFINE type == p.types[1]
  <2> HIDE DEF type
  <2>3. PadOk(R, [r EXCEPT !.lastShort = type])
    BY <2>2 DEF PadOk, type
  <2> QED
    BY <2>1, <2>3 DEF type
<1>2. CASE p.xpad = "variable" /\ types # <<>>
  <2>1. Remembered(r, p) = [r EXCEPT !.last = Last(types)]
    BY <1>2 DEF Remembered
  <2>2. types \in Seq(0..255)
    BY TypesLed DEF Led
  <2> HIDE DEF types
  <2>3. Last(types) \in 0..255
    <3>1. Len(types) \in 1..Len(types)
      <4>1. Len(types) \in Nat /\ (types # <<>> => Len(types) # 0)
        BY <2>2
      <4> QED
        BY <1>2, <4>1
    <3>2. types[Len(types)] \in 0..255
      BY <2>2, <3>1, ElementOfSeq
    <3> QED
      BY <3>2 DEF Last
  <2> DEFINE type == Last(types)
  <2> HIDE DEF type
  <2>4. PadOk(R, [r EXCEPT !.last = type])
    BY <2>3 DEF PadOk, type
  <2> QED
    BY <2>1, <2>4 DEF type
<1>3. CASE ~(p.xpad = "short" /\ p.ci) /\ ~(p.xpad = "variable" /\ types # <<>>)
  BY <1>3 DEF Remembered
<1> QED
  BY <1>1, <1>2, <1>3

LEMMA CleanKeeps ==
  ASSUME NEW R, NEW r, PadOk(R, r)
  PROVE  PadOk(R, [r EXCEPT !.label.shown = <<>>, !.mot.slides = <<>>])
<1> DEFINE label == [r.label EXCEPT !.shown = <<>>]
           mot == [r.mot EXCEPT !.slides = <<>>]
<1>1. [r EXCEPT !.label.shown = <<>>, !.mot.slides = <<>>] = [r EXCEPT !.label = label, !.mot = mot]
  BY DEF PadOk
<1>2. MotOk(mot)
  <2>1. <<>> \in Seq(WholeSlides)
    OBVIOUS
  <2>2. MotOk(r.mot)
    BY DEF PadOk
  <2>3. mot = [map |-> r.mot.map, slides |-> <<>>]
    BY <2>2 DEF MotOk
  <2> HIDE DEF mot
  <2> QED
    BY <2>1, <2>2, <2>3 DEF MotOk
<1> HIDE DEF label, mot
<1>3. PadOk(R, [r EXCEPT !.label = label, !.mot = mot])
  <2>1. [r EXCEPT !.label = label, !.mot = mot] =
          [last |-> r.last, lastShort |-> r.lastShort, group |-> r.group,
           length |-> r.length, label |-> label, mot |-> mot]
    <3>1. r = [last |-> r.last, lastShort |-> r.lastShort, group |-> r.group,
               length |-> r.length, label |-> r.label, mot |-> r.mot]
      BY DEF PadOk
    <3> DEFINE s == [r EXCEPT !.label = label]
    <3>2. s = [last |-> r.last, lastShort |-> r.lastShort, group |-> r.group,
               length |-> r.length, label |-> label, mot |-> r.mot]
      BY <3>1
    <3>3. [r EXCEPT !.label = label, !.mot = mot] = [s EXCEPT !.mot = mot]
      BY <3>1
    <3> HIDE DEF s
    <3> QED
      BY <3>2, <3>3
  <2> QED
    BY <1>2, <2>1 DEF PadOk
<1> QED
  BY <1>1, <1>3

(* A PAD as it was sent, in whatever state the decoder is.                   *)
LEMMA PadKeeps ==
  ASSUME NEW R, NEW r, PadOk(R, r), NEW p, IsPadSent(p), PaddedStarts({p}) \subseteq R
  PROVE  PadOk(R, PadDataInput(r, p))
<1> DEFINE types == Types(r, p)
           clean == [Remembered(r, p) EXCEPT !.label.shown = <<>>, !.mot.slides = <<>>]
           f == CHOOSE f : Fields(f, clean, types, p.fields, Len(types))
<1>1. PadOk(R, clean)
  BY RememberedKeeps, CleanKeeps
<1>2. Led(R, types, p.fields)
  BY TypesLed
<1>3. PadDataInput(r, p) = f[Len(types)]
  BY DEF PadDataInput, Fields
<1>4. Fields(f, clean, types, p.fields, Len(types))
  <2>1. Len(types) \in Nat
    BY <1>2 DEF Led
  <2> HIDE DEF clean, types
  <2> QED
    BY <2>1, FieldsExist
<1> HIDE DEF f, clean, types
<1>5. PadOk(R, f[Len(types)])
  BY <1>1, <1>2, <1>4, FieldsKeep
<1> QED
  BY <1>3, <1>5

-----------------------------------------------------------------------------
(* Units of the n superframes sent, whatever has become of them; frames.     *)
Headers == {NoHeader, ZeroHeader, Header} \union FalseHeaders

Units(n) == [sf : 1..n, at : Nat, ok : {"ok", "bad", "zero"}, header : Headers]

Frames(n) == {f \in Seq(Units(n)) : Len(f) = FrameSize}

LEMMA HeadersRead ==
  ASSUME NEW h \in Headers, h # NoHeader
  PROVE  IsHeader(h)
<1>1. IsHeader(ZeroHeader)
  <2>1. <<0, 0, 0>> \in Seq(Nat) /\ Len(<<0, 0, 0>>) = 3
    OBVIOUS
  <2> QED
    BY <2>1 DEF IsHeader, ZeroHeader, NumAUs
<1> QED
  BY <1>1, FramesAssumption, ChannelAssumption DEF Headers

(* What synchronizeData keeps.                                             *)
SyncOk(n, y) ==
  /\ y = [data |-> y.data, sync |-> y.sync, count |-> y.count, frames |-> y.frames]
  /\ y.data \in Seq(Units(n)) /\ y.frames \in Seq(Frames(n))

LEMMA TurnKeeps ==
  ASSUME NEW n, NEW y, SyncOk(n, y)
  PROVE  SyncOk(n, Turn(y))
<1>1. /\ y = [data |-> y.data, sync |-> y.sync, count |-> y.count, frames |-> y.frames]
      /\ y.data \in Seq(Units(n)) /\ y.frames \in Seq(Frames(n)) /\ Len(y.data) \in Nat
  BY DEF SyncOk
<1>2. FrameSize \in Nat /\ FrameSize >= 1
  BY FramesAssumption
<1>3. CASE Len(y.data) <= FrameSize
  BY <1>3 DEF Turn
<1>4. CASE ~(Len(y.data) <= FrameSize) /\ FrameBegins(y)
  <2> DEFINE rest  == SubSeq(y.data, FrameSize + 1, Len(y.data))
             frame == SubSeq(y.data, 1, FrameSize)
             frames == Append(y.frames, frame)
  <2>1. rest \in Seq(Units(n))
    <3>1. \A i \in (FrameSize + 1)..Len(y.data) : y.data[i] \in Units(n)
      BY <1>1, <1>2
    <3> QED
      BY <1>1, <1>2, <1>4, <3>1, SubSeqProperties
  <2>2. frame \in Seq(Units(n)) /\ Len(frame) = FrameSize
    <3>1. \A i \in 1..FrameSize : y.data[i] \in Units(n)
      BY <1>1, <1>2, <1>4
    <3> QED
      BY <1>1, <1>2, <1>4, <3>1, SubSeqProperties
  <2>3. frames \in Seq(Frames(n))
    <3>1. frame \in Frames(n)
      BY <2>2 DEF Frames
    <3> HIDE DEF frame
    <3> QED
      BY <1>1, <3>1
  <2>4. Turn(y) = [data |-> rest, sync |-> y.count # 4, count |-> (y.count + 1) % 5,
                   frames |-> frames]
    BY <1>4 DEF Turn, TakeFrame
  <2> HIDE DEF rest, frames
  <2> QED
    BY <2>1, <2>3, <2>4 DEF SyncOk
<1>5. CASE ~(Len(y.data) <= FrameSize) /\ ~FrameBegins(y)
  <2> DEFINE rest == Tail(y.data)
  <2>1. rest \in Seq(Units(n))
    BY <1>1, <1>2, <1>5
  <2>2. Turn(y) = [y EXCEPT !.data = rest]
    BY <1>5 DEF Turn
  <2> HIDE DEF rest
  <2>3. [y EXCEPT !.data = rest] =
          [data |-> rest, sync |-> y.sync, count |-> y.count, frames |-> y.frames]
    BY <1>1
  <2> QED
    BY <1>1, <2>1, <2>2, <2>3 DEF SyncOk
<1> QED
  BY <1>3, <1>4, <1>5

Turns(f, y, n) == f = [k \in 0..n |-> IF k = 0 THEN y ELSE Turn(f[k-1])]

LEMMA TurnsExist ==
  ASSUME NEW y, NEW n \in Nat
  PROVE  \E f : Turns(f, y, n)
<1> DEFINE T == {k \in 0..n : \E f : Turns(f, y, k)}
<1>1. 0 \in T
  <2>1. Turns([k \in 0..0 |-> y], y, 0)
    BY DEF Turns
  <2> QED
    BY <2>1
<1>2. ASSUME NEW k \in 1..n, k - 1 \in T PROVE k \in T
  <2>1. PICK f : Turns(f, y, k - 1)
    BY <1>2
  <2> DEFINE g == [j \in 0..k |-> IF j < k THEN f[j] ELSE Turn(f[k-1])]
             h == [j \in 0..k |-> IF j = 0 THEN y ELSE Turn(g[j-1])]
  <2>2. \A j \in 0..(k-1) : f[j] = IF j = 0 THEN y ELSE Turn(f[j-1])
    BY <2>1 DEF Turns
  <2>3. \A j \in 0..k : g[j] = IF j = 0 THEN y ELSE Turn(g[j-1])
    BY <2>2
  <2>4. DOMAIN g = DOMAIN h /\ \A j \in 0..k : g[j] = h[j]
    BY <2>3
  <2>5. Turns(g, y, k)
    BY <2>4 DEF Turns
  <2> QED
    BY <2>5
<1> HIDE DEF T
<1>3. n \in T
  BY <1>1, <1>2, Ascends
<1> QED
  BY <1>3 DEF T

Started(y, units) == [y EXCEPT !.data = @ \o units, !.frames = <<>>]

LEMMA SynchronizeStarts ==
  ASSUME NEW n, NEW y, SyncOk(n, y), NEW units \in Seq(Units(n))
  PROVE  /\ SyncOk(n, Started(y, units)) /\ Started(y, units).data = y.data \o units
         /\ Started(y, units).sync = y.sync /\ Started(y, units).count = y.count
         /\ Started(y, units).frames = <<>>
<1> DEFINE data == y.data \o units
<1>1. data \in Seq(Units(n))
  BY DEF SyncOk
<1>2. <<>> \in Seq(Frames(n))
  OBVIOUS
<1>3. y = [data |-> y.data, sync |-> y.sync, count |-> y.count, frames |-> y.frames]
  BY DEF SyncOk
<1> HIDE DEF data
<1>4. [y EXCEPT !.data = data, !.frames = <<>>] =
        [data |-> data, sync |-> y.sync, count |-> y.count, frames |-> <<>>]
  <2> DEFINE z == [y EXCEPT !.data = data]
  <2>1. z = [data |-> data, sync |-> y.sync, count |-> y.count, frames |-> y.frames]
    BY <1>3
  <2>2. [y EXCEPT !.data = data, !.frames = <<>>] = [z EXCEPT !.frames = <<>>]
    BY <1>3
  <2> HIDE DEF z
  <2> QED
    BY <2>1, <2>2
<1>5. SyncOk(n, [y EXCEPT !.data = data, !.frames = <<>>])
  BY <1>1, <1>2, <1>4 DEF SyncOk
<1>6. /\ [y EXCEPT !.data = data, !.frames = <<>>].data = data
      /\ [y EXCEPT !.data = data, !.frames = <<>>].sync = y.sync
      /\ [y EXCEPT !.data = data, !.frames = <<>>].count = y.count
      /\ [y EXCEPT !.data = data, !.frames = <<>>].frames = <<>>
  BY <1>4
<1> QED
  BY <1>5, <1>6 DEF data, Started

LEMMA SynchronizeKeeps ==
  ASSUME NEW n, NEW y, SyncOk(n, y), NEW units \in Seq(Units(n))
  PROVE  SyncOk(n, SynchronizeData(y, units))
<1> DEFINE start == Started(y, units)
           size == Len(start.data)
           f == CHOOSE f : Turns(f, start, size)
<1>1. SyncOk(n, start)
  BY SynchronizeStarts
<1>2. SynchronizeData(y, units) = f[size]
  BY DEF SynchronizeData, Turns, Started
<1> HIDE DEF start
<1>3. size \in Nat
  BY <1>1 DEF SyncOk
<1> HIDE DEF size
<1>4. Turns(f, start, size)
  BY <1>3, TurnsExist
<1> HIDE DEF f
<1> DEFINE T == {k \in 0..size : SyncOk(n, f[k])}
<1>5. \A k \in 0..size : f[k] = IF k = 0 THEN start ELSE Turn(f[k-1])
  BY <1>4 DEF Turns
<1>6. 0 \in T
  BY <1>1, <1>3, <1>5
<1>7. ASSUME NEW k \in 1..size, k - 1 \in T PROVE k \in T
  <2>1. f[k] = Turn(f[k-1]) /\ SyncOk(n, f[k-1])
    BY <1>3, <1>5, <1>7
  <2>2. SyncOk(n, f[k])
    BY <2>1, TurnKeeps
  <2> QED
    BY <1>3, <2>2
<1> HIDE DEF T
<1>8. \A k \in 0..size : k \in T
  BY <1>3, <1>6, <1>7, Ascends
<1>9. size \in T
  BY <1>3, <1>8
<1> QED
  BY <1>2, <1>9 DEF T

-----------------------------------------------------------------------------
(* A superframe: as many units as its count of frames says, and AUs that     *)
(* begin and end within it.                                                *)
StartsOk(starts) ==
  /\ starts \in Seq(Nat) /\ starts[1] = 2
  /\ \A i \in 2..Len(starts) : starts[i] <= SuperFrameSize + 1 /\ starts[i] > starts[i-1]

SuperOk(n, p) ==
  /\ p = [data |-> p.data, starts |-> p.starts, count |-> p.count, sync |-> p.sync, aus |-> p.aus]
  /\ p.count \in 0..4 /\ p.sync \in BOOLEAN /\ (~p.sync => p.count = 0)
  /\ p.sync => /\ p.count # 0 /\ p.data \in Seq(Units(n)) /\ Len(p.data) = p.count * FrameSize
               /\ StartsOk(p.starts)
  /\ p.aus \in Seq(Seq(Units(n)))

LEMMA GoodStarts ==
  ASSUME NEW h, IsHeader(h), ~BadStart(Starts(h))
  PROVE  StartsOk(Starts(h))
<1> DEFINE m == NumAUs(h) - 1
           rest == SubSeq(h.starts, 1, m)
<1>1. m \in Nat /\ h.starts \in Seq(Nat) /\ Len(h.starts) \in Nat /\ m <= Len(h.starts)
  <2>1. NumAUs(h) \in {2, 3, 4, 6}
    BY DEF IsHeader, NumAUs
  <2>2. h.starts \in Seq(Nat) /\ Len(h.starts) >= NumAUs(h) - 1
    BY DEF IsHeader
  <2> QED
    BY <2>1, <2>2
<1>2. Starts(h) = <<2>> \o rest
  BY DEF Starts
<1> HIDE DEF m
<1>3. rest \in Seq(Nat)
  <2>1. \A i \in 1..m : h.starts[i] \in Nat
    BY <1>1
  <2> QED
    BY <1>1, <2>1, SubSeqProperties
<1> HIDE DEF rest
<1>4. Starts(h) \in Seq(Nat) /\ Starts(h)[1] = 2
  <2>1. <<2>> \in Seq(Nat) /\ Len(<<2>>) = 1 /\ <<2>>[1] = 2
    OBVIOUS
  <2> QED
    BY <1>2, <1>3, <2>1, ConcatProperties
<1>5. \A i \in 2..Len(Starts(h)) :
        Starts(h)[i] <= SuperFrameSize + 1 /\ Starts(h)[i] > Starts(h)[i-1]
  <2> DEFINE s == Starts(h)
  <2>1. \A i \in 2..Len(s) : ~(s[i] - 1 > SuperFrameSize) /\ ~(s[i] <= s[i-1])
    BY DEF BadStart
  <2>2. \A i \in 2..Len(s) : s[i] \in Nat /\ s[i-1] \in Nat
    <3> HIDE DEF s
    <3>1. s \in Seq(Nat) /\ Len(s) \in Nat
      BY <1>4 DEF s
    <3> QED
      BY <3>1
  <2>3. SuperFrameSize \in Nat
    BY FramesAssumption
  <2> HIDE DEF s
  <2>4. \A i \in 2..Len(s) : s[i] <= SuperFrameSize + 1 /\ s[i] > s[i-1]
    BY <2>1, <2>2, <2>3
  <2> QED
    BY <2>4 DEF s
<1> QED
  BY <1>4, <1>5 DEF StartsOk

LEMMA AccessUnitsWithin ==
  ASSUME NEW n, NEW p, p.data \in Seq(Units(n)), Len(p.data) = 5 * FrameSize, StartsOk(p.starts)
  PROVE  AccessUnits(p) \in Seq(Seq(Units(n)))
<1> DEFINE starts == p.starts
           size == Len(starts)
           ends == Append(starts, SuperFrameSize + 1)
           aus == [j \in 1..size |-> SubSeq(p.data, ends[j], ends[j+1] - 1)]
<1>1. /\ SuperFrameSize \in Nat /\ SuperFrameSize >= 1 /\ SuperFrameSize <= Len(p.data)
      /\ Len(p.data) \in Nat
  BY FramesAssumption
<1>2. /\ starts \in Seq(Nat) /\ size \in Nat /\ starts[1] = 2
      /\ \A i \in 2..size : starts[i] <= SuperFrameSize + 1 /\ starts[i] > starts[i-1]
  BY DEF StartsOk
<1>3. /\ \A i \in 1..size : ends[i] = starts[i]
      /\ ends[size+1] = SuperFrameSize + 1
  BY <1>1, <1>2
<1>4. \A i \in 1..size : starts[i] \in Nat /\ starts[i] >= 1
  <2> SUFFICES ASSUME NEW i \in 1..size PROVE starts[i] \in Nat /\ starts[i] >= 1
    OBVIOUS
  <2>1. \A j \in 1..size : starts[j] \in Nat
    BY <1>2
  <2> HIDE DEF starts, size
  <2>2. CASE i = 1
    BY <1>2, <2>2
  <2>3. CASE i # 1
    <3>1. i \in 2..size /\ i - 1 \in 1..size
      BY <1>2, <2>3
    <3>2. starts[i] \in Nat /\ starts[i-1] \in Nat /\ starts[i] > starts[i-1]
      BY <1>2, <2>1, <3>1
    <3> QED
      BY <3>2
  <2> QED
    BY <2>2, <2>3
<1> HIDE DEF ends, starts, size
<1>5. \A j \in 1..size : aus[j] \in Seq(Units(n))
  <2> SUFFICES ASSUME NEW j \in 1..size PROVE SubSeq(p.data, ends[j], ends[j+1] - 1) \in Seq(Units(n))
    OBVIOUS
  <2> DEFINE from == ends[j]
             to == ends[j+1] - 1
  <2>1. from \in Nat /\ from >= 1
    BY <1>3, <1>4
  <2>2. to \in Int /\ to <= SuperFrameSize
    <3>1. CASE j = size
      BY <1>1, <1>2, <1>3, <3>1
    <3>2. CASE j # size
      <4>1. j + 1 \in 2..size /\ j + 1 \in 1..size
        BY <1>2, <3>2
      <4>2. ends[j+1] = starts[j+1] /\ starts[j+1] \in Nat /\ starts[j+1] <= SuperFrameSize + 1
        BY <1>2, <1>3, <1>4, <4>1
      <4> QED
        BY <1>1, <4>2
    <3> QED
      BY <3>1, <3>2
  <2> HIDE DEF from, to
  <2>3. \A i \in from..to : p.data[i] \in Units(n)
    <3>1. \A i \in from..to : i \in 1..Len(p.data)
      BY <1>1, <2>1, <2>2
    <3> QED
      BY <3>1, ElementOfSeq
  <2>4. SubSeq(p.data, from, to) \in Seq(Units(n))
    BY <2>1, <2>2, <2>3, SubSeqProperties
  <2> QED
    BY <2>4 DEF from, to
<1>6. aus \in Seq(Seq(Units(n)))
  <2>1. DOMAIN aus = 1..size
    OBVIOUS
  <2> HIDE DEF aus
  <2>2. aus = [j \in 1..size |-> aus[j]]
    BY DEF aus
  <2> DEFINE S == Seq(Units(n))
  <2>3. aus \in [1..size -> S]
    BY <1>5, <2>1, <2>2
  <2> HIDE DEF S
  <2>4. aus \in Seq(S)
    BY <1>2, <2>3, SeqDef
  <2> QED
    BY <2>4 DEF S
<1>7. AccessUnits(p) = aus
  <2>1. DOMAIN p.starts = 1..Len(p.starts)
    BY <1>2 DEF starts
  <2> QED
    BY <2>1 DEF AccessUnits, ends, starts, size
<1> QED
  BY <1>6, <1>7

LEMMA NoSuperFrameOk ==
  ASSUME NEW n PROVE SuperOk(n, NoSuperFrame)
<1>1. <<>> \in Seq(Seq(Units(n)))
  OBVIOUS
<1> QED
  BY <1>1 DEF SuperOk, NoSuperFrame

LEMMA BeginKeeps ==
  ASSUME NEW n, NEW p, SuperOk(n, p), p.count = 0, NEW frame \in Frames(n),
         frame[1].header # NoHeader
  PROVE  SuperOk(n, SuperFrameBegins(p, frame))
<1> DEFINE starts == Starts(frame[1].header)
<1>1. FrameSize \in Nat /\ FrameSize >= 1
  BY FramesAssumption
<1>2. frame \in Seq(Units(n)) /\ Len(frame) = FrameSize
  BY DEF Frames
<1>3. frame[1] \in Units(n)
  <2>1. 1 \in 1..Len(frame)
    BY <1>1, <1>2
  <2> QED
    BY <1>2, <2>1, ElementOfSeq
<1>4. IsHeader(frame[1].header)
  <2>1. frame[1].header \in Headers
    BY <1>3 DEF Units
  <2> QED
    BY <2>1, HeadersRead
<1>5. /\ p = [data |-> p.data, starts |-> p.starts, count |-> p.count, sync |-> p.sync,
              aus |-> p.aus]
      /\ p.aus \in Seq(Seq(Units(n))) /\ p.sync = FALSE
  BY DEF SuperOk
<1>6. CASE BadStart(starts)
  <2>1. SuperFrameBegins(p, frame) = [p EXCEPT !.data = <<>>]
    BY <1>6 DEF SuperFrameBegins
  <2>2. SuperFrameBegins(p, frame) =
          [data |-> <<>>, starts |-> p.starts, count |-> p.count, sync |-> p.sync, aus |-> p.aus]
    BY <1>5, <2>1
  <2> QED
    BY <1>5, <2>2 DEF SuperOk
<1>7. CASE ~BadStart(starts)
  <2>1. StartsOk(starts)
    BY <1>4, <1>7, GoodStarts
  <2>2. SuperFrameBegins(p, frame) =
          [p EXCEPT !.data = frame, !.starts = starts, !.count = 1, !.sync = TRUE]
    BY <1>7 DEF SuperFrameBegins
  <2> HIDE DEF starts
  <2>3. SuperFrameBegins(p, frame) =
          [data |-> frame, starts |-> starts, count |-> 1, sync |-> TRUE, aus |-> p.aus]
    BY <1>5, <2>2
  <2>4. Len(frame) = 1 * FrameSize
    BY <1>1, <1>2
  <2> QED
    BY <1>2, <1>5, <2>1, <2>3, <2>4 DEF SuperOk
<1> QED
  BY <1>6, <1>7

LEMMA Replaced ==
  ASSUME NEW p, NEW data, NEW count,
         p = [data |-> p.data, starts |-> p.starts, count |-> p.count, sync |-> p.sync,
              aus |-> p.aus]
  PROVE  [p EXCEPT !.data = data, !.count = count] =
           [data |-> data, starts |-> p.starts, count |-> count, sync |-> p.sync, aus |-> p.aus]
<1> DEFINE z == [p EXCEPT !.data = data]
<1>1. z = [data |-> data, starts |-> p.starts, count |-> p.count, sync |-> p.sync, aus |-> p.aus]
  OBVIOUS
<1>2. [p EXCEPT !.data = data, !.count = count] = [z EXCEPT !.count = count]
  OBVIOUS
<1> HIDE DEF z
<1> QED
  BY <1>1, <1>2

LEMMA GoesOnKeeps ==
  ASSUME NEW n, NEW p, SuperOk(n, p), p.sync, NEW frame \in Frames(n)
  PROVE  SuperOk(n, SuperFrameGoesOn(p, frame))
<1> DEFINE data == p.data \o frame
           count == p.count + 1
           grown == [p EXCEPT !.data = data, !.count = count]
<1>1. FrameSize \in Nat /\ FrameSize >= 1
  BY FramesAssumption
<1>2. frame \in Seq(Units(n)) /\ Len(frame) = FrameSize
  BY DEF Frames
<1>3. /\ p = [data |-> p.data, starts |-> p.starts, count |-> p.count, sync |-> p.sync,
              aus |-> p.aus]
      /\ p.aus \in Seq(Seq(Units(n))) /\ p.sync = TRUE /\ p.count \in 1..4
      /\ p.data \in Seq(Units(n)) /\ Len(p.data) = p.count * FrameSize /\ StartsOk(p.starts)
  BY DEF SuperOk
<1>4. count \in 2..5 /\ data \in Seq(Units(n)) /\ Len(data) = count * FrameSize
  <2>1. data \in Seq(Units(n)) /\ Len(data) = p.count * FrameSize + FrameSize
    <3>1. p.data \in Seq(Units(n)) /\ Len(p.data) = p.count * FrameSize
      BY <1>3
    <3>2. data \in Seq(Units(n)) /\ Len(data) = Len(p.data) + Len(frame)
      BY <1>2, <3>1, ConcatProperties
    <3> QED
      BY <1>2, <3>1, <3>2
  <2>2. \A c \in 1..4 : c * FrameSize + FrameSize = (c + 1) * FrameSize
    <3> SUFFICES ASSUME NEW c \in 1..4 PROVE c * FrameSize + FrameSize = (c + 1) * FrameSize
      OBVIOUS
    <3>1. CASE c = 1
      BY <1>1, <3>1
    <3>2. CASE c = 2
      BY <1>1, <3>2
    <3>3. CASE c = 3
      BY <1>1, <3>3
    <3>4. CASE c = 4
      BY <1>1, <3>4
    <3> QED
      BY <3>1, <3>2, <3>3, <3>4
  <2> QED
    BY <1>3, <2>1, <2>2
<1>5. SuperFrameGoesOn(p, frame) = IF grown.count = 5 THEN SuperFrameEnds(grown) ELSE grown
  BY DEF SuperFrameGoesOn
<1> HIDE DEF data, count
<1>6. grown = [data |-> data, starts |-> p.starts, count |-> count, sync |-> p.sync, aus |-> p.aus]
  <2>1. p = [data |-> p.data, starts |-> p.starts, count |-> p.count, sync |-> p.sync,
             aus |-> p.aus]
    BY DEF SuperOk
  <2> QED
    BY <2>1, Replaced
<1> HIDE DEF grown
<1>7. CASE count = 5
  <2> DEFINE aus == AccessUnits(grown)
  <2>1. aus \in Seq(Seq(Units(n)))
    BY <1>3, <1>4, <1>6, <1>7, AccessUnitsWithin
  <2>2. SuperFrameGoesOn(p, frame) =
          [grown EXCEPT !.aus = aus, !.count = 0, !.sync = FALSE]
    BY <1>5, <1>6, <1>7 DEF SuperFrameEnds
  <2> HIDE DEF aus
  <2>3. SuperFrameGoesOn(p, frame) =
          [data |-> data, starts |-> p.starts, count |-> 0, sync |-> FALSE, aus |-> aus]
    BY <1>6, <2>2
  <2> QED
    BY <2>1, <2>3 DEF SuperOk
<1>8. CASE count # 5
  <2>1. SuperFrameGoesOn(p, frame) = grown
    BY <1>5, <1>6, <1>8
  <2>2. count \in 2..4
    BY <1>4, <1>8
  <2> QED
    BY <1>3, <1>4, <1>6, <2>1, <2>2 DEF SuperOk
<1> QED
  BY <1>7, <1>8

LEMMA ProcessKeeps ==
  ASSUME NEW n, NEW p, SuperOk(n, p), NEW frame \in Frames(n)
  PROVE  SuperOk(n, ProcessData(p, frame))
<1> DEFINE q == [p EXCEPT !.aus = <<>>]
<1>1. q = [data |-> p.data, starts |-> p.starts, count |-> p.count, sync |-> p.sync, aus |-> <<>>]
  BY DEF SuperOk
<1>2. SuperOk(n, q)
  <2>1. <<>> \in Seq(Seq(Units(n)))
    OBVIOUS
  <2> HIDE DEF q
  <2> QED
    BY <1>1, <2>1 DEF SuperOk
<1>3. q.count \in 0..4
  BY <1>2 DEF SuperOk
<1>4. ProcessData(p, frame) = IF q.count = 0 /\ frame[1].header # NoHeader
                              THEN SuperFrameBegins(q, frame)
                              ELSE IF q.sync THEN SuperFrameGoesOn(q, frame) ELSE q
  <2>1. ~(q.count > 5)
    BY <1>3
  <2> QED
    BY <2>1 DEF ProcessData
<1> HIDE DEF q
<1> QED
  BY <1>2, <1>4, BeginKeeps, GoesOnKeeps

-----------------------------------------------------------------------------
(* The units sent, and the places of their AUs.                             *)
LEMMA Product ==
  ASSUME NEW b \in Nat, NEW k \in Nat
  PROVE  k * b \in Nat
OBVIOUS

LEMMA Division ==
  ASSUME NEW a \in Nat, NEW b \in Nat \ {0}
  PROVE  a \div b \in Nat /\ a % b \in Nat /\ a % b < b /\ a = (b * (a \div b)) + (a % b)
OBVIOUS

LEMMA Quotient ==
  ASSUME NEW a \in Nat, NEW b \in Nat \ {0}, NEW s \in Nat, a < s * b
  PROVE  a \div b < s
<1> DEFINE q == a \div b
          r == a % b
<1>1. q \in Nat /\ r \in Nat /\ a = b * q + r
  BY Division
<1> HIDE DEF q, r
<1>2. SUFFICES ASSUME q >= s PROVE FALSE
  BY <1>1 DEF q
<1>3. (q - s) * b \in Nat
  <2>1. q - s \in Nat
    BY <1>1, <1>2
  <2> QED
    BY <2>1, Product
<1>4. (q - s) * b = q * b - s * b /\ q * b = b * q
  BY <1>1
<1>5. q * b \in Nat /\ s * b \in Nat
  BY <1>1, Product
<1> DEFINE x == q * b
           y == s * b
<1>6. a = x + r /\ x - y \in Nat /\ a < y
  BY <1>1, <1>3, <1>4
<1>7. x \in Nat /\ y \in Nat
  BY <1>5
<1> HIDE DEF x, y
<1> QED
  BY <1>1, <1>6, <1>7

LEMMA AUsFew == AUs \in {2, 3, 4, 6}
BY FramesAssumption DEF AUs, IsHeader, NumAUs

LEMMA SuperFramesFit ==
  ASSUME station \in Stations
  PROVE  /\ Len(station) \in Nat /\ SuperFrames \in Nat
         /\ \A f \in 1..SuperFrames, j \in 1..AUs : (f - 1) * AUs + j \in 1..Len(station)
<1> DEFINE size == Len(station)
<1>1. size \in Nat
  BY StationAssumption
<1>2. SuperFrames = size \div AUs
  BY DEF SuperFrames
<1> HIDE DEF size
<1>3. CASE AUs = 2
  BY <1>1, <1>2, <1>3 DEF size
<1>4. CASE AUs = 3
  BY <1>1, <1>2, <1>4 DEF size
<1>5. CASE AUs = 4
  BY <1>1, <1>2, <1>5 DEF size
<1>6. CASE AUs = 6
  BY <1>1, <1>2, <1>6 DEF size
<1> QED
  BY <1>3, <1>4, <1>5, <1>6, AUsFew

LEMMA SentIsUnit ==
  ASSUME station \in Stations, NEW n \in Nat, n >= 1, n <= SuperFrames * SentPerSuperFrame
  PROVE  Sent(n) \in Units(SuperFrames)
<1> DEFINE b == SentPerSuperFrame
           at == ((n - 1) % b) + 1
           sf == ((n - 1) \div b) + 1
           h == IF at = 1 THEN Header ELSE NoHeader
<1>1. b \in Nat \ {0} /\ SuperFrames \in Nat /\ n - 1 \in Nat
  BY FramesAssumption, SuperFramesFit DEF SentPerSuperFrame
<1>2. Sent(n) = [sf |-> sf, at |-> at, ok |-> "ok", header |-> h]
  BY DEF Sent, SuperFrameOf
<1> HIDE DEF b
<1>3. (n - 1) \div b < SuperFrames /\ (n - 1) \div b \in Nat /\ (n - 1) % b \in Nat
  <2>1. SuperFrames * b \in Nat
    BY <1>1, Product
  <2>2. n - 1 < SuperFrames * b
    <3>1. n <= SuperFrames * b
      BY DEF b
    <3> HIDE DEF b
    <3> QED
      BY <2>1, <3>1
  <2> QED
    BY <1>1, <2>2, Quotient, Division
<1>4. sf \in 1..SuperFrames /\ at \in Nat
  BY <1>1, <1>3
<1>5. h \in Headers
  BY DEF Headers
<1> HIDE DEF sf, at, h
<1> QED
  BY <1>2, <1>4, <1>5 DEF Units

LEMMA MinOfTwo ==
  ASSUME NEW a \in Int, NEW b \in Int
  PROVE  Min({a, b}) \in {a, b} /\ Min({a, b}) <= a /\ Min({a, b}) <= b
<1>1. \E x \in {a, b} : \A y \in {a, b} : x <= y
  <2>1. CASE a <= b
    BY <2>1
  <2>2. CASE b <= a
    BY <2>2
  <2> QED
    BY <2>1, <2>2
<1> QED
  BY <1>1 DEF Min

LEMMA ChunkIsUnits ==
  ASSUME station \in Stations, air \in Nat, More
  PROVE  /\ NextChunk \in Seq(Units(SuperFrames)) /\ Len(NextChunk) \in Nat
         /\ Len(NextChunk) <= ChunkSize
<1> DEFINE all == SuperFrames * SentPerSuperFrame
           m == Min({ChunkSize, all - air})
<1>1. all \in Nat
  <2>1. SuperFrames \in Nat /\ SentPerSuperFrame \in Nat
    BY FramesAssumption, SuperFramesFit DEF SentPerSuperFrame
  <2> QED
    BY <2>1, Product
<1>2. air < all
  BY DEF More
<1>3. NextChunk = [k \in 1..m |-> Sent(air + k)]
  BY DEF NextChunk
<1>4. ChunkSize \in Nat
  BY ChannelAssumption
<1>5. \A k \in Nat : k >= 1 /\ k <= all => Sent(k) \in Units(SuperFrames)
  BY SentIsUnit
<1> HIDE DEF all
<1>6. m \in Nat /\ m <= ChunkSize /\ m <= all - air
  <2> DEFINE left == all - air
  <2>1. left \in Nat
    BY <1>1, <1>2
  <2> HIDE DEF left
  <2>2. Min({ChunkSize, left}) \in {ChunkSize, left} /\ Min({ChunkSize, left}) <= ChunkSize
        /\ Min({ChunkSize, left}) <= left
    BY <1>4, <2>1, MinOfTwo
  <2> QED
    BY <1>4, <2>1, <2>2 DEF left
<1> HIDE DEF m
<1>7. \A k \in 1..m : Sent(air + k) \in Units(SuperFrames)
  <2> SUFFICES ASSUME NEW k \in 1..m PROVE Sent(air + k) \in Units(SuperFrames)
    OBVIOUS
  <2>1. air + k \in Nat /\ air + k >= 1 /\ air + k <= all
    BY <1>1, <1>6
  <2> QED
    BY <1>5, <2>1
<1>8. NextChunk \in [1..m -> Units(SuperFrames)]
  BY <1>3, <1>7
<1> QED
  BY <1>6, <1>8, SeqDef

-----------------------------------------------------------------------------
(* The PAD decoder gets PADs of the station only, so that what it hands on   *)
(* are whole slides.                                                       *)
LEMMA PlaceOfStation ==
  ASSUME station \in Stations, NEW au \in Seq(Units(SuperFrames)), CrcFits(au)
  PROVE  IsPadSent(station[Place(au)]) /\ station[Place(au)] \in ToSet(station)
<1> DEFINE starts == Starts(Header)
           j == CHOOSE j \in 1..AUs : starts[j] = au[1].at
<1>1. au[1] \in Units(SuperFrames)
  <2>1. au # <<>>
    BY DEF CrcFits
  <2>2. 1 \in 1..Len(au)
    BY <2>1
  <2> QED
    BY <2>2, ElementOfSeq
<1>2. au[1].sf \in 1..SuperFrames
  BY <1>1 DEF Units
<1>3. j \in 1..AUs
  <2>1. PICK k \in 1..AUs : au[1].at = Append(starts, SuperFrameSize + 1)[k]
    BY DEF CrcFits, AUs
  <2>2. starts \in Seq(Nat) /\ Len(starts) = AUs
    <3> DEFINE m == AUs - 1
               rest == SubSeq(Header.starts, 1, m)
    <3>1. m \in Nat /\ m >= 1 /\ Header.starts \in Seq(Nat) /\ Len(Header.starts) >= m
      BY FramesAssumption, AUsFew DEF IsHeader, AUs
    <3>2. starts = <<2>> \o rest
      BY DEF Starts, AUs
    <3> HIDE DEF m
    <3>3. \A i \in 1..m : Header.starts[i] \in Nat
      BY <3>1
    <3>4. rest \in Seq(Nat) /\ Len(rest) = m
      BY <3>1, <3>3, SubSeqProperties
    <3> HIDE DEF rest
    <3>5. <<2>> \in Seq(Nat) /\ Len(<<2>>) = 1
      OBVIOUS
    <3>6. starts \in Seq(Nat) /\ Len(starts) = 1 + m
      BY <3>2, <3>4, <3>5, ConcatProperties
    <3> QED
      BY <3>6, AUsFew DEF m
  <2> HIDE DEF starts
  <2>3. SuperFrameSize + 1 \in Nat
    BY FramesAssumption
  <2>4. k \in 1..Len(starts)
    BY <2>2
  <2>5. starts[k] = au[1].at
    BY <2>1, <2>2, <2>3, <2>4, AppendProperties
  <2> QED
    BY <2>5
<1>4. Place(au) = (au[1].sf - 1) * AUs + j
  BY DEF Place
<1> HIDE DEF j
<1>5. Place(au) \in 1..Len(station)
  BY <1>2, <1>3, <1>4, SuperFramesFit
<1>6. station[Place(au)] \in ToSet(station)
  <2>1. DOMAIN station = 1..Len(station)
    BY StationAssumption
  <2> QED
    BY <1>5, <2>1 DEF ToSet
<1> QED
  BY <1>6, StationAssumption

HeardNext(h, au) == IF CrcFits(au) THEN Hear(h, Place(au)) ELSE h

Rooms == PaddedStarts(ToSet(station))

LEMMA PaddedStartsGrow ==
  ASSUME NEW pads, NEW p \in pads
  PROVE  PaddedStarts({p}) \subseteq PaddedStarts(pads)
<1> DEFINE Of(q) == {<<q.fields[k], q.fields[k-1][1][2]>> :
                       k \in {j \in 2 .. Len(q.types) : /\ q.types[j] = MotStart
                                                       /\ Len(q.fields[j]) > q.fields[j-1][1][2]}}
<1>1. \A s : PaddedStarts(s) = UNION {Of(q) : q \in s}
  BY DEF PaddedStarts
<1> HIDE DEF Of
<1> QED
  BY <1>1, Zenon

HeardOk(h) == PadOk(Rooms, h.pad) /\ \A s \in h.slides : s.slide \in WholeSlides

LEMMA HearKeeps ==
  ASSUME station \in Stations, NEW h, HeardOk(h), NEW au \in Seq(Units(SuperFrames))
  PROVE  HeardOk(HeardNext(h, au))
<1>1. CASE ~CrcFits(au)
  BY <1>1 DEF HeardNext
<1>2. CASE CrcFits(au)
  <2> DEFINE i == Place(au)
             next == PadDataInput(h.pad, station[i])
             after == Hear(h, i)
  <2>1. PadOk(Rooms, next)
    <3>1. IsPadSent(station[i]) /\ station[i] \in ToSet(station)
      BY <1>2, PlaceOfStation
    <3>2. PaddedStarts({station[i]}) \subseteq Rooms
      BY <3>1, PaddedStartsGrow DEF Rooms
    <3> QED
      BY <3>1, <3>2, PadKeeps DEF HeardOk
  <2>2. /\ after.pad = next
        /\ after.slides = h.slides \union {[at |-> i, slide |-> l] : l \in ToSet(next.mot.slides)}
    BY DEF Hear
  <2>3. HeardNext(h, au) = after
    BY <1>2 DEF HeardNext
  <2> HIDE DEF i, next, after
  <2>4. next.mot.slides \in Seq(WholeSlides)
    BY <2>1 DEF PadOk, MotOk
  <2>5. ToSet(next.mot.slides) \subseteq WholeSlides
    <3> DEFINE all == next.mot.slides
    <3> HIDE DEF all
    <3>1. DOMAIN all = 1..Len(all) /\ \A k \in 1..Len(all) : all[k] \in WholeSlides
      BY <2>4 DEF all
    <3>2. ToSet(all) \subseteq WholeSlides
      BY <3>1 DEF ToSet
    <3> QED
      BY <3>2 DEF all
  <2>6. \A s \in after.slides : s.slide \in WholeSlides
    <3> SUFFICES ASSUME NEW s \in after.slides PROVE s.slide \in WholeSlides
      OBVIOUS
    <3>1. CASE s \in h.slides
      BY <3>1 DEF HeardOk
    <3>2. CASE s \in {[at |-> i, slide |-> l] : l \in ToSet(next.mot.slides)}
      BY <2>5, <3>2
    <3> QED
      BY <2>2, <3>1, <3>2
  <2> QED
    BY <2>1, <2>2, <2>3, <2>6 DEF HeardOk
<1> QED
  BY <1>1, <1>2

(* All AUs of a superframe, one after the other.                            *)
Hearings(f, r, aus, n) ==
  f = [k \in 0..n |-> IF k = 0 THEN Unheard(r) ELSE HeardNext(f[k-1], aus[k])]

LEMMA HearingsExist ==
  ASSUME NEW r, NEW aus, NEW n \in Nat
  PROVE  \E f : Hearings(f, r, aus, n)
<1> DEFINE T == {k \in 0..n : \E f : Hearings(f, r, aus, k)}
<1>1. 0 \in T
  <2>1. Hearings([k \in 0..0 |-> Unheard(r)], r, aus, 0)
    BY DEF Hearings
  <2> QED
    BY <2>1
<1>2. ASSUME NEW k \in 1..n, k - 1 \in T PROVE k \in T
  <2>1. PICK f : Hearings(f, r, aus, k - 1)
    BY <1>2
  <2> DEFINE g == [j \in 0..k |-> IF j < k THEN f[j] ELSE HeardNext(f[k-1], aus[k])]
             h == [j \in 0..k |-> IF j = 0 THEN Unheard(r) ELSE HeardNext(g[j-1], aus[j])]
  <2>2. \A j \in 0..(k-1) : f[j] = IF j = 0 THEN Unheard(r) ELSE HeardNext(f[j-1], aus[j])
    BY <2>1 DEF Hearings
  <2>3. \A j \in 0..k : g[j] = IF j = 0 THEN Unheard(r) ELSE HeardNext(g[j-1], aus[j])
    BY <2>2
  <2>4. DOMAIN g = DOMAIN h /\ \A j \in 0..k : g[j] = h[j]
    BY <2>3
  <2>5. Hearings(g, r, aus, k)
    BY <2>4 DEF Hearings
  <2> QED
    BY <2>5
<1> HIDE DEF T
<1>3. n \in T
  BY <1>1, <1>2, Ascends
<1> QED
  BY <1>3 DEF T

LEMMA HandledKeeps ==
  ASSUME station \in Stations, NEW r, PadOk(Rooms, r), NEW aus \in Seq(Seq(Units(SuperFrames)))
  PROVE  HeardOk(Handled(r, aus))
<1> DEFINE size == Len(aus)
           f == CHOOSE f : Hearings(f, r, aus, size)
<1>1. size \in Nat /\ \A k \in 1..size : aus[k] \in Seq(Units(SuperFrames))
  OBVIOUS
<1>2. Handled(r, aus) = f[size]
  BY DEF Handled, Hearings, HeardNext, Hear, Unheard
<1> HIDE DEF size
<1>3. Hearings(f, r, aus, size)
  BY <1>1, HearingsExist
<1> HIDE DEF f
<1> DEFINE T == {k \in 0..size : HeardOk(f[k])}
<1>4. \A k \in 0..size : f[k] = IF k = 0 THEN Unheard(r) ELSE HeardNext(f[k-1], aus[k])
  BY <1>3 DEF Hearings
<1>5. 0 \in T
  <2>1. HeardOk(Unheard(r))
    BY DEF HeardOk, Unheard
  <2> QED
    BY <1>1, <1>4, <2>1
<1>6. ASSUME NEW k \in 1..size, k - 1 \in T PROVE k \in T
  <2>1. f[k] = HeardNext(f[k-1], aus[k]) /\ HeardOk(f[k-1])
    BY <1>1, <1>4, <1>6
  <2>2. aus[k] \in Seq(Units(SuperFrames))
    BY <1>1
  <2>3. HeardOk(f[k])
    BY <2>1, <2>2, HearKeeps
  <2> QED
    BY <1>1, <2>3
<1> HIDE DEF T
<1>7. \A k \in 0..size : k \in T
  BY <1>1, <1>5, <1>6, Ascends
<1>8. size \in T
  BY <1>1, <1>7
<1> QED
  BY <1>2, <1>8 DEF T

-----------------------------------------------------------------------------
(* What holds between the calls of componentMscDataInput and of the thread.  *)
ProgrammeInv ==
  /\ station \in Stations /\ air \in Nat
  /\ SyncOk(SuperFrames, sync) /\ queue \in Seq(Frames(SuperFrames))
  /\ SuperOk(SuperFrames, super)
  /\ PadOk(Rooms, pad)
  /\ \A s \in slides : s.slide \in WholeSlides

LEMMA ProgrammeBegins == Init => ProgrammeInv
<1> SUFFICES ASSUME Init PROVE ProgrammeInv
  OBVIOUS
<1> DEFINE n == SuperFrames
<1>1. <<>> \in Seq(Frames(n)) /\ <<>> \in Seq(Units(n))
  OBVIOUS
<1>2. SyncOk(n, NoSync)
  <2> HIDE DEF n
  <2> QED
    BY <1>1 DEF SyncOk, NoSync
<1>3. air \in Nat
  BY FramesAssumption DEF Init, DeliveryInit, SentPerSuperFrame
<1> QED
  BY <1>1, <1>2, <1>3, NoSuperFrameOk, NoPadOk DEF Init, DeliveryInit, ProgrammeInv

LEMMA InputKeeps ==
  ASSUME ProgrammeInv, NEW units \in Seq(Units(SuperFrames)), Input(units), air' \in Nat
  PROVE  ProgrammeInv'
<1> DEFINE y == SynchronizeData(sync, units)
           n == SuperFrames
<1>1. SyncOk(n, y)
  BY SynchronizeKeeps DEF ProgrammeInv
<1>2. /\ sync' = [y EXCEPT !.frames = <<>>] /\ queue' = queue \o y.frames
      /\ UNCHANGED <<station, super, pad, heard, shown, slides>>
  BY DEF Input, deliveryVars
<1>3. SuperFrames' = n /\ Rooms' = Rooms
  BY <1>2 DEF SuperFrames, Rooms
<1> HIDE DEF y, n
<1>4. SyncOk(n, sync')
  <2>1. y = [data |-> y.data, sync |-> y.sync, count |-> y.count, frames |-> y.frames]
    BY <1>1 DEF SyncOk
  <2>2. sync' = [data |-> y.data, sync |-> y.sync, count |-> y.count, frames |-> <<>>]
    BY <1>2, <2>1
  <2>3. <<>> \in Seq(Frames(n))
    OBVIOUS
  <2> QED
    BY <1>1, <2>2, <2>3 DEF SyncOk
<1>5. queue' \in Seq(Frames(n))
  <2>1. queue \in Seq(Frames(n)) /\ y.frames \in Seq(Frames(n))
    BY <1>1 DEF SyncOk, ProgrammeInv, n
  <2> QED
    BY <1>2, <2>1, ConcatProperties
<1>6. station \in Stations /\ SuperOk(n, super) /\ PadOk(Rooms, pad)
      /\ \A s \in slides : s.slide \in WholeSlides
  BY DEF ProgrammeInv, n
<1> QED
  BY <1>2, <1>3, <1>4, <1>5, <1>6 DEF ProgrammeInv

LEMMA FaultyKeeps ==
  ASSUME ProgrammeInv, NEW at \in FaultAt, NEW upTo \in Int, at <= upTo, NEW units,
         Faulty(at, upTo, units),
         upTo <= Len(NextChunk) => units \in Seq(Units(SuperFrames))
  PROVE  ProgrammeInv'
<1> DEFINE U == Units(SuperFrames)
           chunk == NextChunk
           before == SubSeq(chunk, 1, at - 1)
           behind == SubSeq(chunk, upTo + 1, Len(chunk))
           all == before \o units \o behind
<1>1. /\ More /\ upTo <= Len(NextChunk) /\ Input(all) /\ air' = air + Len(NextChunk)
  BY DEF Faulty
<1>2. /\ chunk \in Seq(U) /\ Len(chunk) \in Nat /\ air \in Nat
  BY <1>1, ChunkIsUnits DEF ProgrammeInv
<1>3. at \in Nat /\ at >= 1
  BY ChannelAssumption
<1>4. units \in Seq(U) /\ upTo <= Len(chunk)
  BY <1>1
<1>5. air' \in Nat
  BY <1>1, <1>2
<1>6. before \in Seq(U) /\ behind \in Seq(U)
  <2> HIDE DEF chunk, U
  <2>1. \A i \in 1..Len(chunk) : chunk[i] \in U
    BY <1>2
  <2>2. \A i \in 1..(at - 1) : chunk[i] \in U
    BY <1>2, <1>3, <1>4, <2>1
  <2>3. \A i \in (upTo + 1)..Len(chunk) : chunk[i] \in U
    BY <1>2, <1>3, <1>4, <2>1
  <2> QED
    BY <1>2, <1>3, <2>2, <2>3, SubSeqProperties
<1>7. all \in Seq(U)
  <2> HIDE DEF before, behind, U
  <2>1. before \o units \in Seq(U)
    BY <1>4, <1>6, ConcatProperties
  <2> QED
    BY <1>6, <2>1, ConcatProperties
<1> HIDE DEF all
<1> QED
  BY <1>1, <1>5, <1>7, InputKeeps

LEMMA ReceiveKeeps ==
  ASSUME ProgrammeInv, Receive
  PROVE  ProgrammeInv'
<1>1. More /\ Input(NextChunk) /\ air' = air + Len(NextChunk)
  BY DEF Receive
<1>2. NextChunk \in Seq(Units(SuperFrames)) /\ Len(NextChunk) \in Nat /\ air \in Nat
  BY <1>1, ChunkIsUnits DEF ProgrammeInv
<1> DEFINE chunk == NextChunk
<1> HIDE DEF chunk
<1>3. air' \in Nat
  BY <1>1, <1>2
<1> QED
  BY <1>1, <1>2, <1>3, InputKeeps

LEMMA NextUnit ==
  ASSUME ProgrammeInv, More, NEW at \in FaultAt, at <= Len(NextChunk)
  PROVE  NextChunk[at] \in Units(SuperFrames)
<1>1. NextChunk \in Seq(Units(SuperFrames)) /\ Len(NextChunk) \in Nat
  BY ChunkIsUnits DEF ProgrammeInv
<1>2. at \in 1..Len(NextChunk)
  BY <1>1, ChannelAssumption
<1> QED
  BY <1>1, <1>2, ElementOfSeq

LEMMA LoseKeeps == ASSUME ProgrammeInv, Lose PROVE ProgrammeInv'
<1>1. PICK at \in FaultAt, upTo \in {1, ChunkSize} : at <= upTo /\ Faulty(at, upTo, <<>>)
  BY DEF Lose
<1>2. upTo \in Int
  BY ChannelAssumption
<1>3. <<>> \in Seq(Units(SuperFrames))
  OBVIOUS
<1> QED
  BY <1>1, <1>2, <1>3, FaultyKeeps

LEMMA DamageKeeps == ASSUME ProgrammeInv, Damage PROVE ProgrammeInv'
<1>1. PICK at \in FaultAt :
        Faulty(at, at, <<[NextChunk[at] EXCEPT !.ok = "bad", !.header = NoHeader]>>)
  BY DEF Damage
<1> DEFINE u == NextChunk[at]
           bad == [u EXCEPT !.ok = "bad", !.header = NoHeader]
<1>2. at \in Int /\ at <= at /\ More
  BY <1>1, ChannelAssumption DEF Faulty
<1>3. ASSUME at <= Len(NextChunk) PROVE <<bad>> \in Seq(Units(SuperFrames))
  <2>1. u \in Units(SuperFrames)
    BY <1>2, <1>3, NextUnit
  <2>2. NoHeader \in Headers
    BY DEF Headers
  <2> HIDE DEF u
  <2>3. bad \in Units(SuperFrames)
    BY <2>1, <2>2 DEF Units
  <2> HIDE DEF bad
  <2> QED
    BY <2>3
<1> QED
  BY <1>1, <1>2, <1>3, FaultyKeeps

LEMMA ChanceKeeps == ASSUME ProgrammeInv, Chance PROVE ProgrammeInv'
<1>1. PICK at \in FaultAt, h \in FalseHeaders :
        Faulty(at, at, <<[NextChunk[at] EXCEPT !.header = h]>>)
  BY DEF Chance
<1> DEFINE u == NextChunk[at]
           false == [u EXCEPT !.header = h]
<1>2. at \in Int /\ at <= at /\ More
  BY <1>1, ChannelAssumption DEF Faulty
<1>3. ASSUME at <= Len(NextChunk) PROVE <<false>> \in Seq(Units(SuperFrames))
  <2>1. u \in Units(SuperFrames)
    BY <1>2, <1>3, NextUnit
  <2>2. h \in Headers
    BY DEF Headers
  <2> HIDE DEF u
  <2>3. false \in Units(SuperFrames)
    BY <2>1, <2>2 DEF Units
  <2> HIDE DEF false
  <2> QED
    BY <2>3
<1> QED
  BY <1>1, <1>2, <1>3, FaultyKeeps

LEMMA SilenceKeeps == ASSUME ProgrammeInv, Silence PROVE ProgrammeInv'
<1>1. PICK at \in FaultAt :
        Faulty(at, ChunkSize, [k \in 1..(ChunkSize - at + 1) |->
          [NextChunk[at] EXCEPT !.ok = "zero", !.header = ZeroHeader]])
  BY DEF Silence
<1> DEFINE u == NextChunk[at]
           zero == [u EXCEPT !.ok = "zero", !.header = ZeroHeader]
           m == ChunkSize - at + 1
<1>2. at \in Int /\ at <= ChunkSize /\ ChunkSize \in Int /\ More /\ m \in Nat
  BY <1>1, ChannelAssumption DEF Faulty
<1>3. ASSUME ChunkSize <= Len(NextChunk) PROVE [k \in 1..m |-> zero] \in Seq(Units(SuperFrames))
  <2>1. u \in Units(SuperFrames)
    <3>1. Len(NextChunk) \in Nat
      BY <1>2, ChunkIsUnits DEF ProgrammeInv
    <3>2. at <= Len(NextChunk)
      BY <1>2, <1>3, <3>1
    <3> QED
      BY <1>2, <3>2, NextUnit
  <2>2. ZeroHeader \in Headers
    BY DEF Headers
  <2> HIDE DEF u
  <2>3. zero \in Units(SuperFrames)
    BY <2>1, <2>2 DEF Units
  <2> HIDE DEF zero, m
  <2>4. [k \in 1..m |-> zero] \in [1..m -> Units(SuperFrames)]
    BY <2>3
  <2> QED
    BY <1>2, <2>4, SeqDef
<1> QED
  BY <1>1, <1>2, <1>3, FaultyKeeps

LEMMA ProcessFrameKeeps == ASSUME ProgrammeInv, ProcessFrame PROVE ProgrammeInv'
<1> DEFINE n == SuperFrames
           h == Handled(pad, super'.aus)
<1>1. /\ queue # <<>> /\ queue' = Tail(queue) /\ super' = ProcessData(super, Head(queue))
      /\ pad' = h.pad /\ slides' = slides \union h.slides
      /\ UNCHANGED <<station, air, sync>>
  BY DEF ProcessFrame, Record
<1>2. /\ station \in Stations /\ air \in Nat /\ SyncOk(n, sync) /\ queue \in Seq(Frames(n))
      /\ SuperOk(n, super) /\ PadOk(Rooms, pad) /\ \A s \in slides : s.slide \in WholeSlides
  BY DEF ProgrammeInv
<1>3. SuperFrames' = n /\ Rooms' = Rooms
  BY <1>1 DEF SuperFrames, Rooms
<1>4. Head(queue) \in Frames(n) /\ queue' \in Seq(Frames(n))
  BY <1>1, <1>2, HeadTailProperties
<1>5. SuperOk(n, super')
  BY <1>1, <1>2, <1>4, ProcessKeeps
<1>6. HeardOk(h)
  <2>1. super'.aus \in Seq(Seq(Units(n)))
    BY <1>5 DEF SuperOk
  <2> QED
    BY <1>2, <2>1, HandledKeeps
<1> HIDE DEF h, n
<1>7. PadOk(Rooms, pad') /\ \A s \in slides' : s.slide \in WholeSlides
  BY <1>1, <1>2, <1>6 DEF HeardOk
<1> QED
  BY <1>1, <1>2, <1>3, <1>4, <1>5, <1>7 DEF ProgrammeInv

LEMMA ProgrammeStays ==
  ASSUME ProgrammeInv, [Next]_vars
  PROVE  ProgrammeInv'
<1>1. CASE Next
  BY <1>1, ReceiveKeeps, LoseKeeps, DamageKeeps, SilenceKeeps, ChanceKeeps, ProcessFrameKeeps
     DEF Next
<1>2. CASE UNCHANGED vars
  BY <1>2 DEF vars, ProgrammeInv, SuperFrames, Rooms
<1> QED
  BY <1>1, <1>2

LEMMA ProgrammeAlways == Spec => []ProgrammeInv
BY ProgrammeBegins, ProgrammeStays, PTL DEF Spec

(* MotDecoder, SlideshowDecoder: whatever is lost, damaged or forged, and    *)
(* wherever reception begins, a slide that is dispatched is a header with    *)
(* the segments under its transport id, from the first on and as long as it  *)
(* says; if there is but one object under the id, that is the object.        *)
THEOREM SlidesAreWhole == Spec => []SlidesWhole
<1>1. ProgrammeInv => SlidesWhole
  <2> SUFFICES ASSUME ProgrammeInv, NEW s \in slides
               PROVE  /\ Gapless(s.slide.header, s.slide.data)
                      /\ \/ [header |-> s.slide.header, body |-> s.slide.data] \in Objects
                         \/ ~Alone(s.slide.header)
    BY DEF SlidesWhole
  <2>1. PICK x \in (DOMAIN MotGroups) \X Seq(DOMAIN MotGroups) :
          /\ Gapless(x[1], x[2])
          /\ s.slide = Slide([header |-> x[1], previous |-> 0, body |-> x[2]])
    BY DEF ProgrammeInv, WholeSlides
  <2>2. s.slide.header = x[1] /\ s.slide.data = x[2]
    BY <2>1 DEF Slide
  <2>3. x[2] \in Seq(DOMAIN MotGroups)
    BY <2>1, Zenon
  <2> QED
    BY <2>1, <2>2, <2>3, AloneIsObject
<1> QED
  BY <1>1, ProgrammeAlways, PTL

(* PadDecoder: a data group is longer than its length only as it began, with *)
(* a padded subfield; a continuation never makes it so, and nothing is kept  *)
(* of the group before.                                                    *)
THEOREM RoomStays == Spec => []RoomLeft
<1>1. ProgrammeInv => RoomLeft
  BY DEF ProgrammeInv, PadOk, RoomOk, Rooms, RoomLeft
<1> QED
  BY <1>1, ProgrammeAlways, PTL

-----------------------------------------------------------------------------
(* Where the decoder is in the stream.  H is a set of superframes that did   *)
(* not arrive as they were sent; of the others every unit did.              *)
Offset(k) == k * FrameSize

UnitAt(s, at) ==
  [sf |-> s, at |-> at, ok |-> "ok", header |-> IF at = 1 THEN Header ELSE NoHeader]

Located(u) == u.sf \in Int /\ u.at \in Int

Whole(H, u) == u.sf \notin H => u.at \in 1..SentPerSuperFrame /\ u = UnitAt(u.sf, u.at)

(* What comes next behind a unit.                                          *)
Follows(H, u, v) ==
  /\ u.sf <= v.sf
  /\ v.sf \notin H => v.at = IF u.sf = v.sf THEN u.at + 1 ELSE 1
  /\ u.sf \notin H /\ u.sf < v.sf => u.at = SentPerSuperFrame
  /\ \A t \in Int : u.sf < t /\ t < v.sf => t \in H

LEMMA Offsets ==
  /\ FrameSize \in Nat \ {0} /\ SentPerSuperFrame \in Nat \ {0}
  /\ FrameSize < SentPerSuperFrame
  /\ Offset(0) = 0 /\ Offset(1) = FrameSize /\ Offset(5) = SentPerSuperFrame
  /\ \A k \in 0..4 : Offset(k) \in Nat /\ Offset(k+1) = Offset(k) + FrameSize
                     /\ Offset(k) + FrameSize <= SentPerSuperFrame
                     /\ (k < 4 => Offset(k) + FrameSize < SentPerSuperFrame)
  /\ \A k, m \in 0..5 : k < m => Offset(k) < Offset(m)
<1>1. FrameSize \in Nat /\ FrameSize > 0
  BY FramesAssumption
<1>2. /\ Offset(0) = 0 /\ Offset(1) = FrameSize /\ Offset(2) = FrameSize + FrameSize
      /\ Offset(3) = FrameSize + FrameSize + FrameSize
      /\ Offset(4) = FrameSize + FrameSize + FrameSize + FrameSize
      /\ Offset(5) = FrameSize + FrameSize + FrameSize + FrameSize + FrameSize
  BY <1>1 DEF Offset
<1>3. SentPerSuperFrame = FrameSize + FrameSize + FrameSize + FrameSize + FrameSize
  BY <1>1 DEF SentPerSuperFrame
<1>4. \A k \in 0..4 : k \in {0, 1, 2, 3, 4}
  OBVIOUS
<1>5. \A k \in 0..5 : k \in {0, 1, 2, 3, 4, 5}
  OBVIOUS
<1>6. \A k \in 0..4 : Offset(k) \in Nat /\ Offset(k+1) = Offset(k) + FrameSize
                      /\ Offset(k) + FrameSize <= SentPerSuperFrame
                      /\ (k < 4 => Offset(k) + FrameSize < SentPerSuperFrame)
  BY <1>1, <1>2, <1>3, <1>4
<1>7. \A k, m \in 0..5 : k < m => Offset(k) < Offset(m)
  BY <1>1, <1>2, <1>5
<1> QED
  BY <1>1, <1>2, <1>3, <1>6, <1>7

LEMMA HeaderThere == Header # NoHeader
<1>1. IsHeader(Header)
  BY FramesAssumption
<1>2. ~IsHeader(NoHeader)
  BY DEF IsHeader, NoHeader, NumAUs
<1> QED
  BY <1>1, <1>2

LEMMA UnitsLocated ==
  ASSUME NEW n \in Nat, NEW u \in Units(n)
  PROVE  Located(u)
BY DEF Units, Located

LEMMA WholeGrows ==
  ASSUME NEW H, NEW K, H \subseteq K, NEW u, Whole(H, u)
  PROVE  Whole(K, u)
BY DEF Whole

LEMMA FollowsGrows ==
  ASSUME NEW H, NEW K, H \subseteq K, NEW u, NEW v, Follows(H, u, v)
  PROVE  Follows(K, u, v)
BY DEF Follows

(* Units of disturbed superframes may go, and others come instead.           *)
LEMMA FollowsBeyond ==
  ASSUME NEW H, NEW w, NEW b, NEW c, NEW d, Located(w), Located(b), Located(c), Located(d),
         Follows(H, w, b), b.sf <= c.sf, Follows(H, c, d), \A t \in b.sf..c.sf : t \in H
  PROVE  /\ Follows(H, w, d)
         /\ \A x : x.sf = b.sf => Follows(H, w, x) /\ Follows(H, x, x) /\ Follows(H, x, d)
<1>1. /\ w.sf \in Int /\ b.sf \in Int /\ c.sf \in Int /\ d.sf \in Int
      /\ b.sf \in H /\ c.sf \in H
  BY DEF Located
<1>2. /\ w.sf <= b.sf /\ (w.sf \notin H /\ w.sf < b.sf => w.at = SentPerSuperFrame)
      /\ \A t \in Int : w.sf < t /\ t < b.sf => t \in H
  BY DEF Follows
<1>3. /\ c.sf <= d.sf /\ (d.sf \notin H => d.at = IF c.sf = d.sf THEN c.at + 1 ELSE 1)
      /\ \A t \in Int : c.sf < t /\ t < d.sf => t \in H
  BY DEF Follows
<1>4. d.sf \notin H => c.sf < d.sf /\ d.at = 1
  BY <1>1, <1>3
<1>5. \A t \in Int : b.sf <= t /\ t < d.sf => t \in H
  <2> SUFFICES ASSUME NEW t \in Int, b.sf <= t, t < d.sf PROVE t \in H
    OBVIOUS
  <2>1. CASE t <= c.sf
    BY <1>1, <2>1
  <2>2. CASE c.sf < t
    BY <1>3, <2>2
  <2> QED
    BY <1>1, <2>1, <2>2
<1>6. Follows(H, w, d)
  <2>1. w.sf <= d.sf
    BY <1>1, <1>2, <1>3
  <2>2. d.sf \notin H => d.at = IF w.sf = d.sf THEN w.at + 1 ELSE 1
    BY <1>1, <1>2, <1>4
  <2>3. w.sf \notin H /\ w.sf < d.sf => w.at = SentPerSuperFrame
    <3> SUFFICES ASSUME w.sf \notin H PROVE w.at = SentPerSuperFrame
      OBVIOUS
    <3>1. w.sf # b.sf
      BY <1>1
    <3> QED
      BY <1>1, <1>2, <3>1
  <2>4. \A t \in Int : w.sf < t /\ t < d.sf => t \in H
    <3> SUFFICES ASSUME NEW t \in Int, w.sf < t, t < d.sf PROVE t \in H
      OBVIOUS
    <3>1. CASE t < b.sf
      BY <1>2, <3>1
    <3>2. CASE b.sf <= t
      BY <1>5, <3>2
    <3> QED
      BY <1>1, <3>1, <3>2
  <2> QED
    BY <2>1, <2>2, <2>3, <2>4 DEF Follows
<1>7. ASSUME NEW x, x.sf = b.sf
      PROVE  Follows(H, w, x) /\ Follows(H, x, x) /\ Follows(H, x, d)
  <2>1. Follows(H, w, x)
    BY <1>1, <1>2, <1>7 DEF Follows
  <2>2. Follows(H, x, x)
    BY <1>1, <1>7 DEF Follows
  <2>3. Follows(H, x, d)
    <3>1. x.sf <= d.sf
      BY <1>1, <1>3, <1>7
    <3>2. d.sf \notin H => d.at = IF x.sf = d.sf THEN x.at + 1 ELSE 1
      BY <1>1, <1>4, <1>7
    <3>3. \A t \in Int : x.sf < t /\ t < d.sf => t \in H
      BY <1>1, <1>5, <1>7
    <3> QED
      BY <1>1, <1>7, <3>1, <3>2, <3>3 DEF Follows
  <2> QED
    BY <2>1, <2>2, <2>3
<1> QED
  BY <1>6, <1>7

LEMMA DivisionUnique ==
  ASSUME NEW b \in Nat \ {0}, NEW q \in Nat, NEW r \in Nat, r < b
  PROVE  (b * q + r) \div b = q /\ (b * q + r) % b = r
<1> DEFINE a == b * q + r
           p == a \div b
           m == a % b
<1>1. a \in Nat
  <2>1. b * q \in Nat
    BY Product
  <2> QED
    BY <2>1
<1>2. p \in Nat /\ m \in Nat /\ m < b /\ a = (b * p) + m
  BY <1>1, Division
<1> HIDE DEF p, m
<1>3. b * q + r = b * p + m
  BY <1>2
<1>4. ASSUME p < q PROVE FALSE
  <2>1. (q - p - 1) * b \in Nat
    <3>1. q - p - 1 \in Nat
      BY <1>2, <1>4
    <3> QED
      BY <3>1, Product
  <2>2. (q - p - 1) * b = b * q - b * p - b
    BY <1>2
  <2> DEFINE x == b * q
             y == b * p
  <2>3. x \in Nat /\ y \in Nat
    BY <1>2, Product
  <2>4. x - y - b \in Nat /\ x + r = y + m
    BY <1>3, <2>1, <2>2
  <2> HIDE DEF x, y
  <2> QED
    BY <1>2, <2>3, <2>4
<1>5. ASSUME p > q PROVE FALSE
  <2>1. (p - q - 1) * b \in Nat
    <3>1. p - q - 1 \in Nat
      BY <1>2, <1>5
    <3> QED
      BY <3>1, Product
  <2>2. (p - q - 1) * b = b * p - b * q - b
    BY <1>2
  <2> DEFINE x == b * q
             y == b * p
  <2>3. x \in Nat /\ y \in Nat
    BY <1>2, Product
  <2>4. y - x - b \in Nat /\ x + r = y + m
    BY <1>3, <2>1, <2>2
  <2> HIDE DEF x, y
  <2> QED
    BY <1>2, <2>3, <2>4
<1>6. p = q
  BY <1>2, <1>4, <1>5
<1>7. m = r
  <2> DEFINE x == b * q
  <2>1. x \in Nat /\ x + r = x + m
    BY <1>3, <1>6, Product
  <2> HIDE DEF x
  <2> QED
    BY <1>2, <2>1
<1> QED
  BY <1>6, <1>7 DEF p, m

(* Superframe and place of the n-th unit and of the one behind it.           *)
LEMMA SentAt ==
  ASSUME NEW n \in Nat, n >= 1
  PROVE  /\ Sent(n) = UnitAt(Sent(n).sf, Sent(n).at) /\ Sent(n).sf = SuperFrameOf(n)
         /\ Sent(n).sf \in Nat /\ Sent(n).sf >= 1 /\ Sent(n).at \in 1..SentPerSuperFrame
         /\ n = SentPerSuperFrame * (Sent(n).sf - 1) + Sent(n).at
<1> DEFINE b == SentPerSuperFrame
           q == (n - 1) \div b
           r == (n - 1) % b
<1>1. b \in Nat \ {0} /\ n - 1 \in Nat
  BY Offsets
<1>2. q \in Nat /\ r \in Nat /\ r < b /\ n - 1 = (b * q) + r
  BY <1>1, Division
<1>3. Sent(n) = UnitAt(q + 1, r + 1) /\ SuperFrameOf(n) = q + 1
  BY DEF Sent, SuperFrameOf, UnitAt
<1> HIDE DEF b, q, r
<1>4. Sent(n).sf = q + 1 /\ Sent(n).at = r + 1
  BY <1>3 DEF UnitAt
<1>5. b * q \in Nat
  BY <1>1, <1>2, Product
<1>6. n = b * q + (r + 1)
  <2> DEFINE x == b * q
  <2> HIDE DEF x
  <2>1. x \in Nat /\ n - 1 = x + r
    BY <1>2, <1>5 DEF x
  <2>2. n = x + (r + 1)
    BY <1>2, <2>1
  <2> QED
    BY <2>2 DEF x
<1>7. Sent(n).sf - 1 = q
  BY <1>2, <1>4
<1>8. q + 1 \in Nat /\ q + 1 >= 1 /\ r + 1 \in 1..b
  BY <1>1, <1>2
<1>9. Sent(n) = UnitAt(Sent(n).sf, Sent(n).at) /\ Sent(n).sf = SuperFrameOf(n)
  BY <1>3, <1>4
<1>10. Sent(n).sf \in Nat /\ Sent(n).sf >= 1 /\ Sent(n).at \in 1..SentPerSuperFrame
  BY <1>4, <1>8 DEF b
<1>11. n = SentPerSuperFrame * (Sent(n).sf - 1) + Sent(n).at
  BY <1>4, <1>6, <1>7 DEF b
<1> QED
  BY <1>9, <1>10, <1>11

LEMMA SentIsAt ==
  ASSUME NEW s \in Nat, s >= 1, NEW at \in 1..SentPerSuperFrame
  PROVE  Sent(SentPerSuperFrame * (s - 1) + at) = UnitAt(s, at)
<1> DEFINE b == SentPerSuperFrame
           n == b * (s - 1) + at
<1>1. b \in Nat \ {0}
  BY Offsets
<1>2. b * (s - 1) \in Nat
  <2>1. s - 1 \in Nat
    OBVIOUS
  <2> QED
    BY <1>1, <2>1, Product
<1>3. n - 1 = b * (s - 1) + (at - 1)
  <2> DEFINE x == b * (s - 1)
  <2> HIDE DEF x
  <2>1. x \in Nat
    BY <1>2 DEF x
  <2>2. (x + at) - 1 = x + (at - 1)
    BY <2>1
  <2>3. n = x + at
    BY DEF x
  <2> HIDE DEF n
  <2>4. n - 1 = x + (at - 1)
    BY <2>2, <2>3
  <2> QED
    BY <2>4 DEF x
<1>4. (n - 1) \div b = s - 1 /\ (n - 1) % b = at - 1
  <2>1. s - 1 \in Nat /\ at - 1 \in Nat /\ at - 1 < b
    BY <1>1
  <2> DEFINE q == s - 1
             r == at - 1
  <2> HIDE DEF n, b, q, r
  <2>2. b \in Nat \ {0} /\ q \in Nat /\ r \in Nat /\ r < b
    BY <1>1, <2>1 DEF q, r
  <2>3. (b * q + r) \div b = q /\ (b * q + r) % b = r
    BY <2>2, DivisionUnique
  <2>4. n - 1 = b * q + r
    BY <1>3 DEF q, r
  <2>5. (n - 1) \div b = q /\ (n - 1) % b = r
    BY <2>3, <2>4
  <2> QED
    BY <2>5 DEF q, r
<1> HIDE DEF n
<1>5. Sent(n) = UnitAt((n - 1) \div b + 1, ((n - 1) % b) + 1)
  BY DEF Sent, SuperFrameOf, UnitAt
<1>6. Sent(n) = UnitAt(s, at)
  BY <1>4, <1>5
<1> QED
  BY <1>6 DEF n

LEMMA SentFollows ==
  ASSUME NEW n \in Nat, n >= 1
  PROVE  Follows({}, Sent(n), Sent(n + 1))
<1> DEFINE b == SentPerSuperFrame
           s == Sent(n).sf
           at == Sent(n).at
<1>1. s \in Nat /\ s >= 1 /\ at \in 1..b /\ n = b * (s - 1) + at /\ b \in Nat \ {0}
  BY SentAt, Offsets
<1>2. b * (s - 1) \in Nat
  <2>1. s - 1 \in Nat
    BY <1>1
  <2> QED
    BY <1>1, <2>1, Product
<1> HIDE DEF s, at
<1>3. CASE at < b
  <2>1. n + 1 = b * (s - 1) + (at + 1)
    <3> DEFINE x == b * (s - 1)
    <3> HIDE DEF x
    <3>1. x \in Nat /\ n = x + at
      BY <1>1, <1>2 DEF x
    <3>2. n + 1 = x + (at + 1)
      BY <1>1, <3>1
    <3> QED
      BY <3>2 DEF x
  <2>2. at + 1 \in 1..b
    BY <1>1, <1>3
  <2>3. Sent(n + 1) = UnitAt(s, at + 1)
    BY <1>1, <2>1, <2>2, SentIsAt
  <2>4. Sent(n+1).sf = s /\ Sent(n+1).at = at + 1
    BY <2>3 DEF UnitAt
  <2> QED
    BY <1>1, <2>4 DEF Follows, s, at
<1>4. CASE at = b
  <2>1. n + 1 = b * s + 1
    <3>1. b * (s - 1) + b = b * s
      BY <1>1
    <3> DEFINE x == b * s
               y == b * (s - 1)
    <3>2. y + b = x /\ n = y + b /\ x \in Nat /\ y \in Nat
      BY <1>1, <1>2, <1>4, <3>1, Product
    <3> HIDE DEF x, y
    <3>3. n + 1 = x + 1
      BY <3>2
    <3> QED
      BY <3>3 DEF x
  <2>2. s + 1 \in Nat /\ s + 1 >= 1 /\ 1 \in 1..b /\ (s + 1) - 1 = s
    BY <1>1
  <2>3. Sent(n + 1) = UnitAt(s + 1, 1)
    <3>1. Sent(b * ((s + 1) - 1) + 1) = UnitAt(s + 1, 1)
      BY <2>2, SentIsAt
    <3> QED
      BY <2>1, <2>2, <3>1
  <2>4. Sent(n+1).sf = s + 1 /\ Sent(n+1).at = 1
    BY <2>3 DEF UnitAt
  <2>5. \A t \in Int : ~(s < t /\ t < s + 1)
    BY <1>1
  <2> QED
    BY <1>1, <1>4, <2>4, <2>5 DEF Follows, s, at
<1> QED
  BY <1>1, <1>3, <1>4

-----------------------------------------------------------------------------
(* Units one behind the other, and v behind them.                           *)
Linked(H, s) ==
  /\ \A i \in 1..Len(s) : Located(s[i]) /\ Whole(H, s[i])
  /\ \A i \in 1..(Len(s) - 1) : Follows(H, s[i], s[i+1])

(* A superframe that is decoded if the one before it is like it.             *)
Calm(H, s) == s \notin H /\ s - 1 \notin H

(* Units of an undisturbed superframe are all there.                        *)
LEMMA Counts ==
  ASSUME NEW H, NEW T, NEW d \in Seq(T), Len(d) >= 1, Linked(H, d)
  PROVE  \A k \in 1..Len(d) :
           /\ d[1].sf <= d[k].sf
           /\ d[k].sf \notin H /\ d[1].sf = d[k].sf => d[k].at = d[1].at + (k - 1)
           /\ d[k].sf \notin H /\ d[1].sf < d[k].sf => d[k].at <= k - 1
           /\ \A t \in Int : t \notin H /\ d[1].sf < t /\ t < d[k].sf => SentPerSuperFrame <= k - 1
           /\ d[1].sf \notin H /\ d[1].at + (k - 1) <= SentPerSuperFrame => d[k].sf = d[1].sf
<1> DEFINE n == Len(d)
           b == SentPerSuperFrame
           So(k) ==
             /\ d[1].sf <= d[k].sf
             /\ d[k].sf \notin H /\ d[1].sf = d[k].sf => d[k].at = d[1].at + (k - 1)
             /\ d[k].sf \notin H /\ d[1].sf < d[k].sf => d[k].at <= k - 1
             /\ \A t \in Int : t \notin H /\ d[1].sf < t /\ t < d[k].sf => b <= k - 1
             /\ d[1].sf \notin H /\ d[1].at + (k - 1) <= b => d[k].sf = d[1].sf
           W == {k \in 0..(n-1) : So(k+1)}
<1>1. n \in Nat /\ n >= 1 /\ b \in Nat
  BY Offsets
<1>2. \A i \in 1..n : d[i].sf \in Int /\ d[i].at \in Int
  BY DEF Linked, Located
<1>3. So(1)
  BY <1>1, <1>2
<1>4. ASSUME NEW k \in 1..(n-1), So(k) PROVE So(k+1)
  <2> DEFINE o == d[1]
             u == d[k]
             v == d[k+1]
  <2>1. k \in 1..n /\ k + 1 \in 1..n /\ 1 \in 1..n /\ k \in Nat /\ k >= 1 /\ (k + 1) - 1 = k
    BY <1>1
  <2>2. /\ o.sf \in Int /\ o.at \in Int /\ u.sf \in Int /\ u.at \in Int
        /\ v.sf \in Int /\ v.at \in Int
    BY <1>2, <2>1
  <2>3. /\ u.sf <= v.sf
        /\ v.sf \notin H => v.at = IF u.sf = v.sf THEN u.at + 1 ELSE 1
        /\ u.sf \notin H /\ u.sf < v.sf => u.at = b
        /\ \A t \in Int : u.sf < t /\ t < v.sf => t \in H
    BY DEF Linked, Follows
  <2>4. /\ o.sf <= u.sf
        /\ u.sf \notin H /\ o.sf = u.sf => u.at = o.at + (k - 1)
        /\ u.sf \notin H /\ o.sf < u.sf => u.at <= k - 1
        /\ \A t \in Int : t \notin H /\ o.sf < t /\ t < u.sf => b <= k - 1
        /\ o.sf \notin H /\ o.at + (k - 1) <= b => u.sf = o.sf
    BY <1>4
  <2> HIDE DEF o, u, v, b
  <2>5. o.sf <= v.sf
    BY <2>2, <2>3, <2>4
  <2>6. ASSUME v.sf \notin H, o.sf = v.sf PROVE v.at = o.at + k
    <3>1. u.sf = v.sf
      BY <2>2, <2>3, <2>4, <2>6
    <3> QED
      BY <2>1, <2>2, <2>3, <2>4, <2>6, <3>1
  <2>7. ASSUME v.sf \notin H, o.sf < v.sf PROVE v.at <= k
    <3>1. CASE u.sf = v.sf
      BY <2>1, <2>2, <2>3, <2>4, <2>7, <3>1
    <3>2. CASE u.sf # v.sf
      BY <2>1, <2>2, <2>3, <2>7, <3>2
    <3> QED
      BY <3>1, <3>2
  <2>8. ASSUME NEW t \in Int, t \notin H, o.sf < t, t < v.sf PROVE b <= k
    <3>1. CASE t < u.sf
      <4>1. b <= k - 1
        BY <2>4, <2>8, <3>1
      <4> QED
        BY <1>1, <2>1, <4>1
    <3>2. CASE t = u.sf
      <4>1. u.at = b /\ u.at <= k - 1
        BY <2>3, <2>4, <2>8, <3>2
      <4> QED
        BY <2>1, <2>2, <4>1
    <3>3. CASE u.sf < t
      BY <2>3, <2>8, <3>3
    <3> QED
      BY <2>2, <3>1, <3>2, <3>3
  <2>9. ASSUME o.sf \notin H, o.at + k <= b PROVE v.sf = o.sf
    <3>1. o.at + (k - 1) <= b
      BY <1>1, <2>1, <2>2, <2>9
    <3>2. u.sf = o.sf /\ u.at = o.at + (k - 1)
      BY <2>4, <2>9, <3>1
    <3>3. u.at # b
      BY <1>1, <2>1, <2>2, <2>9, <3>2
    <3> QED
      BY <2>2, <2>3, <2>9, <3>2, <3>3
  <2> QED
    BY <2>1, <2>5, <2>6, <2>7, <2>8, <2>9 DEF o, v, b
<1> HIDE DEF So
<1>5. 0 \in W /\ n - 1 \in Nat
  BY <1>1, <1>3
<1>6. \A k \in 1..(n-1) : k - 1 \in W => k \in W
  <2> SUFFICES ASSUME NEW k \in 1..(n-1), k - 1 \in W PROVE k \in W
    OBVIOUS
  <2>1. (k - 1) + 1 = k /\ k \in 0..(n-1)
    BY <1>1
  <2>2. So(k)
    BY <2>1
  <2> QED
    BY <1>4, <2>1, <2>2
<1> HIDE DEF W
<1>7. \A k \in 0..(n-1) : k \in W
  <2> DEFINE m == n - 1
  <2>1. m \in Nat /\ \A k \in 1..m : k - 1 \in W => k \in W
    BY <1>5, <1>6
  <2> HIDE DEF m
  <2>2. \A k \in 0..m : k \in W
    BY <1>5, <2>1, Ascends
  <2> QED
    BY <2>2 DEF m
<1>8. \A k \in 1..n : So(k)
  <2> SUFFICES ASSUME NEW k \in 1..n PROVE So(k)
    OBVIOUS
  <2>1. k - 1 \in 0..(n-1) /\ (k - 1) + 1 = k
    BY <1>1
  <2>2. k - 1 \in W
    BY <1>7, <2>1
  <2> QED
    BY <2>1, <2>2 DEF W
<1> QED
  BY <1>8 DEF So

(* The units that come behind one of an undisturbed superframe, up to its    *)
(* end.                                                                    *)
LEMMA CountsOn ==
  ASSUME NEW H, NEW T, NEW d \in Seq(T), Linked(H, d), NEW k \in 1..Len(d), d[1].sf \notin H,
         d[1].at + (k - 1) <= SentPerSuperFrame
  PROVE  d[k] = UnitAt(d[1].sf, d[1].at + (k - 1))
<1>1. Len(d) >= 1
  OBVIOUS
<1>2. d[k].sf = d[1].sf /\ d[k].at = d[1].at + (k - 1)
  BY <1>1, Counts
<1>3. d[k] = UnitAt(d[k].sf, d[k].at)
  BY <1>2 DEF Linked, Whole
<1> QED
  BY <1>2, <1>3

-----------------------------------------------------------------------------
(* Where the scan stands when count frames of a superframe have been cut out *)
(* and u comes next.                                                       *)
Aligned(H, u, count) ==
  u.sf \notin H => /\ count # 0 => u.at <= Offset(count) + 1
                   /\ u.sf - 1 \notin H => u.at = Offset(count) + 1

FrameAt(s, k) == [i \in 1..FrameSize |-> UnitAt(s, Offset(k-1) + i)]

(* A frame that has been cut out, and the unit that may begin the next one.  *)
Adjacent(H, fr, v) ==
  /\ fr[1].sf <= v.sf
  /\ \A t \in Int : Calm(H, t) => ~(fr[1].sf < t /\ t < v.sf)
  /\ Calm(H, fr[1].sf) =>
       \E k \in 1..5 : /\ fr = FrameAt(fr[1].sf, k)
                       /\ k < 5 => v.sf = fr[1].sf /\ v.at = Offset(k) + 1
                       /\ k = 5 => fr[1].sf < v.sf
  /\ Calm(H, v.sf) /\ fr[1].sf < v.sf => v.at = 1

(* A superframe's last frame is the only one that ends behind it.            *)
LEMMA Crossing ==
  ASSUME NEW H, NEW T, NEW d \in Seq(T), Linked(H, d), Len(d) > FrameSize, NEW count \in 0..4,
         Aligned(H, d[1], count), count = 0 => d[1].header # NoHeader,
         d[1].sf < d[FrameSize+1].sf, Calm(H, d[FrameSize+1].sf)
  PROVE  count = 4 /\ d[FrameSize+1].at = 1
<1> DEFINE F == FrameSize
           b == SentPerSuperFrame
           u == d[1]
           v == d[F+1]
<1>1. /\ F \in Nat /\ F >= 1 /\ b \in Nat /\ F < b
      /\ F + 1 \in 1..Len(d) /\ F \in 1..Len(d) /\ 1 \in 1..Len(d) /\ F \in 1..(Len(d) - 1)
      /\ (F + 1) - 1 = F /\ Len(d) >= 1
  <2>1. F \in Nat /\ F >= 1 /\ b \in Nat /\ F < b
    BY Offsets
  <2>2. Len(d) \in Nat /\ Len(d) > F
    OBVIOUS
  <2> HIDE DEF F, b
  <2> QED
    BY <2>1, <2>2
<1>2. u.sf \in Int /\ u.at \in Int /\ v.sf \in Int /\ v.at \in Int
  BY <1>1 DEF Linked, Located
<1>3. v.sf \notin H /\ v.sf - 1 \notin H
  BY DEF Calm
<1>12. u.sf < v.sf
  OBVIOUS
<1>4. u.sf = v.sf - 1
  <2>1. \A t \in Int : t \notin H /\ u.sf < t /\ t < v.sf => b <= (F + 1) - 1
    BY <1>1, Counts
  <2>2. \A t \in Int : t \notin H /\ u.sf < t /\ t < v.sf => FALSE
    BY <1>1, <2>1
  <2>3. v.sf - 1 \in Int /\ v.sf - 1 < v.sf
    BY <1>2
  <2>4. ~(u.sf < v.sf - 1)
    BY <1>3, <2>2, <2>3
  <2> HIDE DEF u, v
  <2> QED
    BY <1>2, <1>12, <2>4
<1>5. u.sf \notin H /\ u.sf # v.sf
  <2> HIDE DEF u, v
  <2> QED
    BY <1>2, <1>3, <1>4, <1>12
<1>6. u.at + F > b
  <2>1. u.sf \notin H /\ u.at + ((F + 1) - 1) <= b => v.sf = u.sf
    BY <1>1, Counts
  <2> HIDE DEF u, v
  <2> QED
    BY <1>1, <1>2, <1>5, <2>1
<1>7. u.at <= Offset(count) + 1
  <2>1. CASE count = 0
    <3>1. u = UnitAt(u.sf, u.at)
      BY <1>1, <1>5 DEF Linked, Whole
    <3>2. u.header # NoHeader
      BY <2>1
    <3>3. u.at = 1
      BY <3>1, <3>2 DEF UnitAt
    <3> QED
      BY <2>1, <3>3, Offsets
  <2>2. CASE count # 0
    BY <1>5, <2>2 DEF Aligned
  <2> QED
    BY <2>1, <2>2
<1> HIDE DEF F, b, u, v
<1>8. count = 4
  <2>1. Offset(count) \in Nat /\ (count < 4 => Offset(count) + F < b)
    BY Offsets DEF F, b
  <2> QED
    BY <1>1, <1>2, <1>6, <1>7, <2>1, SMTT(40)
<1>9. u.at = Offset(4) + 1 /\ u.at + (F - 1) = b
  <2>1. Offset(4) \in Nat /\ Offset(4) + F = b
    BY Offsets DEF F, b
  <2> QED
    BY <1>1, <1>2, <1>6, <1>7, <1>8, <2>1
<1>10. d[F] = UnitAt(u.sf, b)
  <2>1. d[1].sf \notin H /\ d[1].at + (F - 1) = b
    BY <1>5, <1>9 DEF u
  <2>2. d[F] = UnitAt(d[1].sf, d[1].at + (F - 1))
    BY <1>1, <1>2, <2>1, CountsOn DEF b, u
  <2> QED
    BY <2>1, <2>2 DEF u
<1>11. v.at = 1
  <2>1. Follows(H, d[F], v)
    BY <1>1 DEF Linked, v
  <2>2. d[F].sf = u.sf
    BY <1>10 DEF UnitAt
  <2> QED
    BY <1>3, <1>5, <2>1, <2>2 DEF Follows
<1> QED
  BY <1>8, <1>11 DEF F, v

NextCount(count) == IF count = 4 THEN 0 ELSE count + 1

LEMMA AlignedOn ==
  ASSUME NEW H, NEW T, NEW d \in Seq(T), Linked(H, d), Len(d) > FrameSize, NEW count \in 0..4,
         Aligned(H, d[1], count), count = 0 => d[1].header # NoHeader
  PROVE  Aligned(H, d[FrameSize+1], NextCount(count))
<1> DEFINE F == FrameSize
           b == SentPerSuperFrame
           u == d[1]
           v == d[F+1]
           next == NextCount(count)
<1>1. /\ F \in Nat /\ F >= 1 /\ b \in Nat /\ F < b
      /\ F + 1 \in 1..Len(d) /\ 1 \in 1..Len(d) /\ (F + 1) - 1 = F /\ Len(d) >= 1
  <2>1. F \in Nat /\ F >= 1 /\ b \in Nat /\ F < b
    BY Offsets
  <2>2. Len(d) \in Nat /\ Len(d) > F
    OBVIOUS
  <2> HIDE DEF F, b
  <2> QED
    BY <2>1, <2>2
<1>2. u.sf \in Int /\ u.at \in Int /\ v.sf \in Int /\ v.at \in Int
  BY <1>1 DEF Linked, Located
<1>3. next \in 0..4 /\ (count = 4 => next = 0) /\ (count < 4 => next = count + 1 /\ next # 0)
  BY DEF NextCount
<1>4. /\ Offset(count) \in Nat /\ Offset(next) \in Nat /\ Offset(0) = 0
      /\ count < 4 => Offset(next) = Offset(count) + F
      /\ Offset(count) + F <= b
      /\ next # 0 => F <= Offset(next)
      /\ count = 4 => Offset(count) + F = b
  <2>1. \A k \in 0..4 : Offset(k) \in Nat /\ Offset(k+1) = Offset(k) + F /\ Offset(k) + F <= b
    BY Offsets
  <2>2. Offset(0) = 0 /\ Offset(5) = b
    BY Offsets
  <2> HIDE DEF F, b
  <2>3. next # 0 => F <= Offset(next)
    <3> SUFFICES ASSUME next # 0 PROVE F <= Offset(next)
      OBVIOUS
    <3>1. next = count + 1 /\ Offset(count) \in Nat /\ Offset(count + 1) = Offset(count) + F
      BY <1>3, <2>1
    <3> QED
      BY <1>1, <3>1
  <2> QED
    BY <1>3, <2>1, <2>2, <2>3
<1>5. ASSUME v.sf \notin H, u.sf = v.sf
      PROVE  /\ next # 0 => v.at <= Offset(next) + 1
             /\ v.sf - 1 \notin H => v.at = Offset(next) + 1
  <2>1. v.at = u.at + F
    <3>1. v.sf \notin H /\ u.sf = v.sf => v.at = u.at + ((F + 1) - 1)
      BY <1>1, Counts
    <3> QED
      BY <1>1, <1>5, <3>1
  <2>2. v.at <= b
    BY <1>1, <1>5 DEF Linked, Whole
  <2>3. count = 0 => u.at = 1
    <3>1. u.sf \notin H
      BY <1>5
    <3>2. u = UnitAt(u.sf, u.at)
      BY <1>1, <3>1 DEF Linked, Whole
    <3> QED
      BY <3>2 DEF UnitAt
  <2>4. u.at <= Offset(count) + 1 /\ (u.sf - 1 \notin H => u.at = Offset(count) + 1)
    <3>1. count # 0 => u.at <= Offset(count) + 1
      BY <1>5 DEF Aligned
    <3>2. u.sf - 1 \notin H => u.at = Offset(count) + 1
      BY <1>5 DEF Aligned
    <3> HIDE DEF u
    <3> QED
      BY <1>2, <1>4, <2>3, <3>1, <3>2
  <2>5. count = 4 => ~(u.at = Offset(count) + 1)
    <3> HIDE DEF F, b, u, v
    <3> QED
      BY <1>1, <1>2, <1>4, <2>1, <2>2
  <2>6. count # 4 => count < 4
    OBVIOUS
  <2> HIDE DEF F, b, u, v, next
  <2>7. next # 0 => v.at <= Offset(next) + 1
    BY <1>1, <1>2, <1>3, <1>4, <2>1, <2>4, <2>6, SMTT(40)
  <2>8. v.sf - 1 \notin H => v.at = Offset(next) + 1
    BY <1>1, <1>2, <1>3, <1>4, <1>5, <2>1, <2>4, <2>5, <2>6
  <2> QED
    BY <2>7, <2>8
<1>6. ASSUME v.sf \notin H, u.sf < v.sf
      PROVE  /\ next # 0 => v.at <= Offset(next) + 1
             /\ v.sf - 1 \notin H => v.at = Offset(next) + 1
  <2>1. v.at <= F
    <3>1. v.sf \notin H /\ u.sf < v.sf => v.at <= (F + 1) - 1
      BY <1>1, Counts
    <3> QED
      BY <1>1, <1>6, <3>1
  <2>2. v.sf - 1 \notin H => count = 4 /\ v.at = 1
    <3> SUFFICES ASSUME v.sf - 1 \notin H PROVE count = 4 /\ v.at = 1
      OBVIOUS
    <3>1. Calm(H, d[FrameSize+1].sf)
      BY <1>6 DEF Calm
    <3>2. d[1].sf < d[FrameSize+1].sf
      BY <1>6
    <3> HIDE DEF F, v
    <3> QED
      BY <3>1, <3>2, Crossing DEF F, v
  <2> HIDE DEF F, b, u, v, next
  <2> QED
    BY <1>1, <1>2, <1>3, <1>4, <2>1, <2>2
<1>7. u.sf <= v.sf
  BY <1>1, Counts
<1>8. v.sf \notin H => /\ next # 0 => v.at <= Offset(next) + 1
                       /\ v.sf - 1 \notin H => v.at = Offset(next) + 1
  BY <1>2, <1>5, <1>6, <1>7
<1> QED
  BY <1>8 DEF Aligned

LEMMA FrameCut ==
  ASSUME NEW H, NEW T, NEW d \in Seq(T), Linked(H, d), Len(d) > FrameSize, NEW count \in 0..4,
         Aligned(H, d[1], count), count = 0 => d[1].header # NoHeader
  PROVE  Adjacent(H, SubSeq(d, 1, FrameSize), d[FrameSize+1])
<1> DEFINE F == FrameSize
           b == SentPerSuperFrame
           fr == SubSeq(d, 1, F)
           u == d[1]
           v == d[F+1]
<1>1. /\ F \in Nat /\ F >= 1 /\ b \in Nat /\ F < b
      /\ F + 1 \in 1..Len(d) /\ F \in 1..Len(d) /\ 1 \in 1..Len(d) /\ F \in 1..(Len(d) - 1)
      /\ (F + 1) - 1 = F /\ Len(d) >= 1 /\ Len(d) \in Nat
  <2>1. F \in Nat /\ F >= 1 /\ b \in Nat /\ F < b
    BY Offsets
  <2>2. Len(d) \in Nat /\ Len(d) > F
    OBVIOUS
  <2> HIDE DEF F, b
  <2> QED
    BY <2>1, <2>2
<1>2. u.sf \in Int /\ u.at \in Int /\ v.sf \in Int /\ v.at \in Int
  BY <1>1 DEF Linked, Located
<1>3. fr = [i \in 1..F |-> d[i]] /\ fr[1] = u
  <2> HIDE DEF F
  <2>1. \A i \in 1..F : d[i] \in T
    BY <1>1, ElementOfSeq
  <2>2. /\ SubSeq(d, 1, F) \in Seq(T) /\ Len(SubSeq(d, 1, F)) = F
        /\ \A i \in 1..F : SubSeq(d, 1, F)[i] = d[1 + i - 1]
    BY <1>1, <2>1, SubSeqProperties
  <2>3. \A i \in 1..F : SubSeq(d, 1, F)[i] = d[i]
    BY <1>1, <2>2
  <2> QED
    BY <1>1, <2>2, <2>3
<1>4. u.sf <= v.sf
  BY <1>1, Counts
<1>5. ASSUME NEW t \in Int, Calm(H, t) PROVE ~(u.sf < t /\ t < v.sf)
  <2>1. t \notin H
    BY <1>5 DEF Calm
  <2>2. t \notin H /\ u.sf < t /\ t < v.sf => b <= (F + 1) - 1
    BY <1>1, Counts
  <2> QED
    BY <1>1, <2>1, <2>2
<1>6. ASSUME Calm(H, u.sf)
      PROVE  \E k \in 1..5 : /\ fr = FrameAt(u.sf, k)
                             /\ k < 5 => v.sf = u.sf /\ v.at = Offset(k) + 1
                             /\ k = 5 => u.sf < v.sf
  <2> DEFINE k == count + 1
             from == Offset(count)
  <2>1. u.sf \notin H /\ u.at = from + 1
    BY <1>6 DEF Calm, Aligned
  <2>2. k \in 1..5 /\ k - 1 = count /\ (k < 5 => count < 4) /\ (k = 5 => count = 4)
    OBVIOUS
  <2>3. /\ from \in Nat /\ from + F <= b /\ Offset(k) = from + F
        /\ count < 4 => from + F < b
        /\ count = 4 => from + F = b
    <3>1. \A c \in 0..4 : /\ Offset(c) \in Nat /\ Offset(c+1) = Offset(c) + F
                           /\ Offset(c) + F <= b /\ (c < 4 => Offset(c) + F < b)
      BY Offsets
    <3>2. Offset(4+1) = b
      BY Offsets
    <3> HIDE DEF F, b
    <3> QED
      BY <3>1, <3>2
  <2>4. \A i \in 1..F : d[i] = UnitAt(u.sf, from + i)
    <3> SUFFICES ASSUME NEW i \in 1..F PROVE d[i] = UnitAt(u.sf, from + i)
      OBVIOUS
    <3> HIDE DEF F, b, from, u
    <3>1. i \in 1..Len(d) /\ u.at + (i - 1) = from + i /\ from + i <= b
      BY <1>1, <2>1, <2>3
    <3>2. u.at + (i - 1) <= b
      BY <3>1
    <3>3. d[i] = UnitAt(u.sf, u.at + (i - 1))
      BY <2>1, <3>1, <3>2, CountsOn DEF u, b
    <3> QED
      BY <3>1, <3>3
  <2>5. fr = FrameAt(u.sf, k)
    <3> HIDE DEF F, fr, u, k
    <3>1. FrameAt(u.sf, k) = [i \in 1..F |-> UnitAt(u.sf, from + i)]
      BY <2>2 DEF FrameAt, F
    <3> HIDE DEF from
    <3> QED
      BY <1>3, <2>4, <3>1
  <2>6. ASSUME k < 5 PROVE v.sf = u.sf /\ v.at = Offset(k) + 1
    <3> HIDE DEF F, b, from, u, k
    <3>1. u.at + ((F + 1) - 1) = from + F + 1 /\ from + F + 1 <= b
      BY <1>1, <2>1, <2>2, <2>3, <2>6
    <3>2. d[F+1] = UnitAt(u.sf, u.at + ((F + 1) - 1))
      BY <1>1, <2>1, <3>1, CountsOn DEF u, b
    <3> QED
      BY <2>3, <3>1, <3>2 DEF UnitAt
  <2>7. ASSUME k = 5 PROVE u.sf < v.sf
    <3> SUFFICES ASSUME u.sf = v.sf PROVE FALSE
      BY <1>2, <1>4
    <3>1. v.sf \notin H /\ u.sf = v.sf => v.at = u.at + ((F + 1) - 1)
      BY <1>1, Counts
    <3>2. v.at <= b
      BY <1>1, <2>1 DEF Linked, Whole
    <3> HIDE DEF F, b, from, u, v, k
    <3> QED
      BY <1>1, <1>2, <2>1, <2>2, <2>3, <2>7, <3>1, <3>2
  <2> HIDE DEF F, fr, u, v, k
  <2> QED
    BY <2>2, <2>5, <2>6, <2>7
<1>7. ASSUME Calm(H, v.sf), u.sf < v.sf PROVE v.at = 1
  <2>1. Calm(H, d[FrameSize+1].sf) /\ d[1].sf < d[FrameSize+1].sf
    BY <1>7
  <2> HIDE DEF F, v
  <2> QED
    BY <2>1, Crossing DEF F, v
<1> HIDE DEF u, v, fr
<1>8. Adjacent(H, fr, v)
  BY <1>3, <1>4, <1>5, <1>6, <1>7 DEF Adjacent
<1> QED
  BY <1>8 DEF fr, v

-----------------------------------------------------------------------------
(* The thread has the first k-1 frames of superframe s.                     *)
Collected(p, s, k) ==
  /\ p.count = k - 1
  /\ k > 1 => /\ p.starts = Starts(Header)
              /\ p.data = [i \in 1..Offset(k-1) |-> UnitAt(s, i)]

(* In an undisturbed superframe the thread is not behind with its count, so  *)
(* that it waits for a header at the end; in the next one it has everything. *)
Counted(H, p, v) ==
  Calm(H, v.sf) =>
    \E k \in 1..5 : /\ v.at = Offset(k-1) + 1
                    /\ p.count = 0 \/ p.count >= k - 1
                    /\ Calm(H, v.sf - 1) => Collected(p, v.sf, k)

AUsOf(s) == ((s - 1) * AUs + 1) .. (s * AUs)

HeardUpTo(H, got, v) ==
  \A t \in Int : 1 <= t /\ t < v.sf /\ Calm(H, t) /\ Calm(H, t - 1) => AUsOf(t) \subseteq got

(* Units of other superframes may be passed over.                           *)
LEMMA Skipped ==
  ASSUME NEW H, NEW u, NEW v, Located(u), Located(v), Follows(H, u, v), ~Calm(H, u.sf)
  PROVE  /\ Aligned(H, v, 0)
         /\ \A fr : fr[1].sf \in Int /\ Adjacent(H, fr, u) => Adjacent(H, fr, v)
         /\ \A p : p.count \in 0..4 => Counted(H, p, v)
         /\ \A got : HeardUpTo(H, got, u) => HeardUpTo(H, got, v)
<1>1. /\ u.sf \in Int /\ u.at \in Int /\ v.sf \in Int /\ v.at \in Int /\ u.sf <= v.sf
      /\ v.sf \notin H /\ u.sf < v.sf => v.at = 1
      /\ \A t \in Int : u.sf < t /\ t < v.sf => t \in H
  BY DEF Located, Follows
<1>2. Calm(H, v.sf) => u.sf < v.sf /\ v.at = 1
  BY <1>1 DEF Calm
<1>3. ~(Calm(H, v.sf) /\ Calm(H, v.sf - 1))
  <2> SUFFICES ASSUME Calm(H, v.sf), Calm(H, v.sf - 1) PROVE FALSE
    OBVIOUS
  <2>1. v.sf - 1 \in Int /\ v.sf - 1 \notin H /\ u.sf <= v.sf - 1 /\ v.sf - 1 < v.sf
    BY <1>1, <1>2 DEF Calm
  <2>2. u.sf = v.sf - 1
    BY <1>1, <2>1
  <2> QED
    BY <2>2
<1>4. Aligned(H, v, 0)
  BY <1>2, Offsets DEF Aligned, Calm
<1>5. \A t \in Int : Calm(H, t) => ~(u.sf <= t /\ t < v.sf)
  BY <1>1 DEF Calm
<1>6. ASSUME NEW fr, fr[1].sf \in Int, Adjacent(H, fr, u) PROVE Adjacent(H, fr, v)
  <2> DEFINE f == fr[1].sf
  <2>1. /\ f \in Int /\ f <= u.sf
        /\ \A t \in Int : Calm(H, t) => ~(f < t /\ t < u.sf)
        /\ Calm(H, f) =>
             \E k \in 1..5 : /\ fr = FrameAt(f, k)
                             /\ k < 5 => u.sf = f
                             /\ k = 5 => f < u.sf
    BY <1>6 DEF Adjacent
  <2> HIDE DEF f
  <2>2. f <= v.sf
    BY <1>1, <2>1
  <2>3. ASSUME NEW t \in Int, Calm(H, t) PROVE ~(f < t /\ t < v.sf)
    BY <1>1, <1>5, <2>1, <2>3
  <2>4. ASSUME Calm(H, f)
        PROVE  \E k \in 1..5 : /\ fr = FrameAt(f, k)
                               /\ k < 5 => v.sf = f /\ v.at = Offset(k) + 1
                               /\ k = 5 => f < v.sf
    <3>1. PICK k \in 1..5 : fr = FrameAt(f, k) /\ (k < 5 => u.sf = f) /\ (k = 5 => f < u.sf)
      BY <2>1, <2>4
    <3>2. k = 5
      BY <2>4, <3>1
    <3>3. f < v.sf
      BY <1>1, <2>1, <3>1, <3>2
    <3> QED
      BY <3>1, <3>2, <3>3
  <2> QED
    BY <1>2, <2>2, <2>3, <2>4 DEF Adjacent, f
<1>7. ASSUME NEW p, p.count \in 0..4 PROVE Counted(H, p, v)
  <2> SUFFICES ASSUME Calm(H, v.sf)
               PROVE  \E k \in 1..5 : /\ v.at = Offset(k-1) + 1
                                      /\ p.count = 0 \/ p.count >= k - 1
                                      /\ Calm(H, v.sf - 1) => Collected(p, v.sf, k)
    BY DEF Counted
  <2>1. 1 \in 1..5 /\ v.at = Offset(1-1) + 1 /\ p.count >= 1 - 1
    BY <1>2, <1>7, Offsets
  <2> QED
    BY <1>3, <2>1
<1>8. ASSUME NEW got, HeardUpTo(H, got, u) PROVE HeardUpTo(H, got, v)
  <2> SUFFICES ASSUME NEW t \in Int, 1 <= t, t < v.sf, Calm(H, t), Calm(H, t - 1)
               PROVE  AUsOf(t) \subseteq got
    BY DEF HeardUpTo
  <2>1. t < u.sf
    BY <1>1, <1>5
  <2> QED
    BY <1>8, <2>1 DEF HeardUpTo
<1> QED
  BY <1>4, <1>6, <1>7, <1>8

-----------------------------------------------------------------------------
(* The AUs that are sent.                                                  *)
SentEnds == Append(Starts(Header), SuperFrameSize + 1)

LEMMA SentStarts ==
  /\ Starts(Header) \in Seq(Nat) /\ Len(Starts(Header)) = AUs /\ AUs \in Nat
  /\ \A j \in 1..AUs : SentEnds[j] = Starts(Header)[j]
  /\ SentEnds[AUs+1] = SuperFrameSize + 1
  /\ \A j \in 1..(AUs+1) : SentEnds[j] \in Nat
  /\ \A j \in 1..AUs : SentEnds[j] < SentEnds[j+1]
<1> DEFINE starts == Starts(Header)
           m == AUs - 1
           rest == SubSeq(Header.starts, 1, m)
<1>1. m \in Nat /\ m + 1 = AUs /\ AUs \in Nat /\ AUs = NumAUs(Header)
  BY AUsFew DEF AUs
<1>2. Header.starts \in Seq(Nat) /\ Len(Header.starts) \in Nat /\ m <= Len(Header.starts)
  BY FramesAssumption DEF IsHeader, AUs
<1>3. starts = <<2>> \o rest
  BY DEF Starts, AUs
<1> HIDE DEF m, starts
<1>4. rest \in Seq(Nat) /\ Len(rest) = m
  <2>1. \A i \in 1..m : Header.starts[i] \in Nat
    BY <1>1, <1>2, SMTT(40)
  <2>2. rest \in Seq(Nat) /\ Len(rest) = IF 1 <= m THEN m - 1 + 1 ELSE 0
    BY <1>1, <2>1, SubSeqProperties
  <2> QED
    BY <1>1, <2>2
<1> HIDE DEF rest
<1>5. starts \in Seq(Nat) /\ Len(starts) = AUs
  <2>1. <<2>> \in Seq(Nat) /\ Len(<<2>>) = 1
    OBVIOUS
  <2>2. starts \in Seq(Nat) /\ Len(starts) = 1 + m
    BY <1>3, <1>4, <2>1, ConcatProperties
  <2> QED
    BY <1>1, <2>2
<1>6. SuperFrameSize + 1 \in Nat
  BY FramesAssumption
<1>7. SentEnds = Append(starts, SuperFrameSize + 1)
  BY DEF SentEnds, starts
<1>8. /\ SentEnds \in Seq(Nat) /\ Len(SentEnds) = AUs + 1
      /\ \A j \in 1..AUs : SentEnds[j] = starts[j]
      /\ SentEnds[AUs+1] = SuperFrameSize + 1
  BY <1>5, <1>6, <1>7, AppendProperties
<1>9. \A j \in 1..(AUs+1) : SentEnds[j] \in Nat
  BY <1>8
<1>10. \A j \in 1..AUs : SentEnds[j] < SentEnds[j+1]
  BY <1>1, HeaderAssumption DEF SentEnds
<1> QED
  BY <1>1, <1>5, <1>8, <1>9, <1>10 DEF starts

LEMMA SentRises ==
  /\ \A j \in 1..AUs : SentEnds[j] <= SuperFrameSize
  /\ \A i, j \in 1..AUs : SentEnds[i] = SentEnds[j] => i = j
<1> DEFINE e == SentEnds
<1>1. AUs \in {2, 3, 4, 6}
  BY AUsFew
<1>2. /\ \A j \in 1..(AUs+1) : e[j] \in Nat
      /\ \A j \in 1..AUs : e[j] < e[j+1]
      /\ e[AUs+1] = SuperFrameSize + 1 /\ SuperFrameSize \in Nat
  BY SentStarts, FramesAssumption
<1> HIDE DEF e
<1>3. \A j \in 1..AUs : e[j] <= SuperFrameSize
  <2>1. CASE AUs = 2
    BY <1>2, <2>1
  <2>2. CASE AUs = 3
    BY <1>2, <2>2
  <2>3. CASE AUs = 4
    BY <1>2, <2>3
  <2>4. CASE AUs = 6
    BY <1>2, <2>4
  <2> QED
    BY <1>1, <2>1, <2>2, <2>3, <2>4
<1>4. \A i, j \in 1..AUs : e[i] = e[j] => i = j
  <2>1. CASE AUs = 2
    BY <1>2, <2>1
  <2>2. CASE AUs = 3
    BY <1>2, <2>2
  <2>3. CASE AUs = 4
    BY <1>2, <2>3
  <2>4. CASE AUs = 6
    BY <1>2, <2>4
  <2> QED
    BY <1>1, <2>1, <2>2, <2>3, <2>4
<1> QED
  BY <1>3, <1>4 DEF e

LEMMA HeaderGood == ~BadStart(Starts(Header))
<1> DEFINE s == Starts(Header)
<1>1. /\ s \in Seq(Nat) /\ Len(s) = AUs /\ AUs \in Nat /\ SuperFrameSize \in Nat
      /\ \A j \in 1..AUs : SentEnds[j] = s[j] /\ SentEnds[j] <= SuperFrameSize
      /\ \A j \in 1..AUs : SentEnds[j] < SentEnds[j+1]
  BY SentStarts, SentRises, FramesAssumption
<1> HIDE DEF s
<1>2. \A i \in 2..Len(s) : s[i] <= SuperFrameSize /\ s[i-1] < s[i] /\ s[i] \in Nat /\ s[i-1] \in Nat
  <2> SUFFICES ASSUME NEW i \in 2..Len(s)
               PROVE s[i] <= SuperFrameSize /\ s[i-1] < s[i] /\ s[i] \in Nat /\ s[i-1] \in Nat
    OBVIOUS
  <2>1. i \in 1..AUs /\ i - 1 \in 1..AUs /\ (i - 1) + 1 = i
    BY <1>1
  <2>2. SentEnds[i] = s[i] /\ SentEnds[i-1] = s[i-1] /\ s[i] <= SuperFrameSize
    BY <1>1, <2>1
  <2>3. SentEnds[i-1] < SentEnds[i]
    <3> DEFINE j == i - 1
    <3>1. j \in 1..AUs /\ j + 1 = i
      BY <2>1
    <3> HIDE DEF j
    <3>2. SentEnds[j] < SentEnds[j+1]
      BY <1>1, <3>1
    <3> QED
      BY <3>1, <3>2 DEF j
  <2>4. s[i] \in Nat /\ s[i-1] \in Nat
    BY <1>1, <2>1, ElementOfSeq
  <2> QED
    BY <2>2, <2>3, <2>4
<1>3. ~BadStart(s)
  BY <1>1, <1>2 DEF BadStart
<1> QED
  BY <1>3 DEF s

LEMMA GrownByFrame ==
  ASSUME NEW s, NEW k \in 1..5
  PROVE  /\ [i \in 1..Offset(k-1) |-> UnitAt(s, i)] \o FrameAt(s, k) =
              [i \in 1..Offset(k) |-> UnitAt(s, i)]
         /\ FrameAt(s, 1) = [i \in 1..Offset(1) |-> UnitAt(s, i)]
         /\ FrameAt(s, k)[1] = UnitAt(s, Offset(k-1) + 1)
<1> DEFINE T == {UnitAt(s, i) : i \in Int}
           F == FrameSize
           from == Offset(k-1)
           a == [i \in 1..from |-> UnitAt(s, i)]
           fr == FrameAt(s, k)
           all == [i \in 1..Offset(k) |-> UnitAt(s, i)]
<1>1. F \in Nat /\ F >= 1 /\ from \in Nat /\ Offset(k) = from + F
  <2>1. \A c \in 0..4 : Offset(c) \in Nat /\ Offset(c+1) = Offset(c) + F
    BY Offsets
  <2>2. k - 1 \in 0..4 /\ (k - 1) + 1 = k
    OBVIOUS
  <2> QED
    BY <2>1, <2>2, Offsets
<1>2. a \in Seq(T) /\ Len(a) = from /\ \A i \in 1..from : a[i] = UnitAt(s, i)
  <2> HIDE DEF from
  <2>1. \A i \in 1..from : UnitAt(s, i) \in T
    BY <1>1
  <2> HIDE DEF T
  <2> QED
    BY <1>1, <2>1
<1>3. fr \in Seq(T) /\ Len(fr) = F /\ \A i \in 1..F : fr[i] = UnitAt(s, from + i)
  <2>1. fr = [i \in 1..F |-> UnitAt(s, from + i)]
    BY DEF FrameAt
  <2> HIDE DEF from, fr
  <2>2. \A i \in 1..F : UnitAt(s, from + i) \in T
    BY <1>1
  <2> HIDE DEF T, F
  <2> QED
    BY <1>1, <2>1, <2>2
<1>4. all \in Seq(T) /\ Len(all) = from + F /\ \A i \in 1..(from + F) : all[i] = UnitAt(s, i)
  <2>1. all = [i \in 1..(from + F) |-> UnitAt(s, i)]
    BY <1>1
  <2> HIDE DEF from, F, all
  <2>2. \A i \in 1..(from + F) : UnitAt(s, i) \in T
    BY <1>1
  <2> HIDE DEF T
  <2> QED
    BY <1>1, <2>1, <2>2
<1> HIDE DEF a, fr, all, from, T, F
<1>5. a \o fr = all
  <2>1. /\ a \o fr \in Seq(T) /\ Len(a \o fr) = from + F
        /\ \A i \in 1..(from + F) : (a \o fr)[i] = IF i <= from THEN a[i] ELSE fr[i - from]
    BY <1>2, <1>3, ConcatProperties
  <2>2. ASSUME NEW i \in 1..(from + F) PROVE (a \o fr)[i] = all[i]
    <3>1. CASE i <= from
      BY <1>1, <1>2, <1>4, <2>1, <3>1
    <3>2. CASE ~(i <= from)
      <4>1. i - from \in 1..F /\ from + (i - from) = i
        BY <1>1, <3>2
      <4>2. (a \o fr)[i] = fr[i - from]
        BY <1>1, <2>1, <3>2
      <4> QED
        BY <1>3, <1>4, <4>1, <4>2
    <3> QED
      BY <3>1, <3>2
  <2> QED
    BY <1>4, <2>1, <2>2, SeqEqual
<1>6. FrameAt(s, 1) = [i \in 1..Offset(1) |-> UnitAt(s, i)]
  <2>1. FrameAt(s, 1) = [i \in 1..F |-> UnitAt(s, Offset(0) + i)]
    BY DEF FrameAt, F
  <2>2. Offset(0) = 0 /\ Offset(1) = F
    BY Offsets DEF F
  <2>3. \A i \in 1..F : 0 + i = i
    BY <1>1
  <2> QED
    BY <2>1, <2>2, <2>3
<1>7. fr[1] = UnitAt(s, from + 1)
  BY <1>1, <1>3
<1> QED
  BY <1>5, <1>6, <1>7 DEF a, fr, all, from

-----------------------------------------------------------------------------
(* What the thread does with a frame, by its count.                         *)
Effect(p, fr, P) ==
  /\ p.count = 0 /\ fr[1].header = NoHeader => P.count = 0
  /\ p.count = 0 /\ fr[1].header = Header =>
       P.count = 1 /\ P.data = fr /\ P.starts = Starts(Header)
  /\ p.count \in 1..3 => P.count = p.count + 1 /\ P.data = p.data \o fr /\ P.starts = p.starts
  /\ p.count = 4 => /\ P.count = 0
                    /\ P.aus = AccessUnits([data |-> p.data \o fr, starts |-> p.starts])

LEMMA ProcessGoesOn ==
  ASSUME NEW n, NEW p, SuperOk(n, p), NEW fr \in Frames(n), p.count \in 1..4
  PROVE  LET data == p.data \o fr
             grown == [data |-> data, starts |-> p.starts, count |-> p.count + 1,
                       sync |-> p.sync, aus |-> <<>>]
         IN  ProcessData(p, fr) = IF p.count = 4 THEN SuperFrameEnds(grown) ELSE grown
<1> DEFINE q == [p EXCEPT !.aus = <<>>]
           P == ProcessData(p, fr)
<1>1. q = [data |-> p.data, starts |-> p.starts, count |-> p.count, sync |-> p.sync, aus |-> <<>>]
  BY SMTT(40) DEF SuperOk
<1>2. p.count \in 0..4 /\ p.sync \in BOOLEAN /\ (~p.sync => p.count = 0)
  BY DEF SuperOk
<1>3. P = IF q.count = 0 /\ fr[1].header # NoHeader THEN SuperFrameBegins(q, fr)
          ELSE IF q.sync THEN SuperFrameGoesOn(q, fr) ELSE q
  <2>1. ~(q.count > 5)
    BY <1>1, <1>2
  <2> QED
    BY <2>1 DEF ProcessData
<1> HIDE DEF q, P
<1> DEFINE data == p.data \o fr
           grown == [data |-> data, starts |-> p.starts, count |-> p.count + 1,
                     sync |-> p.sync, aus |-> <<>>]
           g == [q EXCEPT !.data = @ \o fr, !.count = @ + 1]
<1>4. p.count # 0 /\ p.sync = TRUE
  BY <1>2
<1>5. P = SuperFrameGoesOn(q, fr)
  <2>1. q.count = p.count /\ q.sync = p.sync
    BY <1>1
  <2> QED
    BY <1>3, <1>4, <2>1
<1>6. P = IF g.count = 5 THEN SuperFrameEnds(g) ELSE g
  BY <1>5 DEF SuperFrameGoesOn
<1>7. g = grown
  <2>1. q = [data |-> q.data, starts |-> q.starts, count |-> q.count, sync |-> q.sync,
             aus |-> q.aus]
    BY <1>1
  <2>2. [q EXCEPT !.data = q.data \o fr, !.count = q.count + 1] =
          [data |-> q.data \o fr, starts |-> q.starts, count |-> q.count + 1, sync |-> q.sync,
           aus |-> q.aus]
    BY <2>1, Replaced
  <2>3. g = [q EXCEPT !.data = q.data \o fr, !.count = q.count + 1]
    OBVIOUS
  <2>4. /\ q.data = p.data /\ q.starts = p.starts /\ q.count = p.count /\ q.sync = p.sync
        /\ q.aus = <<>>
    BY <1>1
  <2> HIDE DEF g
  <2> QED
    BY <2>2, <2>3, <2>4
<1>8. grown.count = 5 <=> p.count = 4
  OBVIOUS
<1> HIDE DEF grown, g
<1>9. P = IF p.count = 4 THEN SuperFrameEnds(grown) ELSE grown
  BY <1>6, <1>7, <1>8
<1> QED
  BY <1>9 DEF grown, P

LEMMA ProcessEffect ==
  ASSUME NEW n, NEW p, SuperOk(n, p), NEW fr \in Frames(n)
  PROVE  Effect(p, fr, ProcessData(p, fr))
<1> DEFINE q == [p EXCEPT !.aus = <<>>]
           P == ProcessData(p, fr)
<1>1. q = [data |-> p.data, starts |-> p.starts, count |-> p.count, sync |-> p.sync, aus |-> <<>>]
  BY DEF SuperOk
<1>2. /\ p.count \in 0..4 /\ p.sync \in BOOLEAN /\ (~p.sync => p.count = 0)
      /\ p.sync => p.count # 0
  BY DEF SuperOk
<1>3. P = IF q.count = 0 /\ fr[1].header # NoHeader THEN SuperFrameBegins(q, fr)
          ELSE IF q.sync THEN SuperFrameGoesOn(q, fr) ELSE q
  <2>1. ~(q.count > 5)
    BY <1>1, <1>2
  <2> QED
    BY <2>1 DEF ProcessData
<1> HIDE DEF q, P
<1>4. ASSUME p.count = 0, fr[1].header = NoHeader PROVE P.count = 0
  <2>1. ~p.sync
    BY <1>2, <1>4
  <2>2. P = q
    BY <1>1, <1>3, <1>4, <2>1
  <2> QED
    BY <1>1, <1>4, <2>2
<1>5. ASSUME p.count = 0, fr[1].header = Header
      PROVE  P.count = 1 /\ P.data = fr /\ P.starts = Starts(Header)
  <2> DEFINE starts == Starts(Header)
  <2>1. P = SuperFrameBegins(q, fr)
    BY <1>1, <1>3, <1>5, HeaderThere
  <2>2. ~BadStart(starts)
    BY HeaderGood
  <2>3. P = [q EXCEPT !.data = fr, !.starts = starts, !.count = 1, !.sync = TRUE]
    BY <1>5, <2>1, <2>2 DEF SuperFrameBegins
  <2> HIDE DEF starts
  <2>4. P = [data |-> fr, starts |-> starts, count |-> 1, sync |-> TRUE, aus |-> <<>>]
    BY <1>1, <2>3
  <2>5. P.count = 1 /\ P.data = fr /\ P.starts = starts
    BY <2>4
  <2> QED
    BY <2>5 DEF starts
<1>6. ASSUME p.count \in 1..4
      PROVE  LET data == p.data \o fr
                 grown == [data |-> data, starts |-> p.starts, count |-> p.count + 1,
                           sync |-> p.sync, aus |-> <<>>]
             IN  P = IF p.count = 4 THEN SuperFrameEnds(grown) ELSE grown
  BY <1>6, ProcessGoesOn DEF P
<1>7. ASSUME p.count \in 1..3
      PROVE  P.count = p.count + 1 /\ P.data = p.data \o fr /\ P.starts = p.starts
  <2>1. p.count \in 1..4 /\ p.count # 4
    BY <1>7
  <2>2. P = [data |-> p.data \o fr, starts |-> p.starts, count |-> p.count + 1,
             sync |-> p.sync, aus |-> <<>>]
    BY <1>6, <2>1
  <2> QED
    BY <2>2
<1>8. ASSUME p.count = 4
      PROVE  /\ P.count = 0
             /\ P.aus = AccessUnits([data |-> p.data \o fr, starts |-> p.starts])
  <2> DEFINE data == p.data \o fr
             grown == [data |-> data, starts |-> p.starts, count |-> p.count + 1,
                       sync |-> p.sync, aus |-> <<>>]
             few == [data |-> data, starts |-> p.starts]
             aus == AccessUnits(grown)
  <2>1. p.count \in 1..4
    BY <1>8
  <2>2. P = SuperFrameEnds(grown)
    BY <1>6, <1>8, <2>1
  <2>3. AccessUnits(few) = aus
    <3>1. few.data = grown.data /\ few.starts = grown.starts
      OBVIOUS
    <3> HIDE DEF few, grown
    <3> QED
      BY <3>1 DEF AccessUnits
  <2>4. P = [grown EXCEPT !.aus = aus, !.count = 0, !.sync = FALSE]
    BY <2>2 DEF SuperFrameEnds
  <2> HIDE DEF data, aus
  <2>5. P = [data |-> data, starts |-> p.starts, count |-> 0, sync |-> FALSE, aus |-> aus]
    BY <2>4
  <2>6. P.count = 0 /\ P.aus = aus
    BY <2>5
  <2> HIDE DEF few
  <2>7. P.count = 0 /\ P.aus = AccessUnits(few)
    BY <2>3, <2>6
  <2> QED
    BY <2>7 DEF few, data
<1> QED
  BY <1>4, <1>5, <1>7, <1>8 DEF Effect, P

WholeSuperFrame(s) ==
  [data |-> [i \in 1..SentPerSuperFrame |-> UnitAt(s, i)], starts |-> Starts(Header)]

LEMMA FrameCounted ==
  ASSUME NEW n, NEW H, NEW p, SuperOk(n, p), NEW fr \in Frames(n), NEW s, NEW k \in 1..5,
         Calm(H, s), fr = FrameAt(s, k), Counted(H, p, fr[1])
  PROVE  /\ k < 5 => ProcessData(p, fr).count = 0 \/ ProcessData(p, fr).count >= k
         /\ k = 5 => ProcessData(p, fr).count = 0
         /\ k < 5 /\ Calm(H, s - 1) => Collected(ProcessData(p, fr), s, k + 1)
         /\ k = 5 /\ Calm(H, s - 1) =>
              ProcessData(p, fr).aus = AccessUnits(WholeSuperFrame(s))
<1> DEFINE P == ProcessData(p, fr)
           c == p.count
<1>1. c \in 0..4
  BY DEF SuperOk
<1>2. /\ \A i \in 0..4 : Offset(i) \in Nat
      /\ \A i, j \in 0..5 : i < j => Offset(i) < Offset(j)
      /\ Offset(0) = 0
  BY Offsets
<1>3. fr[1] = UnitAt(s, Offset(k-1) + 1)
  BY GrownByFrame
<1>4. fr[1].sf = s /\ fr[1].at = Offset(k-1) + 1
      /\ fr[1].header = IF Offset(k-1) + 1 = 1 THEN Header ELSE NoHeader
  BY <1>3 DEF UnitAt
<1>5. fr[1].header = IF k = 1 THEN Header ELSE NoHeader
  <2>1. CASE k = 1
    BY <1>2, <1>4, <2>1
  <2>2. CASE k # 1
    <3>1. k - 1 \in 0..4 /\ 0 < k - 1 /\ 0 \in 0..5 /\ k - 1 \in 0..5
      BY <2>2
    <3>2. Offset(k-1) \in Nat /\ Offset(0) < Offset(k-1)
      BY <1>2, <3>1
    <3> QED
      BY <1>2, <1>4, <2>2, <3>2
  <2> QED
    BY <2>1, <2>2
<1>6. PICK m \in 1..5 : /\ fr[1].at = Offset(m-1) + 1
                        /\ c = 0 \/ c >= m - 1
                        /\ Calm(H, s - 1) => Collected(p, s, m)
  BY <1>4 DEF Counted
<1>7. m = k
  <2>1. m - 1 \in 0..4 /\ k - 1 \in 0..4 /\ m - 1 \in 0..5 /\ k - 1 \in 0..5
    OBVIOUS
  <2>2. Offset(m-1) = Offset(k-1)
    <3>1. Offset(m-1) \in Nat /\ Offset(k-1) \in Nat /\ Offset(m-1) + 1 = Offset(k-1) + 1
      BY <1>2, <1>4, <1>6, <2>1
    <3> QED
      BY <3>1
  <2>3. ~(m - 1 < k - 1)
    <3> SUFFICES ASSUME m - 1 < k - 1 PROVE FALSE
      OBVIOUS
    <3>1. Offset(m-1) < Offset(k-1) /\ Offset(k-1) \in Nat
      BY <1>2, <2>1
    <3> QED
      BY <2>2, <3>1
  <2>4. ~(k - 1 < m - 1)
    <3> SUFFICES ASSUME k - 1 < m - 1 PROVE FALSE
      OBVIOUS
    <3>1. Offset(k-1) < Offset(m-1) /\ Offset(k-1) \in Nat
      BY <1>2, <2>1
    <3> QED
      BY <2>2, <3>1
  <2> QED
    BY <2>3, <2>4
<1>8. (c = 0 \/ c >= k - 1) /\ (Calm(H, s - 1) => Collected(p, s, k))
  BY <1>6, <1>7
<1>9. /\ c = 0 /\ k # 1 => P.count = 0
      /\ c = 0 /\ k = 1 => P.count = 1 /\ P.data = fr /\ P.starts = Starts(Header)
      /\ c \in 1..3 => P.count = c + 1 /\ P.data = p.data \o fr /\ P.starts = p.starts
      /\ c = 4 => /\ P.count = 0
                  /\ P.aus = AccessUnits([data |-> p.data \o fr, starts |-> p.starts])
  <2>1. Effect(p, fr, P)
    BY ProcessEffect
  <2> HIDE DEF P
  <2> QED
    BY <1>5, <2>1 DEF Effect
<1> HIDE DEF P
<1>10. ASSUME Calm(H, s - 1)
       PROVE  c = k - 1 /\ (k > 1 => /\ p.starts = Starts(Header)
                                     /\ p.data = [i \in 1..Offset(k-1) |-> UnitAt(s, i)])
  BY <1>8, <1>10 DEF Collected
<1>11. k > 1 /\ Calm(H, s - 1) => p.data \o fr = [i \in 1..Offset(k) |-> UnitAt(s, i)]
  <2> DEFINE a == [i \in 1..Offset(k-1) |-> UnitAt(s, i)]
             all == [i \in 1..Offset(k) |-> UnitAt(s, i)]
  <2>1. k > 1 /\ Calm(H, s - 1) => p.data = a
    BY <1>10
  <2>2. a \o fr = all
    BY GrownByFrame
  <2> HIDE DEF a, all
  <2>3. k > 1 /\ Calm(H, s - 1) => p.data \o fr = all
    BY <2>1, <2>2
  <2> QED
    BY <2>3 DEF all
<1>12. k < 5 => P.count = 0 \/ P.count >= k
  <2>1. CASE c = 0
    BY <1>9, <2>1
  <2>2. CASE c \in 1..3
    BY <1>8, <1>9, <2>2
  <2>3. CASE c = 4
    BY <1>9, <2>3
  <2> QED
    BY <1>1, <2>1, <2>2, <2>3
<1>13. k = 5 => P.count = 0
  <2> SUFFICES ASSUME k = 5 PROVE P.count = 0
    OBVIOUS
  <2>1. c = 0 \/ c = 4
    BY <1>1, <1>8
  <2> QED
    BY <1>9, <2>1
<1>14. ASSUME k < 5, Calm(H, s - 1) PROVE Collected(P, s, k + 1)
  <2>1. c = k - 1 /\ (k + 1) - 1 = k /\ k + 1 > 1
    BY <1>10, <1>14
  <2>2. P.count = k /\ P.starts = Starts(Header) /\ P.data = [i \in 1..Offset(k) |-> UnitAt(s, i)]
    <3>1. CASE k = 1
      <4>1. c = 0
        BY <2>1, <3>1
      <4>2. fr = [i \in 1..Offset(k) |-> UnitAt(s, i)]
        BY <3>1, GrownByFrame
      <4> QED
        BY <1>9, <3>1, <4>1, <4>2
    <3>2. CASE k # 1
      <4>1. c \in 1..3 /\ c + 1 = k /\ k > 1
        BY <1>14, <2>1, <3>2
      <4>2. P.count = k /\ P.data = p.data \o fr /\ P.starts = p.starts
        BY <1>9, <4>1
      <4> QED
        BY <1>10, <1>11, <1>14, <4>1, <4>2
    <3> QED
      BY <3>1, <3>2
  <2> QED
    BY <2>1, <2>2 DEF Collected
<1>15. ASSUME k = 5, Calm(H, s - 1) PROVE P.aus = AccessUnits(WholeSuperFrame(s))
  <2>1. c = 4 /\ k > 1
    BY <1>10, <1>15
  <2>2. Offset(k) = SentPerSuperFrame
    BY <1>15, Offsets
  <2>3. p.data \o fr = [i \in 1..SentPerSuperFrame |-> UnitAt(s, i)] /\ p.starts = Starts(Header)
    BY <1>10, <1>11, <1>15, <2>1, <2>2
  <2> QED
    BY <1>9, <2>1, <2>3 DEF WholeSuperFrame
<1> QED
  BY <1>12, <1>13, <1>14, <1>15 DEF P

(* The count of the thread, from one frame to the next.                     *)
LEMMA CountedOn ==
  ASSUME NEW n, NEW H, NEW p, SuperOk(n, p), NEW fr \in Frames(n), NEW v, Located(v),
         fr[1].sf \in Int, Adjacent(H, fr, v), Counted(H, p, fr[1])
  PROVE  Counted(H, ProcessData(p, fr), v)
<1> DEFINE P == ProcessData(p, fr)
           s == fr[1].sf
<1>1. P.count \in 0..4
  BY ProcessKeeps DEF SuperOk
<1>2. /\ s \in Int /\ v.sf \in Int /\ s <= v.sf
      /\ \A t \in Int : Calm(H, t) => ~(s < t /\ t < v.sf)
      /\ Calm(H, s) =>
           \E k \in 1..5 : /\ fr = FrameAt(s, k)
                           /\ k < 5 => v.sf = s /\ v.at = Offset(k) + 1
                           /\ k = 5 => s < v.sf
      /\ Calm(H, v.sf) /\ s < v.sf => v.at = 1
  BY DEF Located, Adjacent
<1>3. \A k \in 1..5 : Calm(H, s) /\ fr = FrameAt(s, k) =>
        /\ k < 5 => P.count = 0 \/ P.count >= k
        /\ k = 5 => P.count = 0
        /\ k < 5 /\ Calm(H, s - 1) => Collected(P, s, k + 1)
  BY FrameCounted
<1> HIDE DEF P, s
<1>4. ASSUME Calm(H, v.sf), s < v.sf
      PROVE  \E k \in 1..5 : /\ v.at = Offset(k-1) + 1
                             /\ P.count = 0 \/ P.count >= k - 1
                             /\ Calm(H, v.sf - 1) => Collected(P, v.sf, k)
  <2>1. v.at = Offset(1-1) + 1 /\ 1 \in 1..5 /\ P.count >= 1 - 1
    BY <1>1, <1>2, <1>4, Offsets
  <2>2. ASSUME Calm(H, v.sf - 1) PROVE Collected(P, v.sf, 1)
    <3>1. s = v.sf - 1
      BY <1>2, <1>4, <2>2
    <3>2. PICK k \in 1..5 : fr = FrameAt(s, k) /\ (k < 5 => v.sf = s)
      BY <1>2, <2>2, <3>1
    <3>3. k = 5
      BY <1>2, <1>4, <3>2
    <3>4. P.count = 0
      BY <1>3, <2>2, <3>1, <3>2, <3>3
    <3> QED
      BY <3>4 DEF Collected
  <2> QED
    BY <2>1, <2>2
<1>5. ASSUME Calm(H, v.sf), s = v.sf
      PROVE  \E k \in 1..5 : /\ v.at = Offset(k-1) + 1
                             /\ P.count = 0 \/ P.count >= k - 1
                             /\ Calm(H, v.sf - 1) => Collected(P, v.sf, k)
  <2>1. PICK k \in 1..5 : /\ fr = FrameAt(s, k)
                          /\ k < 5 => v.at = Offset(k) + 1
                          /\ k = 5 => s < v.sf
    BY <1>2, <1>5
  <2>2. k < 5
    BY <1>2, <1>5, <2>1
  <2>3. k + 1 \in 1..5 /\ (k + 1) - 1 = k
    BY <2>2
  <2>4. P.count = 0 \/ P.count >= k
    BY <1>3, <1>5, <2>1, <2>2
  <2>5. Calm(H, v.sf - 1) => Collected(P, v.sf, k + 1)
    BY <1>3, <1>5, <2>1, <2>2
  <2> QED
    BY <2>1, <2>2, <2>3, <2>4, <2>5
<1>6. Calm(H, v.sf) => \E k \in 1..5 : /\ v.at = Offset(k-1) + 1
                                       /\ P.count = 0 \/ P.count >= k - 1
                                       /\ Calm(H, v.sf - 1) => Collected(P, v.sf, k)
  BY <1>2, <1>4, <1>5
<1> QED
  BY <1>6 DEF Counted, P

-----------------------------------------------------------------------------
(* The PADs of the AUs whose CRC fits are heard.                            *)
LEMMA HandledHeard ==
  ASSUME NEW r, NEW aus, Len(aus) \in Nat, NEW j \in 1..Len(aus), CrcFits(aus[j])
  PROVE  Place(aus[j]) \in Handled(r, aus).heard
<1> DEFINE size == Len(aus)
           f == CHOOSE f : Hearings(f, r, aus, size)
           T == {k \in 0..size : j <= k => Place(aus[j]) \in f[k].heard}
<1>1. Handled(r, aus) = f[size]
  BY DEF Handled, Hearings, HeardNext, Hear, Unheard
<1> HIDE DEF size
<1>2. Hearings(f, r, aus, size)
  BY HearingsExist DEF size
<1> HIDE DEF f
<1>3. \A k \in 0..size : f[k] = IF k = 0 THEN Unheard(r) ELSE HeardNext(f[k-1], aus[k])
  BY <1>2 DEF Hearings
<1>4. size \in Nat /\ j \in 1..size
  BY DEF size
<1>5. 0 \in T
  BY <1>4
<1>6. ASSUME NEW k \in 1..size, k - 1 \in T PROVE k \in T
  <2>1. f[k] = HeardNext(f[k-1], aus[k]) /\ k \in 0..size
    BY <1>3, <1>4
  <2>2. f[k-1].heard \subseteq f[k].heard
    BY <2>1 DEF HeardNext, Hear
  <2>3. CASE j <= k - 1
    <3>1. Place(aus[j]) \in f[k-1].heard
      BY <1>6, <2>3
    <3> QED
      BY <2>1, <2>2, <3>1
  <2>4. CASE ~(j <= k - 1)
    <3>1. j <= k => j = k
      BY <1>4, <2>4
    <3>2. Place(aus[j]) \in Hear(f[k-1], Place(aus[j])).heard
      BY DEF Hear
    <3>3. j = k => f[k] = Hear(f[k-1], Place(aus[j]))
      BY <2>1 DEF HeardNext
    <3> QED
      BY <2>1, <3>1, <3>2, <3>3
  <2> QED
    BY <2>3, <2>4
<1> HIDE DEF T
<1>7. \A k \in 0..size : k \in T
  BY <1>4, <1>5, <1>6, Ascends
<1>8. Place(aus[j]) \in f[size].heard
  BY <1>4, <1>7 DEF T
<1> QED
  BY <1>1, <1>8

LEMMA SentBehind == \A j \in 1..AUs : SentEnds[j] >= 2
<1> DEFINE e == SentEnds
<1>1. AUs \in {2, 3, 4, 6}
  BY AUsFew
<1>2. e[1] = 2
  <2>1. Starts(Header)[1] = 2
    <3>1. IsHeader(Header) /\ ~BadStart(Starts(Header))
      BY HeaderGood, FramesAssumption
    <3>2. StartsOk(Starts(Header))
      BY <3>1, GoodStarts
    <3> QED
      BY <3>2 DEF StartsOk
  <2>2. 1 \in 1..AUs
    BY <1>1
  <2> QED
    BY <2>1, <2>2, SentStarts
<1>3. /\ \A j \in 1..AUs : e[j] \in Nat
      /\ \A j \in 1..AUs : e[j] < e[j+1]
  <2>1. \A j \in 1..(AUs+1) : e[j] \in Nat
    BY SentStarts
  <2>2. \A j \in 1..AUs : j \in 1..(AUs+1)
    BY <1>1
  <2> QED
    BY <2>1, <2>2, SentStarts
<1> HIDE DEF e
<1>4. \A j \in 1..AUs : e[j] >= 2
  <2>1. CASE AUs = 2
    BY <1>2, <1>3, <2>1
  <2>2. CASE AUs = 3
    BY <1>2, <1>3, <2>2
  <2>3. CASE AUs = 4
    BY <1>2, <1>3, <2>3
  <2>4. CASE AUs = 6
    BY <1>2, <1>3, <2>4
  <2> QED
    BY <1>1, <2>1, <2>2, <2>3, <2>4
<1> QED
  BY <1>4 DEF e

(* The AUs of a superframe that arrived whole.                              *)
LEMMA WholeFits ==
  ASSUME NEW s, NEW j \in 1..AUs
  PROVE  /\ AccessUnits(WholeSuperFrame(s)) = [i \in 1..AUs |-> AccessUnits(WholeSuperFrame(s))[i]]
         /\ CrcFits(AccessUnits(WholeSuperFrame(s))[j])
         /\ AccessUnits(WholeSuperFrame(s))[j][1].sf = s
         /\ AccessUnits(WholeSuperFrame(s))[j][1].at = SentEnds[j]
<1> DEFINE b == SentPerSuperFrame
           T == {UnitAt(s, i) : i \in Int}
           data == [i \in 1..b |-> UnitAt(s, i)]
           from == SentEnds[j]
           next == SentEnds[j+1]
           au == SubSeq(data, from, next - 1)
           aus == AccessUnits(WholeSuperFrame(s))
<1>1. b \in Nat /\ SuperFrameSize \in Nat /\ SuperFrameSize <= b
  BY FramesAssumption DEF SentPerSuperFrame
<1>2. from \in Nat /\ next \in Nat /\ from >= 2 /\ from < next /\ next <= SuperFrameSize + 1
  <2>1. AUs \in Nat /\ j \in 1..(AUs+1) /\ j + 1 \in 1..(AUs+1)
    BY SentStarts
  <2>2. from \in Nat /\ next \in Nat /\ from >= 2 /\ from < next
    BY <2>1, SentStarts, SentBehind
  <2>3. CASE j = AUs
    BY <1>1, <2>2, <2>3, SentStarts
  <2>4. CASE j # AUs
    <3>1. j + 1 \in 1..AUs
      BY <2>1, <2>4
    <3>2. next <= SuperFrameSize
      BY <3>1, SentRises
    <3> QED
      BY <1>1, <2>2, <3>2
  <2> QED
    BY <2>2, <2>3, <2>4
<1> HIDE DEF from, next
<1>3. \A i \in from..(next-1) : i \in 1..b
  BY <1>1, <1>2
<1>4. /\ Len(au) = next - from /\ Len(au) \in Nat /\ Len(au) >= 1 /\ au \in Seq(T)
      /\ \A i \in 1..(next - from) : au[i] = UnitAt(s, from + (i - 1))
  <2> HIDE DEF b
  <2>1. \A i \in 1..b : data[i] = UnitAt(s, i) /\ UnitAt(s, i) \in T
    BY <1>1
  <2> HIDE DEF data, T
  <2>2. \A i \in from..(next-1) : data[i] \in T
    BY <1>3, <2>1
  <2>3. /\ au \in Seq(T)
        /\ Len(au) = IF from <= next - 1 THEN (next - 1) - from + 1 ELSE 0
        /\ \A i \in 1..((next - 1) - from + 1) : au[i] = data[from + i - 1]
    <3>1. from \in Int /\ next - 1 \in Int
      BY <1>2
    <3> QED
      BY <2>2, <3>1, SubSeqProperties
  <2> HIDE DEF au
  <2>4. Len(au) = next - from /\ Len(au) \in Nat /\ Len(au) >= 1
    BY <1>2, <2>3
  <2>5. ASSUME NEW i \in 1..(next - from) PROVE au[i] = UnitAt(s, from + (i - 1))
    <3>1. i \in 1..((next - 1) - from + 1) /\ from + i - 1 = from + (i - 1)
          /\ from + (i - 1) \in from..(next-1)
      BY <1>2
    <3>2. au[i] = data[from + (i - 1)]
      BY <2>3, <3>1
    <3> QED
      BY <1>3, <2>1, <3>1, <3>2
  <2> QED
    BY <2>3, <2>4, <2>5
<1> HIDE DEF au, T
<1>5. aus = [i \in 1..AUs |-> SubSeq(data, SentEnds[i], SentEnds[i+1] - 1)]
  <2> DEFINE starts == Starts(Header)
  <2>1. starts \in Seq(Nat) /\ Len(starts) = AUs
    BY SentStarts
  <2>2. DOMAIN starts = 1..AUs
    BY <2>1
  <2> HIDE DEF b
  <2>3. WholeSuperFrame(s).starts = starts /\ WholeSuperFrame(s).data = data
    BY DEF WholeSuperFrame, b
  <2> HIDE DEF data, starts
  <2> QED
    BY <2>2, <2>3 DEF AccessUnits, SentEnds, starts
<1> HIDE DEF data, aus
<1>6. aus[j] = au
  BY <1>5 DEF au, from, next
<1>7. au[1] = UnitAt(s, from)
  <2>1. 1 \in 1..(next - from) /\ from + (1 - 1) = from
    BY <1>2
  <2> QED
    BY <1>4, <2>1
<1>8. au[1].sf = s /\ au[1].at = from
  BY <1>7 DEF UnitAt
<1>9. CrcFits(au)
  <2>1. au # <<>> /\ DOMAIN au = 1..(next - from)
    BY <1>4
  <2>2. ASSUME NEW i \in 1..(next - from)
        PROVE  au[i].ok = "ok" /\ au[i].sf = au[1].sf /\ au[i].at = au[1].at + i - 1
    <3>1. au[i] = UnitAt(s, from + (i - 1))
      BY <1>4
    <3>2. au[i].ok = "ok" /\ au[i].sf = s /\ au[i].at = from + (i - 1)
      BY <3>1 DEF UnitAt
    <3>3. from + (i - 1) = from + i - 1
      BY <1>2
    <3> QED
      BY <1>8, <3>2, <3>3
  <2>3. LET ends == Append(Starts(Header), SuperFrameSize + 1)
        IN  \E k \in 1 .. NumAUs(Header) : /\ au[1].at = ends[k]
                                           /\ Len(au) = ends[k+1] - ends[k]
    <3>1. au[1].at = SentEnds[j] /\ Len(au) = SentEnds[j+1] - SentEnds[j]
      BY <1>4, <1>8 DEF from, next
    <3> QED
      BY <3>1 DEF SentEnds, AUs
  <2> QED
    BY <2>1, <2>2, <2>3 DEF CrcFits
<1>10. aus = [i \in 1..AUs |-> aus[i]]
  BY <1>5
<1>11. CrcFits(aus[j]) /\ aus[j][1].sf = s /\ aus[j][1].at = SentEnds[j]
  BY <1>6, <1>8, <1>9 DEF from
<1> QED
  BY <1>10, <1>11 DEF aus

LEMMA WholeHeard ==
  ASSUME NEW s \in Int, NEW r
  PROVE  AUsOf(s) \subseteq Handled(r, AccessUnits(WholeSuperFrame(s))).heard
<1> DEFINE aus == AccessUnits(WholeSuperFrame(s))
           m == AUs
           x == (s - 1) * m
<1>1. m \in Nat /\ m >= 1
  BY AUsFew
<1>2. Len(aus) = m
  <2>1. 1 \in 1..AUs
    BY <1>1
  <2>2. aus = [i \in 1..AUs |-> aus[i]]
    BY <2>1, WholeFits
  <2> HIDE DEF aus
  <2>3. Len([i \in 1..m |-> aus[i]]) = m
    BY <1>1
  <2> QED
    BY <2>2, <2>3
<1>3. x \in Int /\ s * m = x + m
  BY <1>1
<1>4. ASSUME NEW i \in AUsOf(s) PROVE \E j \in 1..m : i = x + j
  <2>1. i \in (x + 1)..(x + m)
    BY <1>3 DEF AUsOf
  <2> HIDE DEF x
  <2>2. i - x \in 1..m /\ i = x + (i - x)
    BY <1>1, <1>3, <2>1
  <2> QED
    BY <2>2
<1>5. ASSUME NEW j \in 1..m PROVE x + j \in Handled(r, aus).heard
  <2>1. CrcFits(aus[j]) /\ aus[j][1].sf = s /\ aus[j][1].at = SentEnds[j]
    BY WholeFits
  <2>2. Place(aus[j]) \in Handled(r, aus).heard
    <3>1. Len(aus) \in Nat /\ j \in 1..Len(aus)
      BY <1>1, <1>2
    <3> HIDE DEF aus
    <3> QED
      BY <2>1, <3>1, HandledHeard
  <2>3. \A k \in 1..AUs : Starts(Header)[k] = aus[j][1].at <=> k = j
    <3>1. \A k \in 1..AUs : SentEnds[k] = SentEnds[j] => k = j
      BY SentRises
    <3>2. \A k \in 1..AUs : SentEnds[k] = Starts(Header)[k]
      BY SentStarts
    <3> HIDE DEF aus
    <3> QED
      BY <2>1, <3>1, <3>2
  <2>4. (CHOOSE k \in 1..AUs : Starts(Header)[k] = aus[j][1].at) = j
    <3> HIDE DEF aus
    <3> QED
      BY <2>3
  <2>5. Place(aus[j]) = x + j
    <3> HIDE DEF aus
    <3> QED
      BY <2>1, <2>4 DEF Place
  <2> QED
    BY <2>2, <2>5
<1> HIDE DEF x, aus
<1>6. AUsOf(s) \subseteq Handled(r, aus).heard
  BY <1>4, <1>5
<1> QED
  BY <1>6 DEF aus

(* A superframe that two undisturbed ones precede is heard when its last     *)
(* frame is processed.                                                     *)
LEMMA HeardOn ==
  ASSUME NEW n, NEW H, NEW p, SuperOk(n, p), NEW fr \in Frames(n), NEW v, Located(v),
         fr[1].sf \in Int, Adjacent(H, fr, v), Counted(H, p, fr[1]),
         NEW got, HeardUpTo(H, got, fr[1]), NEW r
  PROVE  HeardUpTo(H, got \union Handled(r, ProcessData(p, fr).aus).heard, v)
<1> DEFINE P == ProcessData(p, fr)
           s == fr[1].sf
<1>1. /\ s \in Int /\ v.sf \in Int /\ s <= v.sf
      /\ \A t \in Int : Calm(H, t) => ~(s < t /\ t < v.sf)
      /\ Calm(H, s) =>
           \E k \in 1..5 : fr = FrameAt(s, k) /\ (k < 5 => v.sf = s)
  BY DEF Located, Adjacent
<1>2. \A k \in 1..5 : Calm(H, s) /\ fr = FrameAt(s, k) =>
        (k = 5 /\ Calm(H, s - 1) => P.aus = AccessUnits(WholeSuperFrame(s)))
  BY FrameCounted
<1> HIDE DEF P
<1> SUFFICES ASSUME NEW t \in Int, 1 <= t, t < v.sf, Calm(H, t), Calm(H, t - 1)
             PROVE  AUsOf(t) \subseteq got \union Handled(r, P.aus).heard
  BY DEF HeardUpTo, P
<1>3. CASE t < s
  BY <1>3 DEF HeardUpTo
<1>4. CASE ~(t < s)
  <2> HIDE DEF s
  <2>1. t = s
    BY <1>1, <1>4
  <2>2. PICK k \in 1..5 : fr = FrameAt(s, k) /\ (k < 5 => v.sf = s)
    BY <1>1, <2>1
  <2>3. k = 5
    BY <1>1, <2>1, <2>2
  <2>4. P.aus = AccessUnits(WholeSuperFrame(t))
    BY <1>2, <2>1, <2>2, <2>3
  <2> QED
    BY <2>4, WholeHeard
<1> QED
  BY <1>3, <1>4

-----------------------------------------------------------------------------
First(s, v) == IF s = <<>> THEN v ELSE s[1]

FramesAdjacent(H, frames, v) ==
  \A i \in 1..Len(frames) :
    Adjacent(H, frames[i], IF i < Len(frames) THEN frames[i+1][1] ELSE v)

Upcoming(frames, v) == IF frames = <<>> THEN v ELSE frames[1][1]

(* The units that are kept, and w behind them.                              *)
Joined(H, s, w) ==
  Linked(H, s) /\ Located(w) /\ Whole(H, w) /\ (s # <<>> => Follows(H, s[Len(s)], w))

(* All together: the units that wait for the scan, with w next to come, the  *)
(* frames that wait for the thread, and what the thread has done.           *)
Placed(H, y, frames, w, p, got) ==
  /\ y.count \in 0..4 /\ y.sync \in BOOLEAN /\ (y.sync <=> y.count # 0)
  /\ y.data = <<>> => y.count = 0
  /\ Joined(H, y.data, w)
  /\ Aligned(H, First(y.data, w), y.count)
  /\ FramesAdjacent(H, frames, First(y.data, w))
  /\ Counted(H, p, Upcoming(frames, First(y.data, w)))
  /\ HeardUpTo(H, got, Upcoming(frames, First(y.data, w)))

LEMMA Suffix ==
  ASSUME NEW H, NEW T, NEW d \in Seq(T), Linked(H, d), NEW n \in Nat, n < Len(d)
  PROVE  LET e == SubSeq(d, n + 1, Len(d))
         IN  /\ e \in Seq(T) /\ e # <<>> /\ Linked(H, e)
             /\ e[1] = d[n+1] /\ e[Len(e)] = d[Len(d)]
<1> DEFINE e == SubSeq(d, n + 1, Len(d))
           m == Len(d)
<1>1. m \in Nat /\ n < m
  OBVIOUS
<1>2. /\ e \in Seq(T) /\ Len(e) = m - n /\ m - n \in Nat /\ m - n >= 1
      /\ \A i \in 1..(m - n) : e[i] = d[n+i]
  <2>1. \A i \in (n+1)..m : d[i] \in T
    BY <1>1, ElementOfSeq
  <2>2. /\ e \in Seq(T) /\ Len(e) = IF n + 1 <= m THEN m - (n + 1) + 1 ELSE 0
        /\ \A i \in 1..(m - (n + 1) + 1) : e[i] = d[(n + 1) + i - 1]
    BY <1>1, <2>1, SubSeqProperties
  <2> HIDE DEF e, m
  <2>3. Len(e) = m - n /\ m - n \in Nat /\ m - n >= 1
    BY <1>1, <2>2
  <2>4. ASSUME NEW i \in 1..(m - n) PROVE e[i] = d[n+i]
    <3>1. i \in 1..(m - (n + 1) + 1) /\ (n + 1) + i - 1 = n + i
      BY <1>1
    <3> QED
      BY <2>2, <3>1
  <2> QED
    BY <2>2, <2>3, <2>4
<1> HIDE DEF e
<1>3. e # <<>>
  BY <1>2
<1>4. e[1] = d[n+1] /\ e[Len(e)] = d[m]
  <2>1. 1 \in 1..(m - n) /\ m - n \in 1..(m - n) /\ n + (m - n) = m
    BY <1>1, <1>2
  <2> QED
    BY <1>2, <2>1
<1>5. Linked(H, e)
  <2>1. ASSUME NEW i \in 1..(m - n) PROVE Located(e[i]) /\ Whole(H, e[i])
    <3>1. e[i] = d[n+i] /\ n + i \in 1..m
      BY <1>1, <1>2
    <3> QED
      BY <3>1 DEF Linked
  <2>2. ASSUME NEW i \in 1..((m - n) - 1) PROVE Follows(H, e[i], e[i+1])
    <3>1. /\ i \in 1..(m - n) /\ i + 1 \in 1..(m - n) /\ n + i \in 1..(m - 1)
          /\ n + (i + 1) = (n + i) + 1
      BY <1>1
    <3>2. e[i] = d[n+i] /\ e[i+1] = d[(n+i)+1]
      BY <1>2, <3>1
    <3>3. Follows(H, d[n+i], d[(n+i)+1])
      BY <3>1 DEF Linked
    <3> QED
      BY <3>2, <3>3
  <2> QED
    BY <1>2, <2>1, <2>2 DEF Linked
<1> QED
  BY <1>2, <1>3, <1>4, <1>5 DEF e

LEMMA TailLinked ==
  ASSUME NEW H, NEW T, NEW d \in Seq(T), Linked(H, d), Len(d) > 1
  PROVE  LET e == SubSeq(d, 2, Len(d))
         IN  e # <<>> /\ Linked(H, e) /\ e[1] = d[2] /\ e[Len(e)] = d[Len(d)]
<1>1. \A n \in Nat : n < Len(d) =>
        LET e == SubSeq(d, n + 1, Len(d))
        IN  e # <<>> /\ Linked(H, e) /\ e[1] = d[n+1] /\ e[Len(e)] = d[Len(d)]
  BY Suffix
<1> DEFINE k == 1
<1>2. k \in Nat /\ k < Len(d) /\ k + 1 = 2
  OBVIOUS
<1> HIDE DEF k
<1>3. LET e == SubSeq(d, k + 1, Len(d))
      IN  e # <<>> /\ Linked(H, e) /\ e[1] = d[k+1] /\ e[Len(e)] = d[Len(d)]
  BY <1>1, <1>2
<1> QED
  BY <1>2, <1>3

LEMMA FrameStarts ==
  ASSUME NEW n, NEW fr \in Frames(n)
  PROVE  fr[1] \in Units(n) /\ fr[1].sf \in Int /\ Located(fr[1])
<1>1. fr \in Seq(Units(n)) /\ 1 \in 1..Len(fr)
  BY FramesAssumption DEF Frames
<1>2. fr[1] \in Units(n)
  BY <1>1, ElementOfSeq
<1> QED
  BY <1>2 DEF Units, Located

LEMMA TakePlaced ==
  ASSUME NEW n, NEW H, NEW y, SyncOk(n, y), NEW w, NEW p, NEW got,
         Placed(H, y, y.frames, w, p, got), Len(y.data) > FrameSize, FrameBegins(y)
  PROVE  Placed(H, TakeFrame(y), TakeFrame(y).frames, w, p, got)
<1> DEFINE d == y.data
           rest == SubSeq(d, FrameSize + 1, Len(d))
           cut == SubSeq(d, 1, FrameSize)
           old == y.frames
           new == Append(old, cut)
           u == d[1]
           v == d[FrameSize+1]
           z == TakeFrame(y)
<1>1. /\ d \in Seq(Units(n)) /\ Len(d) \in Nat /\ Len(d) > FrameSize
      /\ FrameSize \in Nat /\ FrameSize >= 1 /\ d # <<>> /\ old \in Seq(Frames(n))
      /\ Len(old) \in Nat
  <2>1. d \in Seq(Units(n)) /\ old \in Seq(Frames(n)) /\ FrameSize \in Nat /\ FrameSize >= 1
    BY FramesAssumption DEF SyncOk
  <2> HIDE DEF d, old
  <2> QED
    BY <2>1 DEF d
<1>2. /\ y.count \in 0..4 /\ y.sync \in BOOLEAN /\ (y.sync <=> y.count # 0)
      /\ Linked(H, d) /\ Joined(H, d, w)
      /\ Aligned(H, First(d, w), y.count) /\ FramesAdjacent(H, old, First(d, w))
      /\ Counted(H, p, Upcoming(old, First(d, w))) /\ HeardUpTo(H, got, Upcoming(old, First(d, w)))
  BY DEF Placed, Joined
<1>3. First(d, w) = u
  BY <1>1 DEF First
<1>4. y.count = 0 => u.header # NoHeader
  BY <1>2 DEF FrameBegins
<1>5. z.data = rest /\ z.sync = (y.count # 4) /\ z.count = (y.count + 1) % 5 /\ z.frames = new
  BY DEF TakeFrame
<1> HIDE DEF z, d
<1>6. z.count = NextCount(y.count) /\ z.count \in 0..4 /\ z.sync \in BOOLEAN
      /\ (z.sync <=> z.count # 0)
  <2>1. \A c \in 0..4 : (c + 1) % 5 = NextCount(c) /\ NextCount(c) \in 0..4
                         /\ (NextCount(c) # 0 <=> c # 4)
    <3> SUFFICES ASSUME NEW c \in 0..4
                 PROVE  /\ (c + 1) % 5 = NextCount(c) /\ NextCount(c) \in 0..4
                        /\ NextCount(c) # 0 <=> c # 4
      OBVIOUS
    <3>1. c \in {0, 1, 2, 3, 4}
      OBVIOUS
    <3>2. /\ (0 + 1) % 5 = 1 /\ (1 + 1) % 5 = 2 /\ (2 + 1) % 5 = 3
          /\ (3 + 1) % 5 = 4 /\ (4 + 1) % 5 = 0
      OBVIOUS
    <3>3. (c + 1) % 5 = NextCount(c)
      BY <3>1, <3>2 DEF NextCount
    <3> QED
      BY <3>1, <3>3 DEF NextCount
  <2>2. z.count = NextCount(y.count) /\ (NextCount(y.count) # 0 <=> y.count # 4)
        /\ NextCount(y.count) \in 0..4
    BY <1>2, <1>5, <2>1
  <2> QED
    BY <1>5, <2>2
<1>7. /\ rest # <<>> /\ Linked(H, rest) /\ rest[1] = v /\ rest[Len(rest)] = d[Len(d)]
  BY <1>1, <1>2, Suffix
<1>8. cut \in Frames(n) /\ cut[1] = u
  <2>1. \A i \in 1..FrameSize : d[i] \in Units(n)
    BY <1>1, ElementOfSeq
  <2>2. /\ cut \in Seq(Units(n)) /\ Len(cut) = FrameSize
        /\ \A i \in 1..FrameSize : cut[i] = d[1 + i - 1]
    BY <1>1, <2>1, SubSeqProperties
  <2> HIDE DEF cut
  <2> QED
    BY <1>1, <2>2 DEF Frames
<1>9. Adjacent(H, cut, v) /\ Aligned(H, v, NextCount(y.count))
  <2>1. Aligned(H, d[1], y.count) /\ (y.count = 0 => d[1].header # NoHeader)
    BY <1>2, <1>3, <1>4
  <2> QED
    BY <1>1, <1>2, <2>1, FrameCut, AlignedOn
<1> HIDE DEF rest, cut, u, v, old
<1>10. /\ Len(new) = Len(old) + 1 /\ new[Len(old)+1] = cut
       /\ \A i \in 1..Len(old) : new[i] = old[i]
  BY <1>1, <1>8, AppendProperties
<1>11. First(rest, w) = v
  BY <1>7 DEF First
<1>12. FramesAdjacent(H, new, v)
  <2> SUFFICES ASSUME NEW i \in 1..Len(new)
               PROVE Adjacent(H, new[i], IF i < Len(new) THEN new[i+1][1] ELSE v)
    BY DEF FramesAdjacent
  <2> HIDE DEF new
  <2>1. CASE i = Len(old) + 1
    BY <1>1, <1>9, <1>10, <2>1
  <2>2. CASE i = Len(old)
    <3>1. i \in 1..Len(old) /\ i < Len(new) /\ ~(i < Len(old)) /\ i + 1 = Len(old) + 1
      BY <1>1, <1>10, <2>2
    <3>2. Adjacent(H, old[i], u)
      BY <1>2, <1>3, <3>1 DEF FramesAdjacent
    <3> QED
      BY <1>8, <1>10, <3>1, <3>2
  <2>3. CASE i # Len(old) + 1 /\ i # Len(old)
    <3>1. i \in 1..Len(old) /\ i < Len(new) /\ i < Len(old) /\ i + 1 \in 1..Len(old)
      BY <1>1, <1>10, <2>3
    <3>2. Adjacent(H, old[i], old[i+1][1])
      BY <1>2, <3>1 DEF FramesAdjacent
    <3> QED
      BY <1>10, <3>1, <3>2
  <2> QED
    BY <2>1, <2>2, <2>3
<1>13. Upcoming(new, v) = Upcoming(old, u)
  <2>1. new # <<>>
    BY <1>1, <1>8, AppendProperties
  <2>2. CASE old = <<>>
    <3>1. Len(old) = 0
      BY <2>2
    <3>2. new[1] = cut
      BY <1>10, <3>1
    <3> HIDE DEF new
    <3> QED
      BY <1>8, <2>1, <2>2, <3>2 DEF Upcoming
  <2>3. CASE old # <<>>
    <3>1. 1 \in 1..Len(old)
      BY <1>1, <2>3
    <3>2. new[1] = old[1]
      BY <1>10, <3>1
    <3> HIDE DEF new
    <3> QED
      BY <2>1, <2>3, <3>2 DEF Upcoming
  <2> QED
    BY <2>2, <2>3
<1> HIDE DEF new
<1>14. Joined(H, rest, w)
  BY <1>1, <1>2, <1>7 DEF Joined
<1>15. Counted(H, p, Upcoming(new, v)) /\ HeardUpTo(H, got, Upcoming(new, v))
  BY <1>2, <1>3, <1>13
<1> QED
  BY <1>5, <1>6, <1>7, <1>9, <1>11, <1>12, <1>14, <1>15 DEF Placed, z

(* A superframe's beginning is not passed over when the one before it came   *)
(* undisturbed.                                                            *)
LEMMA PassedOver ==
  ASSUME NEW H, NEW y, Aligned(H, y.data[1], 0), Whole(H, y.data[1]), ~FrameBegins(y)
  PROVE  ~Calm(H, y.data[1].sf)
<1> SUFFICES ASSUME Calm(H, y.data[1].sf) PROVE FALSE
  OBVIOUS
<1> DEFINE u == y.data[1]
<1>1. u.at = 1
  BY Offsets DEF Calm, Aligned
<1>2. u = UnitAt(u.sf, u.at)
  BY DEF Calm, Whole
<1>3. u.header = Header /\ u.ok = "ok"
  BY <1>1, <1>2 DEF UnitAt
<1> QED
  BY <1>3, HeaderThere DEF FrameBegins

LEMMA SkipPlaced ==
  ASSUME NEW n, NEW H, NEW y, SyncOk(n, y), NEW w, NEW p, p.count \in 0..4, NEW got,
         Placed(H, y, y.frames, w, p, got), Len(y.data) > FrameSize, ~FrameBegins(y)
  PROVE  Placed(H, [y EXCEPT !.data = Tail(@)], y.frames, w, p, got)
<1> DEFINE d == y.data
           rest == SubSeq(d, 2, Len(d))
           frames == y.frames
           u == d[1]
           v == d[2]
           z == [y EXCEPT !.data = Tail(@)]
<1>1. /\ d \in Seq(Units(n)) /\ Len(d) \in Nat /\ Len(d) > 1
      /\ d # <<>> /\ frames \in Seq(Frames(n)) /\ Len(frames) \in Nat
  <2>1. d \in Seq(Units(n)) /\ frames \in Seq(Frames(n)) /\ FrameSize \in Nat /\ FrameSize >= 1
    BY FramesAssumption DEF SyncOk
  <2> HIDE DEF d, frames
  <2> QED
    BY <2>1 DEF d
<1>2. /\ y.count = 0 /\ y.sync = FALSE
      /\ Linked(H, d) /\ Joined(H, d, w)
      /\ Aligned(H, First(d, w), y.count) /\ FramesAdjacent(H, frames, First(d, w))
      /\ Counted(H, p, Upcoming(frames, First(d, w)))
      /\ HeardUpTo(H, got, Upcoming(frames, First(d, w)))
  BY DEF Placed, Joined, FrameBegins
<1>3. First(d, w) = u
  BY <1>1 DEF First
<1>4. z.data = rest /\ z.sync = FALSE /\ z.count = 0
  <2>1. Tail(d) = rest
    BY <1>1, TailIsSubSeq
  <2>2. y = [data |-> y.data, sync |-> y.sync, count |-> y.count, frames |-> y.frames]
    BY DEF SyncOk
  <2>3. z.data = Tail(d) /\ z.sync = y.sync /\ z.count = y.count
    BY <2>2
  <2> QED
    BY <1>2, <2>1, <2>3
<1> HIDE DEF z
<1>5. rest # <<>> /\ Linked(H, rest) /\ rest[1] = v /\ rest[Len(rest)] = d[Len(d)]
  <2>2. d \in Seq(Units(n)) /\ Linked(H, d) /\ Len(d) > 1
    BY <1>1, <1>2
  <2> HIDE DEF d
  <2> QED
    BY <2>2, TailLinked
<1>6. /\ Located(u) /\ Located(v) /\ Whole(H, u) /\ Follows(H, u, v)
  <2>1. 1 \in 1..Len(d) /\ 2 \in 1..Len(d) /\ 1 \in 1..(Len(d) - 1) /\ 1 + 1 = 2
    BY <1>1
  <2> QED
    BY <1>2, <2>1 DEF Linked
<1>7. ~Calm(H, u.sf)
  <2>1. Aligned(H, y.data[1], 0) /\ Whole(H, y.data[1])
    BY <1>2, <1>3, <1>6
  <2> QED
    BY <2>1, PassedOver
<1>8. /\ Aligned(H, v, 0)
      /\ \A fr : fr[1].sf \in Int /\ Adjacent(H, fr, u) => Adjacent(H, fr, v)
      /\ Counted(H, p, v)
      /\ HeardUpTo(H, got, u) => HeardUpTo(H, got, v)
  BY <1>6, <1>7, Skipped
<1> HIDE DEF rest, u, v, d, frames
<1>9. First(rest, w) = v
  BY <1>5 DEF First
<1>10. FramesAdjacent(H, frames, v)
  <2> SUFFICES ASSUME NEW i \in 1..Len(frames)
               PROVE Adjacent(H, frames[i], IF i < Len(frames) THEN frames[i+1][1] ELSE v)
    BY DEF FramesAdjacent
  <2>1. Adjacent(H, frames[i], IF i < Len(frames) THEN frames[i+1][1] ELSE u)
    BY <1>2, <1>3 DEF FramesAdjacent
  <2>2. frames[i][1].sf \in Int
    <3>1. frames[i] \in Frames(n)
      BY <1>1, ElementOfSeq
    <3> QED
      BY <3>1, FrameStarts
  <2>3. CASE i < Len(frames)
    BY <2>1, <2>3
  <2>4. CASE ~(i < Len(frames))
    BY <1>8, <2>1, <2>2, <2>4
  <2> QED
    BY <2>3, <2>4
<1>11. Counted(H, p, Upcoming(frames, v)) /\ HeardUpTo(H, got, Upcoming(frames, v))
  <2>1. CASE frames = <<>>
    BY <1>2, <1>3, <1>8, <2>1 DEF Upcoming
  <2>2. CASE frames # <<>>
    BY <1>2, <1>3, <2>2 DEF Upcoming
  <2> QED
    BY <2>1, <2>2
<1>12. Joined(H, rest, w)
  BY <1>1, <1>2, <1>5 DEF Joined
<1>13. Placed(H, z, frames, w, p, got)
  <2>1. z.count \in 0..4 /\ z.sync \in BOOLEAN /\ (z.sync <=> z.count # 0)
    <3>1. z.count \in 0..4
      BY <1>4
    <3>2. z.sync \in BOOLEAN /\ (z.sync <=> z.count # 0)
      BY <1>4, Zenon
    <3> QED
      BY <3>1, <3>2
  <2>2. /\ z.data = <<>> => z.count = 0
        /\ Joined(H, z.data, w) /\ First(z.data, w) = v
        /\ Aligned(H, First(z.data, w), z.count)
    BY <1>4, <1>8, <1>9, <1>12
  <2> QED
    BY <1>10, <1>11, <2>1, <2>2 DEF Placed
<1> QED
  BY <1>13 DEF z, frames

LEMMA TurnPlaced ==
  ASSUME NEW n, NEW H, NEW y, SyncOk(n, y), NEW w, NEW p, p.count \in 0..4, NEW got,
         Placed(H, y, y.frames, w, p, got)
  PROVE  Placed(H, Turn(y), Turn(y).frames, w, p, got)
<1>1. Len(y.data) \in Nat /\ FrameSize \in Nat
  BY FramesAssumption DEF SyncOk
<1>2. CASE Len(y.data) <= FrameSize
  BY <1>2 DEF Turn
<1>3. CASE ~(Len(y.data) <= FrameSize) /\ FrameBegins(y)
  <2>1. Turn(y) = TakeFrame(y) /\ Len(y.data) > FrameSize
    BY <1>1, <1>3 DEF Turn
  <2> QED
    BY <1>3, <2>1, TakePlaced
<1>4. CASE ~(Len(y.data) <= FrameSize) /\ ~FrameBegins(y)
  <2> DEFINE z == [y EXCEPT !.data = Tail(@)]
  <2>1. Turn(y) = z
    BY <1>4 DEF Turn
  <2>2. z.frames = y.frames
    <3>1. y = [data |-> y.data, sync |-> y.sync, count |-> y.count, frames |-> y.frames]
      BY DEF SyncOk
    <3> QED
      BY <3>1
  <2>3. Len(y.data) > FrameSize
    BY <1>1, <1>4
  <2>4. Placed(H, z, y.frames, w, p, got)
    BY <1>4, <2>3, SkipPlaced
  <2> HIDE DEF z
  <2> QED
    BY <2>1, <2>2, <2>4
<1> QED
  BY <1>2, <1>3, <1>4

(* The whole loop.                                                         *)
LEMMA SynchronizePlaced ==
  ASSUME NEW n, NEW H, NEW y, SyncOk(n, y), NEW units \in Seq(Units(n)), NEW w, NEW p,
         p.count \in 0..4, NEW got, NEW s, s.data = y.data \o units, s.sync = y.sync,
         s.count = y.count, Placed(H, s, <<>>, w, p, got)
  PROVE  Placed(H, SynchronizeData(y, units), SynchronizeData(y, units).frames, w, p, got)
<1> DEFINE start == Started(y, units)
           size == Len(start.data)
           f == CHOOSE f : Turns(f, start, size)
<1>1. SyncOk(n, start)
  BY SynchronizeStarts
<1>2. SynchronizeData(y, units) = f[size]
  BY DEF SynchronizeData, Turns, Started
<1>3. Placed(H, start, start.frames, w, p, got)
  <2>1. /\ start.data = y.data \o units /\ start.sync = y.sync /\ start.count = y.count
        /\ start.frames = <<>>
    BY SynchronizeStarts
  <2>2. start.data = s.data /\ start.sync = s.sync /\ start.count = s.count
    <3> HIDE DEF start
    <3> QED
      BY <2>1, Zenon
  <2> HIDE DEF start
  <2> QED
    BY <2>1, <2>2 DEF Placed
<1> HIDE DEF start
<1>4. size \in Nat
  BY <1>1 DEF SyncOk
<1> HIDE DEF size
<1>5. Turns(f, start, size)
  BY <1>4, TurnsExist
<1> HIDE DEF f
<1> DEFINE T == {k \in 0..size : SyncOk(n, f[k]) /\ Placed(H, f[k], f[k].frames, w, p, got)}
<1>6. \A k \in 0..size : f[k] = IF k = 0 THEN start ELSE Turn(f[k-1])
  BY <1>5 DEF Turns
<1>7. 0 \in T
  BY <1>1, <1>3, <1>4, <1>6
<1>8. ASSUME NEW k \in 1..size, k - 1 \in T PROVE k \in T
  <2>1. f[k] = Turn(f[k-1]) /\ SyncOk(n, f[k-1]) /\ Placed(H, f[k-1], f[k-1].frames, w, p, got)
    BY <1>4, <1>6, <1>8
  <2>2. SyncOk(n, f[k]) /\ Placed(H, f[k], f[k].frames, w, p, got)
    BY <2>1, TurnKeeps, TurnPlaced
  <2> QED
    BY <1>4, <2>2
<1> HIDE DEF T
<1>9. \A k \in 0..size : k \in T
  BY <1>4, <1>7, <1>8, Ascends
<1>10. size \in T
  BY <1>4, <1>9
<1> QED
  BY <1>2, <1>10 DEF T

-----------------------------------------------------------------------------
(* More superframes may be disturbed.                                       *)
LEMMA PlacedGrows ==
  ASSUME NEW H, NEW K, H \subseteq K, NEW y, NEW w, NEW p, NEW got,
         Placed(H, y, <<>>, w, p, got)
  PROVE  Placed(K, y, <<>>, w, p, got)
<1> DEFINE v == First(y.data, w)
<1>1. \A s : Calm(K, s) => Calm(H, s)
  BY DEF Calm
<1>2. Aligned(H, v, y.count) => Aligned(K, v, y.count)
  BY DEF Aligned
<1>3. Counted(H, p, v) => Counted(K, p, v)
  BY <1>1 DEF Counted
<1>4. HeardUpTo(H, got, v) => HeardUpTo(K, got, v)
  BY <1>1 DEF HeardUpTo
<1>5. Joined(H, y.data, w) => Joined(K, y.data, w)
  <2>1. Linked(H, y.data) => Linked(K, y.data)
    BY WholeGrows, FollowsGrows DEF Linked
  <2> QED
    BY <2>1, WholeGrows, FollowsGrows DEF Joined
<1>6. Upcoming(<<>>, v) = v
  BY DEF Upcoming
<1>7. FramesAdjacent(K, <<>>, v)
  BY DEF FramesAdjacent
<1> HIDE DEF v
<1>8. /\ y.count \in 0..4 /\ y.sync \in BOOLEAN /\ (y.sync <=> y.count # 0)
      /\ y.data = <<>> => y.count = 0
      /\ Joined(H, y.data, w)
      /\ Aligned(H, v, y.count)
      /\ Counted(H, p, v)
      /\ HeardUpTo(H, got, v)
  BY <1>6 DEF Placed, v
<1> QED
  BY <1>2, <1>3, <1>4, <1>5, <1>6, <1>7, <1>8 DEF Placed, v

-----------------------------------------------------------------------------
(* What the channel hands over.                                            *)
LEMMA JoinedTwo ==
  ASSUME NEW H, NEW T, NEW s \in Seq(T), NEW t \in Seq(T), NEW w,
         Joined(H, s, First(t, w)), Joined(H, t, w)
  PROVE  /\ Joined(H, s \o t, w) /\ s \o t \in Seq(T)
         /\ First(s \o t, w) = First(s, First(t, w))
<1> DEFINE m == Len(s)
           n == Len(t)
           e == s \o t
<1>1. m \in Nat /\ n \in Nat /\ (s = <<>> <=> m = 0) /\ (t = <<>> <=> n = 0)
  OBVIOUS
<1>2. /\ e \in Seq(T) /\ Len(e) = m + n /\ (e = <<>> <=> m + n = 0)
      /\ \A i \in 1..(m + n) : e[i] = IF i <= m THEN s[i] ELSE t[i-m]
  <2>1. /\ e \in Seq(T) /\ Len(e) = m + n
        /\ \A i \in 1..(m + n) : e[i] = IF i <= m THEN s[i] ELSE t[i-m]
    BY ConcatProperties
  <2> HIDE DEF e
  <2>2. e = <<>> <=> Len(e) = 0
    BY <2>1
  <2> QED
    BY <2>1, <2>2
<1>3. /\ \A i \in 1..m : Located(s[i]) /\ Whole(H, s[i])
      /\ \A i \in 1..(m-1) : Follows(H, s[i], s[i+1])
      /\ s # <<>> => Follows(H, s[m], First(t, w))
      /\ \A i \in 1..n : Located(t[i]) /\ Whole(H, t[i])
      /\ \A i \in 1..(n-1) : Follows(H, t[i], t[i+1])
      /\ Located(w) /\ Whole(H, w) /\ (t # <<>> => Follows(H, t[n], w))
  BY DEF Joined, Linked
<1> HIDE DEF m, n, e
<1>4. ASSUME NEW i \in 1..(m + n) PROVE Located(e[i]) /\ Whole(H, e[i])
  <2>1. CASE i <= m
    <3>1. e[i] = s[i] /\ i \in 1..m
      BY <1>1, <1>2, <2>1
    <3> QED
      BY <1>3, <3>1
  <2>2. CASE ~(i <= m)
    <3>1. e[i] = t[i-m] /\ i - m \in 1..n
      BY <1>1, <1>2, <2>2
    <3> QED
      BY <1>3, <3>1
  <2> QED
    BY <2>1, <2>2
<1>5. ASSUME NEW i \in 1..((m + n) - 1) PROVE Follows(H, e[i], e[i+1])
  <2>1. i \in 1..(m + n) /\ i + 1 \in 1..(m + n)
    BY <1>1
  <2>2. CASE i < m
    <3>1. e[i] = s[i] /\ e[i+1] = s[i+1] /\ i \in 1..(m-1)
      BY <1>1, <1>2, <2>1, <2>2
    <3> QED
      BY <1>3, <3>1
  <2>3. CASE i = m
    <3>1. e[i] = s[m] /\ e[i+1] = t[1] /\ s # <<>> /\ t # <<>>
      <4>1. i <= m /\ ~(i + 1 <= m) /\ (i + 1) - m = 1 /\ m # 0 /\ n # 0
        BY <1>1, <2>1, <2>3
      <4>2. e[i] = s[m] /\ e[i+1] = t[1]
        BY <1>2, <2>1, <2>3, <4>1
      <4> QED
        BY <1>1, <4>1, <4>2
    <3>2. First(t, w) = t[1]
      BY <3>1 DEF First
    <3> QED
      BY <1>3, <3>1, <3>2
  <2>4. CASE ~(i < m) /\ i # m
    <3>1. ~(i <= m) /\ ~(i + 1 <= m) /\ (i + 1) - m = (i - m) + 1 /\ i - m \in 1..(n-1)
      BY <1>1, <2>1, <2>4
    <3>2. e[i] = t[i-m] /\ e[i+1] = t[(i-m)+1]
      BY <1>2, <2>1, <3>1
    <3> QED
      BY <1>3, <3>1, <3>2
  <2> QED
    BY <2>2, <2>3, <2>4
<1>6. e # <<>> => Follows(H, e[m+n], w)
  <2> SUFFICES ASSUME e # <<>> PROVE Follows(H, e[m+n], w)
    OBVIOUS
  <2>1. m + n \in 1..(m + n)
    BY <1>1, <1>2
  <2>2. CASE t = <<>>
    <3>1. n = 0 /\ m # 0
      BY <1>1, <1>2, <2>2
    <3>2. m + n = m /\ e[m+n] = s[m] /\ s # <<>>
      BY <1>1, <1>2, <2>1, <3>1
    <3>3. First(t, w) = w
      BY <2>2 DEF First
    <3> QED
      BY <1>3, <3>2, <3>3
  <2>3. CASE t # <<>>
    <3>1. n # 0 /\ ~(m + n <= m) /\ (m + n) - m = n
      BY <1>1, <2>3
    <3>2. e[m+n] = t[n]
      BY <1>2, <2>1, <3>1
    <3> QED
      BY <1>3, <2>3, <3>2
  <2> QED
    BY <2>2, <2>3
<1>7. First(e, w) = First(s, First(t, w))
  <2>1. CASE s = <<>>
    <3>1. m = 0 /\ (e = <<>> <=> t = <<>>)
      BY <1>1, <1>2, <2>1
    <3>2. t # <<>> => e[1] = t[1]
      <4> SUFFICES ASSUME t # <<>> PROVE e[1] = t[1]
        OBVIOUS
      <4>1. 1 \in 1..(m + n) /\ ~(1 <= m) /\ 1 - m = 1
        BY <1>1, <3>1
      <4> QED
        BY <1>2, <4>1
    <3> QED
      BY <2>1, <3>1, <3>2 DEF First
  <2>2. CASE s # <<>>
    <3>1. 1 \in 1..(m + n) /\ 1 <= m /\ e # <<>>
      BY <1>1, <1>2, <2>2
    <3>2. e[1] = s[1]
      BY <1>2, <3>1
    <3> QED
      BY <2>2, <3>1, <3>2 DEF First
  <2> QED
    BY <2>1, <2>2
<1>8. Joined(H, e, w)
  BY <1>2, <1>3, <1>4, <1>5, <1>6 DEF Joined, Linked
<1> QED
  BY <1>2, <1>7, <1>8 DEF e

LEMMA JoinedOther ==
  ASSUME NEW H, NEW T, NEW s \in Seq(T), NEW b, NEW x, Joined(H, s, b), Located(x), Whole(H, x),
         \A u : Located(u) /\ Follows(H, u, b) => Follows(H, u, x)
  PROVE  Joined(H, s, x)
<1>1. s # <<>> => Located(s[Len(s)])
  <2> SUFFICES ASSUME s # <<>> PROVE Located(s[Len(s)])
    OBVIOUS
  <2>1. Len(s) \in 1..Len(s)
    OBVIOUS
  <2> QED
    BY <2>1 DEF Joined, Linked
<1> QED
  BY <1>1 DEF Joined

LEMMA SentLocated ==
  ASSUME NEW n \in Nat, n >= 1, NEW H
  PROVE  Located(Sent(n)) /\ Whole(H, Sent(n)) /\ Follows(H, Sent(n), Sent(n + 1))
<1>1. /\ Sent(n).sf \in Int /\ Sent(n).at \in Int /\ Sent(n).at \in 1..SentPerSuperFrame
      /\ Sent(n) = UnitAt(Sent(n).sf, Sent(n).at)
  <2>1. Sent(n).sf \in Nat /\ Sent(n).at \in 1..SentPerSuperFrame
    BY SentAt
  <2>2. Sent(n) = UnitAt(Sent(n).sf, Sent(n).at)
    BY SentAt
  <2>3. \A i \in 1..SentPerSuperFrame : i \in Int
    BY Offsets
  <2> QED
    BY <2>1, <2>2, <2>3
<1>2. Follows({}, Sent(n), Sent(n + 1))
  BY SentFollows
<1>3. Follows(H, Sent(n), Sent(n + 1))
  BY <1>2, FollowsGrows
<1> QED
  BY <1>1, <1>3 DEF Located, Whole

LEMMA SentJoined ==
  ASSUME NEW H, NEW x \in Nat, NEW n \in Nat, NEW c, c = [k \in 1..n |-> Sent(x + k)]
  PROVE  Joined(H, c, Sent(x + n + 1)) /\ First(c, Sent(x + n + 1)) = Sent(x + 1)
<1>1. Len(c) = n /\ DOMAIN c = 1..n /\ \A k \in 1..n : c[k] = Sent(x + k)
  OBVIOUS
<1>2. ASSUME NEW k \in 0..n
      PROVE  /\ Located(Sent(x + k + 1)) /\ Whole(H, Sent(x + k + 1))
             /\ k # 0 => Follows(H, Sent(x + k), Sent(x + k + 1))
  <2>1. x + k + 1 \in Nat /\ x + k + 1 >= 1 /\ (k # 0 => x + k \in Nat /\ x + k >= 1)
    OBVIOUS
  <2>2. Located(Sent(x + k + 1)) /\ Whole(H, Sent(x + k + 1))
    <3> DEFINE j == x + k + 1
    <3> HIDE DEF j
    <3>1. j \in Nat /\ j >= 1
      BY <2>1 DEF j
    <3>2. Located(Sent(j)) /\ Whole(H, Sent(j))
      BY <3>1, SentLocated
    <3> QED
      BY <3>2 DEF j
  <2>3. k # 0 => Follows(H, Sent(x + k), Sent(x + k + 1))
    <3> DEFINE j == x + k
    <3> HIDE DEF j
    <3>1. k # 0 => j \in Nat /\ j >= 1
      BY <2>1 DEF j
    <3>2. k # 0 => Follows(H, Sent(j), Sent(j + 1))
      BY <3>1, SentLocated
    <3> QED
      BY <3>2 DEF j
  <2> QED
    BY <2>2, <2>3
<1>3. Linked(H, c)
  <2>1. ASSUME NEW i \in 1..n PROVE Located(c[i]) /\ Whole(H, c[i])
    <3>1. i - 1 \in 0..n /\ x + (i - 1) + 1 = x + i
      OBVIOUS
    <3>2. Located(Sent(x + (i - 1) + 1)) /\ Whole(H, Sent(x + (i - 1) + 1))
      BY <1>2, <3>1
    <3> QED
      BY <1>1, <3>1, <3>2
  <2>2. ASSUME NEW i \in 1..(n-1) PROVE Follows(H, c[i], c[i+1])
    <3>1. i \in 0..n /\ i # 0 /\ i \in 1..n /\ i + 1 \in 1..n /\ x + (i + 1) = x + i + 1
      OBVIOUS
    <3>2. Follows(H, Sent(x + i), Sent(x + i + 1))
      BY <1>2, <3>1
    <3>3. c[i] = Sent(x + i) /\ c[i+1] = Sent(x + i + 1)
      BY <1>1, <3>1
    <3> QED
      BY <3>2, <3>3
  <2> QED
    BY <1>1, <2>1, <2>2 DEF Linked
<1>4. Located(Sent(x + n + 1)) /\ Whole(H, Sent(x + n + 1))
  BY <1>2
<1>5. c # <<>> => Follows(H, c[Len(c)], Sent(x + n + 1))
  <2>1. c # <<>> => n # 0
    BY <1>1
  <2>2. n # 0 => c[n] = Sent(x + n)
    BY <1>1
  <2>3. n # 0 => Follows(H, Sent(x + n), Sent(x + n + 1))
    BY <1>2
  <2> QED
    BY <1>1, <2>1, <2>2, <2>3
<1>6. First(c, Sent(x + n + 1)) = Sent(x + 1)
  <2>1. CASE n = 0
    <3>1. c = <<>> /\ x + n + 1 = x + 1
      BY <1>1, <2>1
    <3> QED
      BY <3>1 DEF First
  <2>2. CASE n # 0
    <3>1. c # <<>> /\ c[1] = Sent(x + 1)
      BY <1>1, <2>2
    <3> QED
      BY <3>1 DEF First
  <2> QED
    BY <2>1, <2>2
<1> QED
  BY <1>3, <1>4, <1>5, <1>6 DEF Joined

(* No superframe lies between those of the units sent from one to another.   *)
LEMMA SentCovers ==
  ASSUME NEW x \in Nat, x >= 1, NEW m \in Nat
  PROVE  /\ Sent(x).sf <= Sent(x + m).sf
         /\ \A t \in Sent(x).sf .. Sent(x + m).sf : \E k \in 0..m : t = Sent(x + k).sf
<1> DEFINE So(j) == /\ Sent(x).sf <= Sent(x + j).sf
                    /\ \A t \in Sent(x).sf .. Sent(x + j).sf : \E k \in 0..j : t = Sent(x + k).sf
           T == {j \in 0..m : So(j)}
<1>1. \A j \in 0..m : Sent(x + j).sf \in Int
  <2> SUFFICES ASSUME NEW j \in 0..m PROVE Sent(x + j).sf \in Int
    OBVIOUS
  <2> DEFINE n == x + j
  <2>1. n \in Nat /\ n >= 1
    OBVIOUS
  <2> HIDE DEF n
  <2>2. Sent(n).sf \in Nat
    BY <2>1, SentAt
  <2>3. Sent(n).sf \in Int
    BY <2>2
  <2> QED
    BY <2>3 DEF n
<1>2. So(0)
  <2>1. x + 0 = x /\ Sent(x).sf \in Int
    <3>1. x + 0 = x /\ 0 \in 0..m
      OBVIOUS
    <3> QED
      BY <1>1, <3>1
  <2>2. \A t \in Sent(x).sf .. Sent(x).sf : t = Sent(x).sf
    BY <2>1
  <2>3. 0 \in 0..0 /\ Sent(x).sf <= Sent(x).sf
    BY <2>1
  <2>4. Sent(x).sf <= Sent(x + 0).sf
    BY <2>1, <2>3
  <2>5. \A t \in Sent(x).sf .. Sent(x + 0).sf : t = Sent(x + 0).sf
    BY <2>1, <2>2
  <2> QED
    BY <2>3, <2>4, <2>5
<1>3. ASSUME NEW j \in 1..m, So(j - 1) PROVE So(j)
  <2> DEFINE a == Sent(x).sf
             u == Sent(x + (j - 1)).sf
             v == Sent(x + j).sf
  <2>1. a \in Int /\ u \in Int /\ v \in Int /\ a <= u
        /\ \A t \in a..u : \E k \in 0..(j-1) : t = Sent(x + k).sf
    <3>1. x + 0 = x /\ 0 \in 0..m /\ j - 1 \in 0..m /\ j \in 0..m
      OBVIOUS
    <3>2. Sent(x + 0).sf \in Int /\ Sent(x + (j - 1)).sf \in Int /\ Sent(x + j).sf \in Int
      BY <1>1, <3>1
    <3> QED
      BY <1>3, <3>1, <3>2
  <2>2. u <= v /\ \A t \in Int : ~(u < t /\ t < v)
    <3> DEFINE n == x + (j - 1)
    <3>1. n \in Nat /\ n >= 1 /\ n + 1 = x + j
      OBVIOUS
    <3> HIDE DEF n
    <3>2. Follows({}, Sent(n), Sent(n + 1))
      BY <3>1, SentFollows
    <3>3. Sent(n).sf <= Sent(n+1).sf /\ \A t \in Int : ~(Sent(n).sf < t /\ t < Sent(n+1).sf)
      BY <3>2 DEF Follows
    <3> QED
      BY <3>1, <3>3 DEF n
  <2> HIDE DEF a, u, v
  <2>3. \A t \in a..v : t \in a..u \/ t = v
    BY <2>1, <2>2
  <2>4. \A t \in a..v : \E k \in 0..j : t = Sent(x + k).sf
    <3> SUFFICES ASSUME NEW t \in a..v PROVE \E k \in 0..j : t = Sent(x + k).sf
      OBVIOUS
    <3>1. CASE t \in a..u
      <4>1. PICK k \in 0..(j-1) : t = Sent(x + k).sf
        BY <2>1, <3>1
      <4>2. k \in 0..j
        OBVIOUS
      <4> QED
        BY <4>1, <4>2
    <3>2. CASE t = v
      <4>1. j \in 0..j
        OBVIOUS
      <4> QED
        BY <3>2, <4>1 DEF v
    <3> QED
      BY <2>3, <3>1, <3>2
  <2>5. a <= v
    BY <2>1, <2>2
  <2> QED
    BY <2>4, <2>5 DEF a, v
<1> HIDE DEF So
<1>4. 0 \in T
  BY <1>2
<1>5. \A j \in 1..m : j - 1 \in T => j \in T
  BY <1>3
<1> HIDE DEF T
<1>6. \A j \in 0..m : j \in T
  BY <1>4, <1>5, Ascends
<1>7. So(m)
  BY <1>6 DEF T
<1> QED
  BY <1>7 DEF So

(* Units that replace others.                                              *)
LEMMA DisturbedJoined ==
  ASSUME NEW H, NEW T, NEW s \in Seq(T), NEW r \in H,
         \A i \in 1..Len(s) : Located(s[i]) /\ s[i].sf = r,
         NEW d, Located(d), Whole(H, d), \A x : x.sf = r => Follows(H, x, d)
  PROVE  Joined(H, s, d)
<1>1. Len(s) \in Nat
  OBVIOUS
<1>2. \A i \in 1..Len(s) : Whole(H, s[i])
  BY DEF Whole
<1>3. ASSUME NEW i \in 1..(Len(s) - 1) PROVE Follows(H, s[i], s[i+1])
  <2>1. i \in 1..Len(s) /\ i + 1 \in 1..Len(s)
    BY <1>1
  <2>2. s[i].sf = r /\ s[i+1].sf = r /\ r \in Int
    BY <2>1 DEF Located
  <2> QED
    BY <2>2 DEF Follows
<1>4. s # <<>> => Follows(H, s[Len(s)], d)
  BY <1>1
<1> QED
  BY <1>2, <1>3, <1>4 DEF Joined, Linked

(* What is handed over comes behind what is kept; units may be missing in    *)
(* between when nothing is kept.                                           *)
LEMMA Fed ==
  ASSUME NEW H, NEW y, NEW T, y.data \in Seq(T), NEW v, NEW p, p.count \in 0..4, NEW got,
         Placed(H, y, <<>>, v, p, got), NEW more \in Seq(T), NEW w,
         Joined(H, y.data, First(more, w)), Joined(H, more, w),
         First(more, w) = v \/ (v.sf \in H /\ Located(First(more, w)) /\ Follows(H, v, First(more, w))),
         NEW s, s.data = y.data \o more, s.sync = y.sync, s.count = y.count
  PROVE  Placed(H, s, <<>>, w, p, got)
<1> DEFINE f == First(more, w)
           d == y.data
<1>1. /\ y.count \in 0..4 /\ y.sync \in BOOLEAN /\ (y.sync <=> y.count # 0)
      /\ d = <<>> => y.count = 0
      /\ Aligned(H, First(d, v), y.count)
      /\ Counted(H, p, First(d, v)) /\ HeardUpTo(H, got, First(d, v)) /\ Located(v)
  BY DEF Placed, Upcoming, Joined
<1>2. /\ Joined(H, d \o more, w) /\ d \o more \in Seq(T)
      /\ First(d \o more, w) = First(d, f)
  BY JoinedTwo
<1> HIDE DEF f, d
<1>3. /\ Aligned(H, First(d, f), y.count) /\ Counted(H, p, First(d, f))
      /\ HeardUpTo(H, got, First(d, f))
  <2>1. CASE d # <<>>
    <3>1. First(d, f) = First(d, v)
      BY <2>1 DEF First
    <3> QED
      BY <1>1, <3>1
  <2>2. CASE d = <<>> /\ f = v
    BY <1>1, <2>2
  <2>3. CASE d = <<>> /\ f # v
    <3>1. First(d, f) = f /\ First(d, v) = v /\ y.count = 0
      BY <1>1, <2>3 DEF First
    <3>2. v.sf \in H /\ Located(f) /\ Follows(H, v, f)
      BY <2>3 DEF f
    <3>3. ~Calm(H, v.sf)
      BY <3>2 DEF Calm
    <3>4. Aligned(H, f, 0) /\ Counted(H, p, f) /\ (HeardUpTo(H, got, v) => HeardUpTo(H, got, f))
      BY <1>1, <3>2, <3>3, Skipped
    <3> QED
      BY <1>1, <3>1, <3>4
  <2> QED
    BY <2>1, <2>2, <2>3
<1>4. s.data = d \o more
  BY DEF d
<1>5. s.count \in 0..4 /\ s.sync \in BOOLEAN /\ (s.sync <=> s.count # 0)
  <2>1. s.count \in 0..4
    BY <1>1
  <2>2. s.sync \in BOOLEAN /\ (s.sync <=> s.count # 0)
    BY <1>1, Zenon
  <2> QED
    BY <2>1, <2>2
<1>6. s.data = <<>> => s.count = 0
  <2> SUFFICES ASSUME d \o more = <<>> PROVE y.count = 0
    BY <1>4
  <2>1. d \in Seq(T)
    BY DEF d
  <2>2. Len(d \o more) = Len(d) + Len(more) /\ Len(d) \in Nat /\ Len(more) \in Nat
    BY <2>1, ConcatProperties
  <2>3. Len(d) = 0
    <3>1. Len(d \o more) = 0
      OBVIOUS
    <3> QED
      BY <2>2, <3>1
  <2> QED
    BY <1>1, <2>1, <2>3
<1>7. Joined(H, s.data, w) /\ First(s.data, w) = First(d, f)
  BY <1>2, <1>4
<1>8. Aligned(H, First(s.data, w), s.count)
  BY <1>3, <1>7
<1>9. FramesAdjacent(H, <<>>, First(s.data, w)) /\ Upcoming(<<>>, First(s.data, w)) = First(s.data, w)
  BY DEF FramesAdjacent, Upcoming
<1>10. Counted(H, p, First(s.data, w)) /\ HeardUpTo(H, got, First(s.data, w))
  BY <1>3, <1>7
<1> QED
  BY <1>5, <1>6, <1>7, <1>8, <1>9, <1>10 DEF Placed

-----------------------------------------------------------------------------
RegainInv == ProgrammeInv /\ Placed(hit, sync, queue, Sent(air + 1), super, heard)

LEMMA RegainBegins == Init => RegainInv
<1> SUFFICES ASSUME Init PROVE Placed(hit, sync, queue, Sent(air + 1), super, heard)
  BY ProgrammeBegins DEF RegainInv
<1> DEFINE w == Sent(air + 1)
           b == SentPerSuperFrame
<1>1. /\ air \in 0..(b - 1) /\ hit = (IF air = 0 THEN {} ELSE {1}) /\ b \in Nat
      /\ sync = NoSync /\ queue = <<>> /\ super = NoSuperFrame
  BY Offsets DEF Init, DeliveryInit
<1>2. w = UnitAt(1, air + 1)
  <2>1. 1 \in Nat /\ 1 >= 1 /\ air + 1 \in 1..b /\ b * (1 - 1) + (air + 1) = air + 1
    BY <1>1
  <2>2. \A s \in Nat : s >= 1 => \A at \in 1..b : Sent(b * (s - 1) + at) = UnitAt(s, at)
    BY SentIsAt
  <2>3. Sent(b * (1 - 1) + (air + 1)) = UnitAt(1, air + 1)
    BY <2>1, <2>2
  <2> HIDE DEF b
  <2> QED
    BY <2>1, <2>3
<1>3. w.sf = 1 /\ w.at = air + 1
  BY <1>2 DEF UnitAt
<1>4. Located(w) /\ Whole(hit, w)
  <2>1. air + 1 \in Nat /\ air + 1 >= 1
    BY <1>1
  <2> QED
    BY <2>1, SentLocated
<1>5. w.sf \notin hit => w.at = 1
  BY <1>1, <1>3
<1> HIDE DEF w, b
<1>6. First(<<>>, w) = w /\ Upcoming(<<>>, w) = w /\ FramesAdjacent(hit, <<>>, w)
  BY DEF First, Upcoming, FramesAdjacent
<1>7. NoSync.data = <<>> /\ NoSync.sync = FALSE /\ NoSync.count = 0 /\ NoSuperFrame.count = 0
  BY DEF NoSync, NoSuperFrame
<1>8. Aligned(hit, w, 0)
  BY <1>5, Offsets DEF Aligned
<1>9. Counted(hit, NoSuperFrame, w)
  <2> SUFFICES ASSUME Calm(hit, w.sf)
               PROVE  \E k \in 1..5 :
                        /\ w.at = Offset(k-1) + 1
                        /\ NoSuperFrame.count = 0 \/ NoSuperFrame.count >= k - 1
                        /\ Calm(hit, w.sf - 1) => Collected(NoSuperFrame, w.sf, k)
    BY DEF Counted
  <2>1. w.at = Offset(1-1) + 1
    BY <1>5, Offsets DEF Calm
  <2>2. Collected(NoSuperFrame, w.sf, 1)
    BY <1>7 DEF Collected
  <2>3. 1 \in 1..5
    OBVIOUS
  <2> QED
    BY <1>7, <2>1, <2>2, <2>3
<1>10. HeardUpTo(hit, heard, w)
  BY <1>3 DEF HeardUpTo
<1>11. Joined(hit, <<>>, w)
  BY <1>4 DEF Joined, Linked
<1>12. 0 \in 0..4
  OBVIOUS
<1>13. Placed(hit, NoSync, <<>>, w, NoSuperFrame, heard)
  BY <1>6, <1>7, <1>8, <1>9, <1>10, <1>11, <1>12 DEF Placed
<1> QED
  BY <1>1, <1>13 DEF w

LEMMA InputPlaced ==
  ASSUME ProgrammeInv, More, NEW units \in Seq(Units(SuperFrames)), Input(units), NEW H, NEW w,
         Placed(H, sync, <<>>, Sent(air + 1), super, heard),
         Joined(H, sync.data, First(units, w)), Joined(H, units, w),
         \/ First(units, w) = Sent(air + 1)
         \/ /\ Sent(air + 1).sf \in H /\ Located(First(units, w))
            /\ Follows(H, Sent(air + 1), First(units, w))
  PROVE  Placed(H, sync', queue', w, super', heard')
<1> DEFINE n == SuperFrames
           y == SynchronizeData(sync, units)
           s == Started(sync, units)
           v == Sent(air + 1)
<1>1. SyncOk(n, sync) /\ SyncOk(n, y) /\ super.count \in 0..4
  BY SynchronizeKeeps DEF ProgrammeInv, SuperOk
<1>2. s.data = sync.data \o units /\ s.sync = sync.sync /\ s.count = sync.count
  BY <1>1, SynchronizeStarts
<1>3. Placed(H, s, <<>>, w, super, heard)
  <2>1. sync.data \in Seq(Units(n))
    BY <1>1 DEF SyncOk
  <2> HIDE DEF s
  <2> QED
    BY <1>1, <1>2, <2>1, Fed
<1>4. Placed(H, y, y.frames, w, super, heard)
  <2> HIDE DEF s
  <2> QED
    BY <1>1, <1>2, <1>3, SynchronizePlaced
<1>5. /\ sync' = [y EXCEPT !.frames = <<>>] /\ queue' = queue \o y.frames /\ queue = <<>>
      /\ super' = super /\ heard' = heard
  BY DEF Input, deliveryVars, More
<1> HIDE DEF y
<1>6. sync'.data = y.data /\ sync'.sync = y.sync /\ sync'.count = y.count
  BY <1>1, <1>5 DEF SyncOk
<1>7. queue' = y.frames
  <2>1. y.frames \in Seq(Frames(n))
    BY <1>1 DEF SyncOk
  <2> QED
    BY <1>5, <2>1, ConcatEmptySeq
<1>8. Placed(H, sync', y.frames, w, super, heard)
  BY <1>4, <1>6 DEF Placed
<1> QED
  BY <1>5, <1>7, <1>8

-----------------------------------------------------------------------------
LEMMA ChunkIs ==
  ASSUME ProgrammeInv, More
  PROVE  /\ air \in Nat /\ Len(NextChunk) \in Nat
         /\ NextChunk = [k \in 1..Len(NextChunk) |-> Sent(air + k)]
<1>1. air \in Nat /\ NextChunk \in Seq(Units(SuperFrames)) /\ Len(NextChunk) \in Nat
  BY ChunkIsUnits DEF ProgrammeInv
<1> DEFINE m == Min({ChunkSize, SuperFrames * SentPerSuperFrame - air})
<1>2. NextChunk = [k \in 1..m |-> Sent(air + k)]
  BY DEF NextChunk
<1> DEFINE c == NextChunk
<1> HIDE DEF m, c
<1>3. DOMAIN c = 1..m /\ DOMAIN c = 1..Len(c)
  <2>1. DOMAIN c = 1..m
    BY <1>2 DEF c
  <2>2. DOMAIN c = 1..Len(c)
    BY <1>1 DEF c
  <2> QED
    BY <2>1, <2>2
<1>4. 1..m = 1..Len(NextChunk)
  BY <1>3 DEF c
<1> QED
  BY <1>1, <1>2, <1>4

LEMMA ReceivePlaced ==
  ASSUME RegainInv, Receive
  PROVE  Placed(hit', sync', queue', Sent(air' + 1), super', heard')
<1> DEFINE c == NextChunk
           m == Len(c)
           w == Sent(air + m + 1)
<1>1. /\ More /\ Input(c) /\ air' = air + m /\ hit' = hit
      /\ ProgrammeInv /\ Placed(hit, sync, queue, Sent(air + 1), super, heard)
  BY DEF Receive, RegainInv
<1>2. /\ air \in Nat /\ m \in Nat /\ c = [k \in 1..m |-> Sent(air + k)]
      /\ c \in Seq(Units(SuperFrames))
  BY <1>1, ChunkIs, ChunkIsUnits DEF ProgrammeInv
<1>3. queue = <<>>
  BY <1>1 DEF More
<1> HIDE DEF c, m
<1>4. Joined(hit, c, w) /\ First(c, w) = Sent(air + 1)
  BY <1>2, SentJoined
<1> HIDE DEF w
<1>5. Joined(hit, sync.data, Sent(air + 1))
  BY <1>1 DEF Placed
<1>6. Placed(hit, sync', queue', w, super', heard')
  BY <1>1, <1>2, <1>3, <1>4, <1>5, InputPlaced
<1> QED
  BY <1>1, <1>6 DEF w

(* A part of a sequence, as a function.                                     *)
LEMMA Part ==
  ASSUME NEW T, NEW c \in Seq(T), NEW i \in Nat, NEW j \in Nat, i >= 1, j <= Len(c), i <= j + 1
  PROVE  /\ SubSeq(c, i, j) \in Seq(T)
         /\ SubSeq(c, i, j) = [k \in 1..(j - i + 1) |-> c[i + k - 1]]
<1> DEFINE a == SubSeq(c, i, j)
<1>1. \A k \in i..j : c[k] \in T
  BY ElementOfSeq
<1>2. /\ a \in Seq(T) /\ Len(a) = IF i <= j THEN j - i + 1 ELSE 0
      /\ \A k \in 1..(j - i + 1) : a[k] = c[i + k - 1]
  BY <1>1, SubSeqProperties
<1> HIDE DEF a
<1>3. Len(a) = j - i + 1
  BY <1>2
<1>4. DOMAIN a = 1..(j - i + 1) /\ a = [k \in DOMAIN a |-> a[k]]
  BY <1>2, <1>3
<1>5. a = [k \in 1..(j - i + 1) |-> c[i + k - 1]]
  BY <1>2, <1>4
<1> QED
  BY <1>2, <1>5 DEF a

LEMMA JoinedThree ==
  ASSUME NEW H, NEW T, NEW a \in Seq(T), NEW b \in Seq(T), NEW e \in Seq(T), NEW d, NEW w,
         NEW f, First(b, d) = f, First(e, w) = d, Joined(H, a, f), Joined(H, b, d), Joined(H, e, w)
  PROVE  LET more == a \o b \o e
         IN  Joined(H, more, w) /\ more \in Seq(T) /\ First(more, w) = First(a, f)
<1>1. Joined(H, a \o b, d) /\ a \o b \in Seq(T) /\ First(a \o b, d) = First(a, f)
  BY JoinedTwo
<1> DEFINE g == a \o b
<1> HIDE DEF g
<1>2. Joined(H, g, First(e, w)) /\ g \in Seq(T)
  BY <1>1 DEF g
<1>3. Joined(H, g \o e, w) /\ g \o e \in Seq(T) /\ First(g \o e, w) = First(g, First(e, w))
  BY <1>2, JoinedTwo
<1> QED
  BY <1>1, <1>3 DEF g

(* Units of the chunk are replaced: what comes in their place joins what is   *)
(* before and what is behind.                                              *)
Replacement(H, x, m, at, upTo, c, T, units, s) ==
  /\ x \in Nat /\ m \in Nat /\ at \in Nat /\ upTo \in Nat
  /\ 1 <= at /\ at <= upTo /\ upTo <= m /\ \A k \in at..upTo : Sent(x + k).sf \in H
  /\ c \in Seq(T) /\ Len(c) = m /\ \A k \in 1..m : c[k] = Sent(x + k)
  /\ units \in Seq(T)
  /\ \A i \in 1..Len(units) : Located(units[i]) /\ units[i].sf = Sent(x + at).sf
  /\ s \in Seq(T) /\ Joined(H, s, Sent(x + 1))

Fits(H, T, s, v, more, w) ==
  /\ more \in Seq(T) /\ Joined(H, more, w) /\ Joined(H, s, First(more, w))
  /\ \/ First(more, w) = v
     \/ v.sf \in H /\ Located(First(more, w)) /\ Follows(H, v, First(more, w))

LEMMA Replacing ==
  ASSUME NEW H, NEW x, NEW m, NEW at, NEW upTo, NEW c, NEW T, NEW units, NEW s,
         Replacement(H, x, m, at, upTo, c, T, units, s)
  PROVE  Fits(H, T, s, Sent(x + 1), SubSeq(c, 1, at - 1) \o units \o SubSeq(c, upTo + 1, m),
              Sent(x + m + 1))
<1>0. /\ x \in Nat /\ m \in Nat /\ at \in Nat /\ upTo \in Nat
      /\ 1 <= at /\ at <= upTo /\ upTo <= m /\ \A k \in at..upTo : Sent(x + k).sf \in H
      /\ c \in Seq(T) /\ Len(c) = m /\ \A k \in 1..m : c[k] = Sent(x + k)
      /\ units \in Seq(T)
      /\ \A i \in 1..Len(units) : Located(units[i]) /\ units[i].sf = Sent(x + at).sf
      /\ s \in Seq(T) /\ Joined(H, s, Sent(x + 1))
  BY DEF Replacement
<1> USE <1>0
<1> DEFINE a == SubSeq(c, 1, at - 1)
           e == SubSeq(c, upTo + 1, m)
           b == Sent(x + at)
           d == Sent(x + upTo + 1)
           w == Sent(x + m + 1)
<1>1. Len(c) = m /\ \A k \in 1..m : c[k] = Sent(x + k) /\ c[k] \in T
  BY ElementOfSeq
<1>2. /\ a \in Seq(T) /\ a = [k \in 1..(at-1) |-> Sent(x + k)]
  <2> DEFINE j == at - 1
             i == 1
  <2>1. i \in Nat /\ j \in Nat /\ i >= 1 /\ j <= Len(c) /\ i <= j + 1
    BY <1>1
  <2> HIDE DEF i, j
  <2>2. SubSeq(c, i, j) \in Seq(T) /\ SubSeq(c, i, j) = [k \in 1..(j - i + 1) |-> c[i + k - 1]]
    BY <2>1, Part
  <2>3. j - i + 1 = at - 1 /\ \A k \in 1..(at - 1) : i + k - 1 = k /\ k \in 1..m
    BY DEF i, j
  <2>4. \A k \in 1..(at - 1) : c[i + k - 1] = Sent(x + k)
    BY <1>1, <2>3
  <2>5. SubSeq(c, i, j) = [k \in 1..(at - 1) |-> Sent(x + k)]
    BY <2>2, <2>3, <2>4
  <2> QED
    BY <2>2, <2>5 DEF i, j
<1>3. /\ e \in Seq(T) /\ e = [k \in 1..(m - upTo) |-> Sent((x + upTo) + k)]
  <2> DEFINE i == upTo + 1
  <2>1. i \in Nat /\ m \in Nat /\ i >= 1 /\ m <= Len(c) /\ i <= m + 1 /\ c \in Seq(T)
    BY <1>1
  <2> HIDE DEF i
  <2>2. SubSeq(c, i, m) \in Seq(T) /\ SubSeq(c, i, m) = [k \in 1..(m - i + 1) |-> c[i + k - 1]]
    BY ONLY <2>1, Part
  <2>3. ASSUME NEW k \in 1..(m - upTo)
        PROVE  i + k - 1 = upTo + k /\ upTo + k \in 1..m /\ x + (upTo + k) = (x + upTo) + k
    BY DEF i
  <2>4. \A k \in 1..(m - upTo) : c[i + k - 1] = Sent((x + upTo) + k)
    BY <1>1, <2>3
  <2>5. m - i + 1 = m - upTo
    BY DEF i
  <2>6. SubSeq(c, i, m) = [k \in 1..(m - upTo) |-> Sent((x + upTo) + k)]
    BY <2>2, <2>4, <2>5
  <2> QED
    BY <2>2, <2>6 DEF i
<1> HIDE DEF a, e
<1>4. Joined(H, a, b) /\ First(a, b) = Sent(x + 1)
  <2> DEFINE j == at - 1
  <2>1. j \in Nat /\ x + j + 1 = x + at
    OBVIOUS
  <2>2. a = [k \in 1..j |-> Sent(x + k)]
    BY <1>2
  <2> HIDE DEF j, b
  <2>3. Joined(H, a, Sent(x + j + 1)) /\ First(a, Sent(x + j + 1)) = Sent(x + 1)
    BY <2>1, <2>2, SentJoined
  <2> QED
    BY <2>1, <2>3 DEF b
<1>5. Joined(H, e, w) /\ First(e, w) = d
  <2> DEFINE j == m - upTo
             y == x + upTo
  <2>1. j \in Nat /\ y \in Nat /\ y + j + 1 = x + m + 1
    OBVIOUS
  <2>2. e = [k \in 1..j |-> Sent(y + k)]
    BY <1>3
  <2>3. d = Sent(y + 1)
    OBVIOUS
  <2> HIDE DEF j, y, w, d
  <2>4. Joined(H, e, Sent(y + j + 1)) /\ First(e, Sent(y + j + 1)) = Sent(y + 1)
    BY <2>1, <2>2, SentJoined
  <2> QED
    BY <2>1, <2>3, <2>4 DEF w
<1>6. /\ Located(b) /\ Located(d) /\ Whole(H, d) /\ b.sf \in H
      /\ \A u : Located(u) /\ Follows(H, u, b) =>
           /\ Follows(H, u, d)
           /\ \A z : z.sf = b.sf => Follows(H, u, z) /\ Follows(H, z, d)
  <2> DEFINE n == x + at
             l == x + upTo
             g == Sent(l)
             k == upTo - at
  <2>1. /\ n \in Nat /\ n >= 1 /\ l \in Nat /\ l >= 1 /\ k \in Nat /\ l = n + k
        /\ l + 1 \in Nat /\ l + 1 >= 1 /\ at \in at..upTo
    OBVIOUS
  <2>2. b = Sent(n) /\ d = Sent(l + 1)
    OBVIOUS
  <2>3. \A t \in 0..k : Sent(n + t).sf \in H
    <3> SUFFICES ASSUME NEW t \in 0..k PROVE Sent(n + t).sf \in H
      OBVIOUS
    <3>1. at + t \in at..upTo /\ n + t = x + (at + t)
      OBVIOUS
    <3>2. Sent(x + (at + t)).sf \in H
      BY <3>1
    <3> QED
      BY <3>1, <3>2
  <2> HIDE DEF n, l, g, k, b, d
  <2>4. Located(b) /\ Located(g) /\ Follows(H, g, d) /\ Located(d) /\ Whole(H, d)
    BY <2>1, <2>2, SentLocated DEF g
  <2>5. b.sf <= g.sf /\ \A t \in b.sf..g.sf : \E i \in 0..k : t = Sent(n + i).sf
    BY <2>1, <2>2, SentCovers DEF g
  <2>6. \A t \in b.sf..g.sf : t \in H
    BY <2>3, <2>5
  <2>7. b.sf \in H
    BY <2>1, <2>2 DEF n
  <2>8. \A u : Located(u) /\ Follows(H, u, b) =>
          /\ Follows(H, u, d)
          /\ \A z : z.sf = b.sf => Follows(H, u, z) /\ Follows(H, z, z) /\ Follows(H, z, d)
    BY <2>4, <2>5, <2>6, FollowsBeyond
  <2> QED
    BY <2>4, <2>7, <2>8
<1> DEFINE f == First(units, d)
           more == (a \o units) \o e
<1>7. Joined(H, units, d) /\ Located(f) /\ Whole(H, f)
  <2>1. \A z : z.sf = b.sf => Follows(H, z, d)
    <3>1. Located(b) /\ b.sf \in Int
      BY <1>6 DEF Located
    <3>2. Follows(H, b, b)
      BY <1>6, <3>1 DEF Follows
    <3> QED
      BY <1>6, <3>1, <3>2
  <2> HIDE DEF b, d
  <2> DEFINE r == b.sf
  <2>2. r \in H /\ \A i \in 1..Len(units) : Located(units[i]) /\ units[i].sf = r
    BY <1>6 DEF b
  <2>3. \A z : z.sf = r => Follows(H, z, d)
    BY <2>1
  <2> HIDE DEF r
  <2>4. Joined(H, units, d)
    BY <1>6, <2>2, <2>3, DisturbedJoined
  <2>5. CASE units = <<>>
    BY <1>6, <2>4, <2>5 DEF First
  <2>6. CASE units # <<>>
    <3>1. 1 \in 1..Len(units)
      BY <2>6
    <3>2. f = units[1]
      BY <2>6 DEF First
    <3> QED
      BY <2>4, <3>1, <3>2 DEF Joined, Linked
  <2> QED
    BY <2>5, <2>6
<1>8. \A u : Located(u) /\ Follows(H, u, b) => Follows(H, u, f)
  <2>1. CASE units = <<>>
    BY <1>6, <2>1 DEF First
  <2>2. CASE units # <<>>
    <3>1. 1 \in 1..Len(units)
      BY <2>2
    <3>2. f = units[1] /\ f.sf = b.sf
      BY <2>2, <3>1 DEF First
    <3> QED
      BY <1>6, <3>2
  <2> QED
    BY <2>1, <2>2
<1> HIDE DEF b, d, w, f, more
<1>9. Joined(H, a, f)
  BY <1>2, <1>4, <1>7, <1>8, JoinedOther
<1>10. First(units, d) = f /\ units \in Seq(T)
  BY DEF f
<1>11. Joined(H, more, w) /\ more \in Seq(T) /\ First(more, w) = First(a, f)
  <2>1. /\ a \in Seq(T) /\ units \in Seq(T) /\ e \in Seq(T) /\ First(units, d) = f
        /\ First(e, w) = d /\ Joined(H, a, f) /\ Joined(H, units, d) /\ Joined(H, e, w)
    BY <1>2, <1>3, <1>5, <1>7, <1>9, <1>10
  <2>2. \A p \in Seq(T), q \in Seq(T), r \in Seq(T) :
          First(q, d) = f /\ First(r, w) = d /\ Joined(H, p, f) /\ Joined(H, q, d) /\ Joined(H, r, w) =>
            Joined(H, p \o q \o r, w) /\ p \o q \o r \in Seq(T) /\ First(p \o q \o r, w) = First(p, f)
    BY JoinedThree
  <2>3. Joined(H, a \o units \o e, w) /\ a \o units \o e \in Seq(T) /\ First(a \o units \o e, w) = First(a, f)
    BY ONLY <2>1, <2>2
  <2> QED
    BY <2>3 DEF more
<1>12. /\ Joined(H, s, First(more, w))
       /\ \/ First(more, w) = Sent(x + 1)
          \/ /\ Sent(x + 1).sf \in H /\ Located(First(more, w))
             /\ Follows(H, Sent(x + 1), First(more, w))
  <2>1. CASE a # <<>>
    <3>1. First(more, w) = Sent(x + 1)
      BY <1>4, <1>11, <2>1 DEF First
    <3> QED
      BY <3>1
  <2>2. CASE a = <<>>
    <3>1. First(more, w) = f /\ Sent(x + 1) = b
      BY <1>4, <1>11, <2>2 DEF First
    <3>2. Joined(H, s, f)
      BY <1>7, <1>8, <3>1, JoinedOther
    <3>3. Follows(H, b, f)
      <4>1. Located(b) /\ b.sf \in Int
        BY <1>6 DEF Located
      <4>2. Follows(H, b, b)
        BY <1>6, <4>1 DEF Follows
      <4> QED
        BY <1>8, <4>1, <4>2
    <3> QED
      BY <1>6, <1>7, <3>1, <3>2, <3>3
  <2> QED
    BY <2>1, <2>2
<1> QED
  BY <1>11, <1>12 DEF Fits, more, w, a, e

LEMMA FaultyPlaced ==
  ASSUME RegainInv, NEW at \in FaultAt, NEW upTo \in Int, at <= upTo, NEW units,
         Faulty(at, upTo, units),
         upTo <= Len(NextChunk) => /\ units \in Seq(Units(SuperFrames))
                                   /\ \A i \in 1..Len(units) : units[i].sf = NextChunk[at].sf
  PROVE  Placed(hit', sync', queue', Sent(air' + 1), super', heard')
<1> DEFINE U == Units(SuperFrames)
           S == U
           s == sync.data
           H == hit'
           c == NextChunk
           m == Len(c)
           more == SubSeq(c, 1, at - 1) \o units \o SubSeq(c, upTo + 1, m)
           w == Sent(air + m + 1)
<1>1. /\ More /\ upTo <= m /\ Input(more) /\ air' = air + m
      /\ H = hit \union {c[k].sf : k \in at..upTo}
      /\ ProgrammeInv /\ Placed(hit, sync, queue, Sent(air + 1), super, heard)
  BY DEF Faulty, RegainInv
<1>2. /\ air \in Nat /\ m \in Nat /\ c \in Seq(U) /\ Len(c) = m
      /\ \A k \in 1..m : c[k] = Sent(air + k)
  <2>1. /\ air \in Nat /\ m \in Nat /\ c = [k \in 1..m |-> Sent(air + k)] /\ c \in Seq(U)
    BY <1>1, ChunkIs, ChunkIsUnits DEF ProgrammeInv
  <2>2. Len(c) = m
    OBVIOUS
  <2> HIDE DEF c, m, U
  <2> QED
    BY <2>1, <2>2
<1>3. at \in Nat /\ 1 <= at /\ upTo \in Nat
  <2>1. at \in Nat /\ 1 <= at
    BY ChannelAssumption
  <2> QED
    BY <2>1
<1>4. units \in Seq(U) /\ \A i \in 1..Len(units) : units[i].sf = c[at].sf
  BY <1>1
<1>5. s \in Seq(U) /\ queue = <<>>
  BY <1>1 DEF ProgrammeInv, SyncOk, More
<1>6. \A i \in 1..Len(units) : Located(units[i])
  <2>1. SuperFrames \in Nat
    BY <1>1, SuperFramesFit DEF ProgrammeInv
  <2>2. \A i \in 1..Len(units) : units[i] \in U
    BY <1>4, ElementOfSeq
  <2> QED
    BY <2>1, <2>2, UnitsLocated
<1> HIDE DEF U, S, s, H, c, m
<1>7. \A k \in at..upTo : Sent(air + k).sf \in H
  <2> SUFFICES ASSUME NEW k \in at..upTo PROVE Sent(air + k).sf \in H
    OBVIOUS
  <2>1. k \in 1..m
    BY <1>1, <1>2, <1>3
  <2> QED
    BY <1>1, <1>2, <2>1
<1>8. \A i \in 1..Len(units) : Located(units[i]) /\ units[i].sf = Sent(air + at).sf
  <2>1. at \in 1..m
    BY <1>1, <1>2, <1>3
  <2> QED
    BY <1>2, <1>4, <1>6, <2>1
<1>9. Placed(H, sync, <<>>, Sent(air + 1), super, heard)
  <2>1. hit \subseteq H
    BY <1>1
  <2> QED
    BY <1>1, <1>5, <2>1, PlacedGrows
<1>10. Joined(H, s, Sent(air + 1))
  BY <1>9 DEF Placed, s
<1>11. Fits(H, U, s, Sent(air + 1), more, w)
  <2>1. Replacement(H, air, m, at, upTo, c, U, units, s)
    BY <1>1, <1>2, <1>3, <1>4, <1>5, <1>7, <1>8, <1>10 DEF Replacement
  <2> QED
    BY <2>1, Replacing
<1> HIDE DEF more, w
<1>12. Placed(H, sync', queue', w, super', heard')
  BY <1>1, <1>9, <1>11, InputPlaced DEF Fits, U, s
<1> QED
  BY <1>1, <1>12 DEF H, w

LEMMA LosePlaced ==
  ASSUME RegainInv, Lose PROVE Placed(hit', sync', queue', Sent(air' + 1), super', heard')
<1>1. PICK at \in FaultAt, upTo \in {1, ChunkSize} : at <= upTo /\ Faulty(at, upTo, <<>>)
  BY DEF Lose
<1>2. upTo \in Int
  BY ChannelAssumption
<1> DEFINE units == <<>>
           r == NextChunk[at].sf
<1>3. units \in Seq(Units(SuperFrames)) /\ Len(units) = 0
  OBVIOUS
<1> HIDE DEF units, r
<1>4. \A i \in 1..Len(units) : units[i].sf = r
  BY <1>3
<1>5. Faulty(at, upTo, units)
  BY <1>1 DEF units
<1> QED
  BY <1>1, <1>2, <1>3, <1>4, <1>5, FaultyPlaced DEF r

(* One unit that comes in the place of another.                              *)
LEMMA OnePlaced ==
  ASSUME RegainInv, NEW at \in FaultAt, NEW u, Faulty(at, at, <<u>>),
         at <= Len(NextChunk) => u \in Units(SuperFrames) /\ u.sf = NextChunk[at].sf
  PROVE  Placed(hit', sync', queue', Sent(air' + 1), super', heard')
<1> DEFINE units == <<u>>
           r == NextChunk[at].sf
           T == Units(SuperFrames)
<1>1. at \in Int /\ at <= at
  BY ChannelAssumption
<1> HIDE DEF r, T
<1>2. at <= Len(NextChunk) => u \in T /\ u.sf = r
  BY DEF r, T
<1>3. Len(units) = 1 /\ units[1] = u /\ (u \in T => units \in Seq(T))
  OBVIOUS
<1>4. Faulty(at, at, units)
  OBVIOUS
<1> HIDE DEF units
<1>5. at <= Len(NextChunk) => units \in Seq(T) /\ \A i \in 1..Len(units) : units[i].sf = r
  <2> SUFFICES ASSUME u \in T, u.sf = r
               PROVE  units \in Seq(T) /\ \A i \in 1..Len(units) : units[i].sf = r
    BY <1>2
  <2>1. \A i \in 1..Len(units) : i = 1
    BY <1>3
  <2> QED
    BY <1>3, <2>1
<1> QED
  BY <1>1, <1>4, <1>5, FaultyPlaced DEF r, T

LEMMA DamagePlaced ==
  ASSUME RegainInv, Damage PROVE Placed(hit', sync', queue', Sent(air' + 1), super', heard')
<1>1. PICK at \in FaultAt :
        Faulty(at, at, <<[NextChunk[at] EXCEPT !.ok = "bad", !.header = NoHeader]>>)
  BY DEF Damage
<1> DEFINE u == NextChunk[at]
           bad == [u EXCEPT !.ok = "bad", !.header = NoHeader]
<1>2. ProgrammeInv /\ More
  BY <1>1 DEF Faulty, RegainInv
<1>3. ASSUME at <= Len(NextChunk) PROVE bad \in Units(SuperFrames) /\ bad.sf = u.sf
  <2>1. u \in Units(SuperFrames)
    BY <1>2, <1>3, NextUnit
  <2>2. NoHeader \in Headers
    BY DEF Headers
  <2> HIDE DEF u
  <2> QED
    BY <2>1, <2>2 DEF Units
<1>4. Faulty(at, at, <<bad>>)
  BY <1>1
<1> HIDE DEF bad
<1> QED
  BY <1>3, <1>4, OnePlaced

LEMMA ChancePlaced ==
  ASSUME RegainInv, Chance PROVE Placed(hit', sync', queue', Sent(air' + 1), super', heard')
<1>1. PICK at \in FaultAt, h \in FalseHeaders :
        Faulty(at, at, <<[NextChunk[at] EXCEPT !.header = h]>>)
  BY DEF Chance
<1> DEFINE u == NextChunk[at]
           false == [u EXCEPT !.header = h]
<1>2. ProgrammeInv /\ More
  BY <1>1 DEF Faulty, RegainInv
<1>3. ASSUME at <= Len(NextChunk) PROVE false \in Units(SuperFrames) /\ false.sf = u.sf
  <2>1. u \in Units(SuperFrames)
    BY <1>2, <1>3, NextUnit
  <2>2. h \in Headers
    BY DEF Headers
  <2> HIDE DEF u
  <2> QED
    BY <2>1, <2>2 DEF Units
<1>4. Faulty(at, at, <<false>>)
  BY <1>1
<1> HIDE DEF false
<1> QED
  BY <1>3, <1>4, OnePlaced

LEMMA SilencePlaced ==
  ASSUME RegainInv, Silence PROVE Placed(hit', sync', queue', Sent(air' + 1), super', heard')
<1>1. PICK at \in FaultAt :
        Faulty(at, ChunkSize, [k \in 1..(ChunkSize - at + 1) |->
          [NextChunk[at] EXCEPT !.ok = "zero", !.header = ZeroHeader]])
  BY DEF Silence
<1> DEFINE u == NextChunk[at]
           zero == [u EXCEPT !.ok = "zero", !.header = ZeroHeader]
           n == ChunkSize - at + 1
           units == [k \in 1..n |-> zero]
<1>2. /\ at \in Int /\ at <= ChunkSize /\ ChunkSize \in Int /\ n \in Nat
      /\ ProgrammeInv /\ More
  BY <1>1, ChannelAssumption DEF Faulty, RegainInv
<1>3. ASSUME ChunkSize <= Len(NextChunk)
      PROVE  zero \in Units(SuperFrames) /\ zero.sf = u.sf
  <2>1. u \in Units(SuperFrames)
    <3>1. Len(NextChunk) \in Nat
      BY <1>2, ChunkIsUnits DEF ProgrammeInv
    <3>2. at <= Len(NextChunk)
      BY <1>2, <1>3, <3>1
    <3> QED
      BY <1>2, <3>2, NextUnit
  <2>2. ZeroHeader \in Headers
    BY DEF Headers
  <2> HIDE DEF u
  <2> QED
    BY <2>1, <2>2 DEF Units
<1>4. Faulty(at, ChunkSize, units)
  BY <1>1
<1> HIDE DEF zero, n
<1>5. Len(units) = n /\ \A i \in 1..n : units[i] = zero
  BY <1>2
<1>6. zero \in Units(SuperFrames) => units \in Seq(Units(SuperFrames))
  <2> SUFFICES ASSUME zero \in Units(SuperFrames) PROVE units \in Seq(Units(SuperFrames))
    OBVIOUS
  <2>1. units \in [1..n -> Units(SuperFrames)]
    OBVIOUS
  <2> QED
    BY <1>2, <2>1, SeqDef
<1> HIDE DEF units
<1>7. ChunkSize <= Len(NextChunk) =>
        units \in Seq(Units(SuperFrames)) /\ \A i \in 1..Len(units) : units[i].sf = NextChunk[at].sf
  BY <1>3, <1>5, <1>6
<1> QED
  BY <1>2, <1>4, <1>7, FaultyPlaced

(* The thread takes a frame.                                               *)
LEMMA ProcessFramePlaced ==
  ASSUME RegainInv, ProcessFrame
  PROVE  Placed(hit', sync', queue', Sent(air' + 1), super', heard')
<1> DEFINE n == SuperFrames
           w == Sent(air + 1)
           u == First(sync.data, w)
           fr == Head(queue)
           rest == Tail(queue)
           v == Upcoming(rest, u)
           p == super
           P == ProcessData(p, fr)
           got == heard \union Handled(pad, P.aus).heard
<1>1. /\ queue # <<>> /\ queue' = rest /\ super' = P /\ heard' = got
      /\ sync' = sync /\ air' = air /\ hit' = hit
  BY DEF ProcessFrame, Record
<1>2. /\ queue \in Seq(Frames(n)) /\ SuperOk(n, p) /\ Placed(hit, sync, queue, w, p, heard)
  BY DEF RegainInv, ProgrammeInv
<1>3. /\ fr = queue[1] /\ fr \in Frames(n) /\ Len(queue) \in Nat /\ Len(queue) >= 1
      /\ rest \in Seq(Frames(n)) /\ Len(rest) = Len(queue) - 1
      /\ \A i \in 1..Len(rest) : rest[i] = queue[i+1]
  BY <1>1, <1>2, HeadTailProperties
<1>4. /\ FramesAdjacent(hit, queue, u) /\ Upcoming(queue, u) = fr[1]
      /\ Counted(hit, p, fr[1]) /\ HeardUpTo(hit, heard, fr[1])
      /\ Joined(hit, sync.data, w)
  <2>1. Upcoming(queue, u) = fr[1]
    BY <1>1, <1>3 DEF Upcoming
  <2> HIDE DEF fr
  <2> QED
    BY <1>2, <2>1 DEF Placed
<1>5. Located(u)
  <2>1. CASE sync.data = <<>>
    BY <1>4, <2>1 DEF First, Joined
  <2>2. CASE sync.data # <<>>
    <3>1. sync.data \in Seq(Units(n))
      BY DEF RegainInv, ProgrammeInv, SyncOk
    <3>2. 1 \in 1..Len(sync.data)
      BY <2>2, <3>1
    <3> QED
      BY <1>4, <2>2, <3>2 DEF First, Joined, Linked
  <2> QED
    BY <2>1, <2>2
<1> HIDE DEF u, w, fr, rest, P, p
<1>6. fr[1].sf \in Int
  BY <1>3, FrameStarts
<1>7. /\ rest = <<>> <=> Len(queue) = 1
      /\ rest # <<>> => rest[1] = queue[2] /\ rest[1] \in Frames(n)
  <2>1. rest = <<>> <=> Len(rest) = 0
    BY <1>3
  <2>2. Len(rest) # 0 => 1 \in 1..Len(rest) /\ 1 + 1 = 2
    BY <1>3
  <2>3. Len(rest) # 0 => rest[1] = queue[2]
    BY <1>3, <2>2
  <2>4. Len(rest) # 0 => rest[1] \in Frames(n)
    BY <1>3, <2>2, ElementOfSeq
  <2> QED
    BY <1>3, <2>1, <2>3, <2>4
<1>8. Located(v)
  BY <1>5, <1>7, FrameStarts DEF Upcoming
<1>9. Adjacent(hit, fr, v)
  <2>1. 1 \in 1..Len(queue) /\ 1 + 1 = 2 /\ (1 < Len(queue) <=> Len(queue) # 1)
    BY <1>3
  <2>2. Adjacent(hit, queue[1], IF 1 < Len(queue) THEN queue[2][1] ELSE u)
    BY <1>4, <2>1 DEF FramesAdjacent
  <2> QED
    BY <1>3, <1>7, <2>1, <2>2 DEF Upcoming
<1>10. FramesAdjacent(hit, rest, u)
  <2> SUFFICES ASSUME NEW i \in 1..Len(rest)
               PROVE  Adjacent(hit, rest[i], IF i < Len(rest) THEN rest[i+1][1] ELSE u)
    BY DEF FramesAdjacent
  <2>1. i + 1 \in 1..Len(queue) /\ (i + 1 < Len(queue) <=> i < Len(rest))
        /\ (i < Len(rest) => i + 1 \in 1..Len(rest))
    BY <1>3
  <2>2. Adjacent(hit, queue[i+1], IF i + 1 < Len(queue) THEN queue[(i+1)+1][1] ELSE u)
    BY <1>4, <2>1 DEF FramesAdjacent
  <2>3. rest[i] = queue[i+1] /\ (i < Len(rest) => rest[i+1] = queue[(i+1)+1])
    BY <1>3, <2>1
  <2> QED
    BY <2>1, <2>2, <2>3
<1> HIDE DEF v, n
<1>11. Counted(hit, P, v)
  BY <1>2, <1>3, <1>4, <1>6, <1>8, <1>9, CountedOn DEF P
<1>12. HeardUpTo(hit, got, v)
  BY <1>2, <1>3, <1>4, <1>6, <1>8, <1>9, HeardOn DEF P
<1> HIDE DEF got
<1>13. Placed(hit, sync, rest, w, P, got)
  BY <1>2, <1>10, <1>11, <1>12 DEF Placed, u, v
<1> QED
  BY <1>1, <1>13 DEF w

LEMMA RegainStays ==
  ASSUME RegainInv, [Next]_vars
  PROVE  RegainInv'
<1>1. ProgrammeInv'
  BY ProgrammeStays DEF RegainInv
<1>2. CASE Next
  <2>1. Placed(hit', sync', queue', Sent(air' + 1), super', heard')
    BY <1>2, ReceivePlaced, LosePlaced, DamagePlaced, SilencePlaced, ChancePlaced, ProcessFramePlaced
       DEF Next
  <2> QED
    BY <1>1, <2>1 DEF RegainInv
<1>3. CASE UNCHANGED vars
  BY <1>1, <1>3 DEF vars, RegainInv
<1> QED
  BY <1>2, <1>3

LEMMA RegainAlways == Spec => []RegainInv
BY RegainBegins, RegainStays, PTL DEF Spec

(* synchronizeData and processData find their place in the stream again: a   *)
(* superframe that two undisturbed ones precede is decoded and each of its   *)
(* AUs is handed on, whatever was lost, damaged or forged before, and        *)
(* wherever reception began.                                               *)
THEOREM SyncIsRegained == Spec => []SyncRegained
<1>1. RegainInv => SyncRegained
  <2> SUFFICES ASSUME RegainInv, queue = <<>>, sync.data # <<>>,
                      NEW s \in 1 .. (sync.data[1].sf - 1),
                      (s - SuperFrameMargin) .. s \intersect hit = {}
               PROVE  Heard((s - 1) * AUs + 1, s * AUs)
    BY DEF SyncRegained
  <2> DEFINE u == sync.data[1]
  <2>1. HeardUpTo(hit, heard, u)
    <3>1. Upcoming(<<>>, First(sync.data, Sent(air + 1))) = u
      BY DEF Upcoming, First
    <3> QED
      BY <3>1 DEF RegainInv, Placed
  <2>2. u.sf \in Int
    <3>1. sync.data \in Seq(Units(SuperFrames))
      BY DEF RegainInv, ProgrammeInv, SyncOk
    <3>2. 1 \in 1..Len(sync.data)
      BY <3>1
    <3> QED
      BY <3>2 DEF RegainInv, Placed, Joined, Linked, Located
  <2> HIDE DEF u
  <2>3. s \in Int /\ 1 <= s /\ s < u.sf
    BY <2>2 DEF u
  <2>4. \A t \in (s - 2)..s : t \notin hit
    <3>1. \A t \in (s - 2)..s : t \in (s - SuperFrameMargin)..s
      BY <2>3, MarginAssumption
    <3> QED
      BY <3>1
  <2>5. Calm(hit, s) /\ Calm(hit, s - 1)
    <3>1. /\ s \in (s - 2)..s /\ s - 1 \in (s - 2)..s /\ s - 2 \in (s - 2)..s
          /\ (s - 1) - 1 = s - 2
      BY <2>3
    <3>2. s \notin hit /\ s - 1 \notin hit /\ s - 2 \notin hit
      BY <2>4, <3>1
    <3> QED
      BY <3>1, <3>2 DEF Calm
  <2>6. AUsOf(s) \subseteq heard
    BY <2>1, <2>3, <2>5 DEF HeardUpTo
  <2> QED
    BY <2>6 DEF AUsOf, Heard
<1> QED
  BY <1>1, RegainAlways, PTL

-----------------------------------------------------------------------------
(* The order of what arrives.  The place of a unit among all that are sent.  *)
Pos(u) == SentPerSuperFrame * (u.sf - 1) + u.at

(* The places of the units that arrive as they were sent; they rise.         *)
Oks(s) == {Pos(s[i]) : i \in {k \in 1..Len(s) : s[k].ok = "ok"}}

Rising(s) ==
  \A i, j \in 1..Len(s) :
    i < j /\ s[i].ok = "ok" /\ s[j].ok = "ok" => Pos(s[i]) < Pos(s[j])

Under(A, B) == \A a \in A : \A b \in B : a < b

(* All of them are from a up to b, which is not among them.                  *)
Spans(s, a, b) == Rising(s) /\ \A p \in Oks(s) : a <= p /\ p < b

LEMMA PosIsNat ==
  ASSUME NEW n \in Nat, NEW u \in Units(n)
  PROVE  Pos(u) \in Nat
<1>1. u.sf - 1 \in Nat /\ u.at \in Nat
  BY DEF Units
<1>2. SentPerSuperFrame \in Nat
  BY Offsets
<1>3. SentPerSuperFrame * (u.sf - 1) \in Nat
  BY <1>1, <1>2, Product
<1> QED
  BY <1>1, <1>3 DEF Pos

LEMMA OksAreNat ==
  ASSUME NEW n \in Nat, NEW s \in Seq(Units(n))
  PROVE  \A p \in Oks(s) : p \in Nat
<1> SUFFICES ASSUME NEW p \in Oks(s) PROVE p \in Nat
  OBVIOUS
<1>1. PICK i \in 1..Len(s) : p = Pos(s[i])
  BY DEF Oks
<1>2. s[i] \in Units(n)
  BY ElementOfSeq
<1> QED
  BY <1>1, <1>2, PosIsNat

LEMMA PosSent ==
  ASSUME NEW n \in Nat, n >= 1
  PROVE  Pos(Sent(n)) = n /\ Sent(n).ok = "ok"
<1>1. n = SentPerSuperFrame * (Sent(n).sf - 1) + Sent(n).at
  BY SentAt
<1>2. Sent(n).ok = "ok"
  BY DEF Sent
<1> QED
  BY <1>1, <1>2 DEF Pos

LEMMA NoneOk ==
  ASSUME NEW s, NEW a, NEW b, \A i \in 1..Len(s) : s[i].ok # "ok"
  PROVE  Spans(s, a, b) /\ Oks(s) = {}
BY DEF Spans, Oks, Rising

LEMMA NothingRises == Rising(<<>>) /\ Oks(<<>>) = {}
<1>1. Len(<<>>) = 0
  OBVIOUS
<1> QED
  BY <1>1 DEF Rising, Oks

LEMMA Shifted ==
  ASSUME NEW s, NEW t, NEW d \in Nat, Len(s) \in Nat, Len(t) \in Nat, d + Len(t) <= Len(s),
         \A k \in 1..Len(t) : t[k] = s[d+k], Rising(s)
  PROVE  Rising(t) /\ Oks(t) \subseteq Oks(s)
<1>1. \A k \in 1..Len(t) : d + k \in 1..Len(s)
  OBVIOUS
<1>2. Rising(t)
  <2> SUFFICES ASSUME NEW i \in 1..Len(t), NEW j \in 1..Len(t), i < j,
                      t[i].ok = "ok", t[j].ok = "ok"
               PROVE  Pos(t[i]) < Pos(t[j])
    BY DEF Rising
  <2>1. d + i \in 1..Len(s) /\ d + j \in 1..Len(s) /\ d + i < d + j
    BY <1>1
  <2> DEFINE a == d + i
             b == d + j
  <2>2. t[i] = s[a] /\ t[j] = s[b]
    OBVIOUS
  <2> HIDE DEF a, b
  <2>3. a \in 1..Len(s) /\ b \in 1..Len(s) /\ a < b
    BY <2>1 DEF a, b
  <2> QED
    BY ONLY <2>2, <2>3, t[i].ok = "ok", t[j].ok = "ok", Rising(s) DEF Rising
<1>3. Oks(t) \subseteq Oks(s)
  <2> SUFFICES ASSUME NEW i \in 1..Len(t), t[i].ok = "ok" PROVE Pos(t[i]) \in Oks(s)
    BY DEF Oks
  <2>1. t[i] = s[d+i] /\ d + i \in 1..Len(s)
    BY <1>1
  <2> QED
    BY <2>1 DEF Oks
<1> QED
  BY <1>2, <1>3

(* A part of what rises, and what stands behind it.                         *)
LEMMA RisingPart ==
  ASSUME NEW T, NEW s \in Seq(T), Rising(s),
         NEW i \in Nat, NEW j \in Nat, i >= 1, j <= Len(s), i <= j + 1
  PROVE  Rising(SubSeq(s, i, j)) /\ Oks(SubSeq(s, i, j)) \subseteq Oks(s)
<1> DEFINE t == SubSeq(s, i, j)
           d == i - 1
           m == j - i + 1
<1>1. t \in Seq(T) /\ t = [k \in 1..m |-> s[i + k - 1]] /\ m \in Nat /\ d \in Nat
      /\ Len(s) \in Nat
  BY Part
<1>2. DOMAIN t = 1..m /\ DOMAIN t = 1..Len(t) /\ Len(t) \in Nat
  BY <1>1
<1> HIDE DEF t
<1>3. Len(t) = m
  BY <1>1, <1>2
<1>4. \A k \in 1..Len(t) : t[k] = s[d+k]
  <2> SUFFICES ASSUME NEW k \in 1..Len(t) PROVE t[k] = s[d+k]
    OBVIOUS
  <2>1. k \in 1..m /\ i + k - 1 = d + k
    BY <1>1, <1>3
  <2>2. t[k] = s[i + k - 1]
    BY <1>1, <2>1
  <2> QED
    BY <2>1, <2>2
<1>5. d + Len(t) <= Len(s)
  BY <1>1, <1>3
<1> HIDE DEF d, m
<1> QED
  BY <1>1, <1>2, <1>4, <1>5, Shifted DEF t

LEMMA RisingCut ==
  ASSUME NEW T, NEW s \in Seq(T), Rising(s), NEW m \in Nat, m <= Len(s)
  PROVE  Under(Oks(SubSeq(s, 1, m)), Oks(SubSeq(s, m + 1, Len(s))))
<1> DEFINE a == SubSeq(s, 1, m)
           b == SubSeq(s, m + 1, Len(s))
           n == Len(s)
<1>1. n \in Nat
  OBVIOUS
<1>2. a = [k \in 1..m |-> s[k]] /\ a \in Seq(T)
  <2>1. a \in Seq(T) /\ a = [k \in 1..(m - 1 + 1) |-> s[1 + k - 1]]
    BY <1>1, Part
  <2> QED
    BY <2>1
<1>3. b = [k \in 1..(n - m) |-> s[m+k]] /\ b \in Seq(T) /\ n - m \in Nat
  <2>1. b \in Seq(T) /\ b = [k \in 1..(n - (m + 1) + 1) |-> s[(m + 1) + k - 1]]
    BY <1>1, Part
  <2>2. n - (m + 1) + 1 = n - m /\ \A k \in 1..(n - m) : (m + 1) + k - 1 = m + k
    BY <1>1
  <2> QED
    BY <1>1, <2>1, <2>2
<1>4. Len(a) = m /\ Len(b) = n - m
  BY <1>2, <1>3
<1> HIDE DEF a, b
<1> SUFFICES ASSUME NEW i \in 1..m, a[i].ok = "ok", NEW j \in 1..(n - m), b[j].ok = "ok"
             PROVE  Pos(a[i]) < Pos(b[j])
  BY <1>4 DEF Under, Oks, a, b
<1> DEFINE k == m + j
<1>5. i \in 1..n /\ k \in 1..n /\ i < k
  BY <1>1
<1>6. a[i] = s[i] /\ b[j] = s[k]
  BY <1>2, <1>3
<1> HIDE DEF k
<1> QED
  BY <1>5, <1>6 DEF Rising

(* One behind the other.                                                    *)
LEMMA RisingTwo ==
  ASSUME NEW T, NEW s \in Seq(T), NEW t \in Seq(T), Rising(s), Rising(t), Under(Oks(s), Oks(t))
  PROVE  s \o t \in Seq(T) /\ Rising(s \o t) /\ Oks(s \o t) \subseteq Oks(s) \union Oks(t)
<1> DEFINE c == s \o t
           m == Len(s)
           n == Len(t)
<1>1. /\ c \in Seq(T) /\ Len(c) = m + n /\ m \in Nat /\ n \in Nat
      /\ \A i \in 1..(m + n) : c[i] = IF i <= m THEN s[i] ELSE t[i - m]
  BY ConcatProperties
<1> HIDE DEF c
<1>2. \A i \in 1..(m + n) : ~(i <= m) => i - m \in 1..n
  BY <1>1
<1>3. \A i \in 1..(m + n) : i <= m => i \in 1..m
  BY <1>1
<1>4. Oks(c) \subseteq Oks(s) \union Oks(t)
  <2> SUFFICES ASSUME NEW i \in 1..(m + n), c[i].ok = "ok"
               PROVE  Pos(c[i]) \in Oks(s) \union Oks(t)
    BY <1>1 DEF Oks
  <2>1. CASE i <= m
    <3>1. c[i] = s[i] /\ i \in 1..m
      BY <1>1, <1>3, <2>1
    <3> QED
      BY <3>1 DEF Oks
  <2>2. CASE ~(i <= m)
    <3>1. c[i] = t[i - m] /\ i - m \in 1..n
      BY <1>1, <1>2, <2>2
    <3> QED
      BY <3>1 DEF Oks
  <2> QED
    BY <2>1, <2>2
<1>5. Rising(c)
  <2> SUFFICES ASSUME NEW i \in 1..(m + n), NEW j \in 1..(m + n), i < j,
                      c[i].ok = "ok", c[j].ok = "ok"
               PROVE  Pos(c[i]) < Pos(c[j])
    BY <1>1 DEF Rising
  <2>1. CASE j <= m
    <3>1. i <= m
      BY <1>1, <2>1
    <3>2. c[i] = s[i] /\ c[j] = s[j] /\ i \in 1..m /\ j \in 1..m
      BY <1>1, <1>3, <2>1, <3>1
    <3> QED
      BY <3>2 DEF Rising
  <2>2. CASE ~(i <= m)
    <3>1. ~(j <= m)
      BY <1>1, <2>2
    <3> DEFINE x == i - m
               y == j - m
    <3>2. x < y /\ x \in 1..n /\ y \in 1..n
      BY <1>1, <1>2, <2>2, <3>1
    <3>3. c[i] = t[x] /\ c[j] = t[y]
      BY <1>1, <2>2, <3>1
    <3> HIDE DEF x, y
    <3> QED
      BY <3>2, <3>3 DEF Rising
  <2>3. CASE i <= m /\ ~(j <= m)
    <3>1. c[i] = s[i] /\ i \in 1..m /\ c[j] = t[j - m] /\ j - m \in 1..n
      BY <1>1, <1>2, <1>3, <2>3
    <3>2. Pos(c[i]) \in Oks(s) /\ Pos(c[j]) \in Oks(t)
      BY <3>1 DEF Oks
    <3> QED
      BY <3>2 DEF Under
  <2> QED
    BY <2>1, <2>2, <2>3
<1> QED
  BY <1>1, <1>4, <1>5 DEF c

LEMMA SpansTwo ==
  ASSUME NEW n \in Nat, NEW s \in Seq(Units(n)), NEW t \in Seq(Units(n)),
         NEW a \in Int, NEW b \in Int, NEW c \in Int, a <= b, b <= c,
         Spans(s, a, b), Spans(t, b, c)
  PROVE  s \o t \in Seq(Units(n)) /\ Spans(s \o t, a, c)
<1>1. \A p \in Oks(s) : p \in Nat /\ a <= p /\ p < b
  BY OksAreNat DEF Spans
<1>2. \A p \in Oks(t) : p \in Nat /\ b <= p /\ p < c
  BY OksAreNat DEF Spans
<1>3. Under(Oks(s), Oks(t))
  BY <1>1, <1>2 DEF Under
<1>4. s \o t \in Seq(Units(n)) /\ Rising(s \o t) /\ Oks(s \o t) \subseteq Oks(s) \union Oks(t)
  BY <1>3, RisingTwo DEF Spans
<1>5. \A p \in Oks(s) \union Oks(t) : a <= p /\ p < c
  BY <1>1, <1>2
<1> QED
  BY <1>4, <1>5 DEF Spans

(* Units as they are sent.                                                  *)
LEMMA SentSpans ==
  ASSUME NEW x \in Nat, NEW t, Len(t) \in Nat, \A k \in 1..Len(t) : t[k] = Sent(x + k)
  PROVE  Spans(t, x + 1, x + Len(t) + 1)
<1> DEFINE n == Len(t)
<1>1. \A k \in 1..n : Pos(t[k]) = x + k
  <2> SUFFICES ASSUME NEW k \in 1..n PROVE Pos(t[k]) = x + k
    OBVIOUS
  <2>1. x + k \in Nat /\ x + k >= 1
    OBVIOUS
  <2> QED
    BY <2>1, PosSent
<1> HIDE DEF n
<1>2. Rising(t)
  BY <1>1 DEF Rising, n
<1>3. \A p \in Oks(t) : x + 1 <= p /\ p < x + n + 1
  <2> SUFFICES ASSUME NEW k \in 1..n PROVE x + 1 <= Pos(t[k]) /\ Pos(t[k]) < x + n + 1
    BY DEF Oks, n
  <2> QED
    BY <1>1 DEF n
<1> QED
  BY <1>2, <1>3 DEF Spans, n

-----------------------------------------------------------------------------
(* What the thread has kept, what it has still to take and what is not yet   *)
(* cut into frames, one behind the other, and nothing of it outside S.       *)
InOrder(S, kept, frames, data) ==
  /\ Rising(kept) /\ Oks(kept) \subseteq S
  /\ Rising(data) /\ Oks(data) \subseteq S
  /\ Under(Oks(kept), Oks(data))
  /\ \A k \in 1..Len(frames) :
       /\ Rising(frames[k]) /\ Oks(frames[k]) \subseteq S
       /\ Under(Oks(kept), Oks(frames[k])) /\ Under(Oks(frames[k]), Oks(data))
  /\ \A k, m \in 1..Len(frames) : k < m => Under(Oks(frames[k]), Oks(frames[m]))

LEMMA UnderPart ==
  ASSUME NEW A, NEW B, NEW C, NEW D, C \subseteq A, D \subseteq B, Under(A, B)
  PROVE  Under(C, D)
BY DEF Under

LEMMA LessInOrder ==
  ASSUME NEW S, NEW kept, NEW frames, NEW data, InOrder(S, kept, frames, data),
         NEW rest, Rising(rest), Oks(rest) \subseteq Oks(data)
  PROVE  InOrder(S, kept, frames, rest)
BY UnderPart DEF InOrder

LEMMA TurnInOrder ==
  ASSUME NEW n, NEW y, SyncOk(n, y), NEW S, NEW kept, InOrder(S, kept, y.frames, y.data)
  PROVE  InOrder(S, kept, Turn(y).frames, Turn(y).data)
<1> DEFINE T == Units(n)
           d == y.data
           m == Len(d)
<1>1. /\ y = [data |-> d, sync |-> y.sync, count |-> y.count, frames |-> y.frames]
      /\ d \in Seq(T) /\ y.frames \in Seq(Frames(n)) /\ m \in Nat /\ Rising(d)
  BY DEF SyncOk, InOrder
<1>2. FrameSize \in Nat /\ FrameSize >= 1
  BY FramesAssumption
<1> HIDE DEF d, T
<1>3. CASE m <= FrameSize
  BY <1>3 DEF Turn, d
<1>4. CASE ~(m <= FrameSize) /\ FrameBegins(y)
  <2> DEFINE frame == SubSeq(d, 1, FrameSize)
             rest  == SubSeq(d, FrameSize + 1, m)
             frames == Append(y.frames, frame)
             z == Turn(y)
  <2>1. z = [data |-> rest, sync |-> y.count # 4, count |-> (y.count + 1) % 5, frames |-> frames]
    BY <1>4 DEF Turn, TakeFrame, d
  <2>2. Rising(frame) /\ Oks(frame) \subseteq Oks(d)
    <3>1. 1 \in Nat /\ FrameSize <= m /\ 1 <= FrameSize + 1
      BY <1>1, <1>2, <1>4
    <3> QED
      BY <1>1, <1>2, <3>1, RisingPart
  <2>3. Rising(rest) /\ Oks(rest) \subseteq Oks(d)
    <3>1. FrameSize + 1 \in Nat /\ FrameSize + 1 >= 1 /\ m <= m /\ FrameSize + 1 <= m + 1
      BY <1>1, <1>2, <1>4
    <3> QED
      BY <1>1, <3>1, RisingPart
  <2>4. Under(Oks(frame), Oks(rest))
    <3>1. FrameSize <= m
      BY <1>1, <1>2, <1>4
    <3> QED
      BY <1>1, <1>2, <3>1, RisingCut
  <2>5. /\ Len(frames) = Len(y.frames) + 1 /\ Len(y.frames) \in Nat
        /\ \A k \in 1..Len(y.frames) : frames[k] = y.frames[k]
        /\ frames[Len(y.frames) + 1] = frame
    <3> DEFINE all == Frames(n) \union {frame}
    <3> HIDE DEF frame
    <3>1. y.frames \in Seq(all) /\ frame \in all
      BY <1>1
    <3> HIDE DEF all
    <3> QED
      BY <3>1, AppendProperties
  <2> DEFINE q == Len(y.frames)
             old == y.frames
  <2> HIDE DEF frame, rest, frames, z, q, old
  <2>6. z.frames = frames /\ z.data = rest
    BY <2>1
  <2>7. /\ Rising(kept) /\ Oks(kept) \subseteq S /\ Rising(rest) /\ Oks(d) \subseteq S
        /\ Under(Oks(kept), Oks(d))
        /\ \A k \in 1..q : /\ Rising(old[k]) /\ Oks(old[k]) \subseteq S
                           /\ Under(Oks(kept), Oks(old[k])) /\ Under(Oks(old[k]), Oks(d))
        /\ \A k, l \in 1..q : k < l => Under(Oks(old[k]), Oks(old[l]))
    BY <2>3 DEF InOrder, d, q, old
  <2>8. /\ Len(frames) = q + 1 /\ q \in Nat /\ \A k \in 1..q : frames[k] = old[k]
        /\ frames[q+1] = frame
    BY <2>5 DEF q, old
  <2>9. /\ Oks(rest) \subseteq S /\ Under(Oks(kept), Oks(rest))
        /\ Oks(frame) \subseteq S /\ Under(Oks(kept), Oks(frame))
    BY <2>2, <2>3, <2>7, UnderPart
  <2>10. \A k \in 1..(q+1) : k \notin 1..q => k = q + 1
    BY <2>8
  <2>11. ASSUME NEW k \in 1..(q+1)
         PROVE  /\ Rising(frames[k]) /\ Oks(frames[k]) \subseteq S
                /\ Under(Oks(kept), Oks(frames[k])) /\ Under(Oks(frames[k]), Oks(rest))
    <3>1. CASE k \in 1..q
      BY <2>3, <2>7, <2>8, <3>1, UnderPart
    <3>2. CASE k \notin 1..q
      BY <2>2, <2>4, <2>8, <2>9, <2>10, <3>2
    <3> QED
      BY <3>1, <3>2
  <2>12. ASSUME NEW k \in 1..(q+1), NEW l \in 1..(q+1), k < l
         PROVE  Under(Oks(frames[k]), Oks(frames[l]))
    <3>1. k \in 1..q
      BY <2>8, <2>12
    <3>2. CASE l \in 1..q
      BY <2>7, <2>8, <2>12, <3>1, <3>2
    <3>3. CASE l \notin 1..q
      <4>1. frames[l] = frame /\ frames[k] = old[k] /\ Under(Oks(old[k]), Oks(d))
        BY <2>7, <2>8, <2>10, <3>1, <3>3
      <4> QED
        BY <2>2, <4>1, UnderPart
    <3> QED
      BY <3>2, <3>3
  <2>13. InOrder(S, kept, frames, rest)
    BY <2>3, <2>7, <2>8, <2>9, <2>11, <2>12 DEF InOrder
  <2> QED
    BY <2>6, <2>13 DEF z
<1>5. CASE ~(m <= FrameSize) /\ ~FrameBegins(y)
  <2> DEFINE rest == Tail(d)
             z == Turn(y)
  <2>1. z = [y EXCEPT !.data = rest]
    BY <1>5 DEF Turn, d
  <2>2. z.data = rest /\ z.frames = y.frames
    BY <1>1, <2>1
  <2>3. Rising(rest) /\ Oks(rest) \subseteq Oks(d)
    <3>1. d # <<>>
      BY <1>1, <1>2, <1>5
    <3>2. rest \in Seq(T) /\ Len(rest) = m - 1 /\ \A i \in 1..Len(rest) : rest[i] = d[i+1]
      BY <1>1, <3>1, HeadTailProperties
    <3> HIDE DEF rest
    <3>3. 1 + Len(rest) <= m /\ Len(rest) \in Nat /\ \A i \in 1..Len(rest) : rest[i] = d[1+i]
      BY <1>1, <3>2
    <3> QED
      BY <1>1, <3>3, Shifted
  <2> HIDE DEF rest, z
  <2>4. InOrder(S, kept, y.frames, rest)
    BY <2>3, LessInOrder DEF d
  <2> QED
    BY <2>2, <2>4 DEF z
<1> QED
  BY <1>3, <1>4, <1>5

LEMMA SynchronizeInOrder ==
  ASSUME NEW n, NEW y, SyncOk(n, y), NEW units \in Seq(Units(n)), NEW S, NEW kept,
         InOrder(S, kept, <<>>, y.data \o units)
  PROVE  InOrder(S, kept, SynchronizeData(y, units).frames, SynchronizeData(y, units).data)
<1> DEFINE start == Started(y, units)
           size == Len(start.data)
           f == CHOOSE f : Turns(f, start, size)
           T == {k \in 0..size : SyncOk(n, f[k]) /\ InOrder(S, kept, f[k].frames, f[k].data)}
<1>1. SyncOk(n, start) /\ InOrder(S, kept, start.frames, start.data)
  BY SynchronizeStarts
<1>2. SynchronizeData(y, units) = f[size]
  BY DEF SynchronizeData, Turns, Started
<1> HIDE DEF start
<1>3. size \in Nat
  BY <1>1 DEF SyncOk
<1> HIDE DEF size
<1>4. Turns(f, start, size)
  BY <1>3, TurnsExist
<1> HIDE DEF f
<1>5. \A k \in 0..size : f[k] = IF k = 0 THEN start ELSE Turn(f[k-1])
  BY <1>4 DEF Turns
<1>6. 0 \in T
  BY <1>1, <1>3, <1>5
<1>7. ASSUME NEW k \in 1..size, k - 1 \in T PROVE k \in T
  <2> DEFINE z == f[k-1]
  <2>1. f[k] = Turn(z) /\ SyncOk(n, z) /\ InOrder(S, kept, z.frames, z.data) /\ k \in 0..size
    BY <1>3, <1>5, <1>7
  <2> HIDE DEF z
  <2>2. SyncOk(n, Turn(z)) /\ InOrder(S, kept, Turn(z).frames, Turn(z).data)
    BY <2>1, TurnKeeps, TurnInOrder
  <2> QED
    BY <2>1, <2>2
<1> HIDE DEF T
<1>8. \A k \in 0..size : k \in T
  BY <1>3, <1>6, <1>7, Ascends
<1>9. size \in T
  BY <1>3, <1>8
<1> QED
  BY <1>2, <1>9 DEF T

(* What comes from the air is behind all.                                   *)
LEMMA MoreInOrder ==
  ASSUME NEW n \in Nat, NEW data \in Seq(Units(n)), NEW units \in Seq(Units(n)), NEW kept,
         NEW x \in Nat, NEW a \in Nat, NEW b \in Nat, x <= a + 1, a <= b,
         InOrder(x..a, kept, <<>>, data), Spans(units, a + 1, b + 1)
  PROVE  InOrder(x..b, kept, <<>>, data \o units)
<1> DEFINE all == data \o units
<1>1. /\ Rising(kept) /\ Oks(kept) \subseteq x..a /\ Rising(data) /\ Oks(data) \subseteq x..a
      /\ Under(Oks(kept), Oks(data))
  BY DEF InOrder
<1>2. \A p \in Oks(units) : p \in Nat /\ a + 1 <= p /\ p < b + 1
  BY OksAreNat DEF Spans
<1>3. \A p \in Oks(units) : p \in x..b
  BY <1>2
<1>4. \A p \in x..a : p \in x..b /\ \A r \in Oks(units) : p < r
  BY <1>2
<1>5. Under(Oks(data), Oks(units)) /\ Under(Oks(kept), Oks(units))
  BY <1>1, <1>4 DEF Under
<1>6. Rising(all) /\ Oks(all) \subseteq Oks(data) \union Oks(units)
  BY <1>1, <1>5, RisingTwo DEF Spans
<1> HIDE DEF all
<1>7. Oks(kept) \subseteq x..b /\ Oks(all) \subseteq x..b
  BY <1>1, <1>3, <1>4, <1>6
<1>8. Under(Oks(kept), Oks(all))
  BY <1>1, <1>5, <1>6 DEF Under
<1>9. Len(<<>>) = 0
  OBVIOUS
<1>10. InOrder(x..b, kept, <<>>, all)
  BY <1>1, <1>6, <1>7, <1>8, <1>9 DEF InOrder
<1> QED
  BY <1>10 DEF all

-----------------------------------------------------------------------------
(* AU j of superframe f: the place where it begins, and its PAD.             *)
Begin(f, j) == SentPerSuperFrame * (f - 1) + SentEnds[j]
PadOf(f, j) == (f - 1) * AUs + j

(* PADs of AUs that begin at x or later have not been reached.               *)
Behind(got, x) ==
  \A f \in Nat \ {0} : \A j \in 1..AUs :
    x <= Begin(f, j) => \A i \in got : i < PadOf(f, j)

Kept(p) == IF p.sync THEN p.data ELSE <<>>

OrderInv ==
  /\ ProgrammeInv
  /\ \E x \in Nat : /\ x <= air + 1 /\ Behind(heard, x)
                    /\ InOrder(x .. air, Kept(super), queue, sync.data)

LEMMA NoneInOrder ==
  ASSUME NEW S PROVE InOrder(S, <<>>, <<>>, <<>>)
<1>1. Len(<<>>) = 0
  OBVIOUS
<1> QED
  BY <1>1, NothingRises DEF InOrder, Under

LEMMA OrderBegins == Init => OrderInv
<1> SUFFICES ASSUME Init PROVE OrderInv
  OBVIOUS
<1>1. heard = {} /\ super.sync = FALSE /\ queue = <<>> /\ sync.data = <<>>
  BY DEF Init, DeliveryInit, NoSuperFrame, NoSync
<1>2. ProgrammeInv /\ air \in Nat
  BY ProgrammeBegins DEF ProgrammeInv
<1>3. Behind(heard, 0) /\ Kept(super) = <<>>
  BY <1>1 DEF Behind, Kept
<1>4. InOrder(0..air, Kept(super), queue, sync.data)
  BY <1>1, <1>3, NoneInOrder
<1>5. 0 \in Nat /\ 0 <= air + 1
  BY <1>2
<1> QED
  BY <1>2, <1>3, <1>4, <1>5 DEF OrderInv

LEMMA SuperFramesNat == ASSUME ProgrammeInv PROVE SuperFrames \in Nat
BY SuperFramesFit DEF ProgrammeInv

LEMMA InputInOrder ==
  ASSUME OrderInv, ProgrammeInv', queue = <<>>, NEW units \in Seq(Units(SuperFrames)), Input(units),
         air' \in Nat, air <= air', Spans(units, air + 1, air' + 1)
  PROVE  OrderInv'
<1> DEFINE n == SuperFrames
           Y == SynchronizeData(sync, units)
           kept == Kept(super)
<1>1. /\ sync' = [Y EXCEPT !.frames = <<>>] /\ queue' = queue \o Y.frames
      /\ super' = super /\ heard' = heard
  BY DEF Input, deliveryVars
<1>2. ProgrammeInv /\ n \in Nat /\ air \in Nat /\ SyncOk(n, sync) /\ sync.data \in Seq(Units(n))
  BY SuperFramesNat DEF OrderInv, ProgrammeInv, SyncOk
<1>3. SyncOk(n, Y)
  BY <1>2, SynchronizeKeeps
<1>4. PICK x \in Nat : x <= air + 1 /\ Behind(heard, x) /\ InOrder(x..air, kept, <<>>, sync.data)
  BY DEF OrderInv
<1>5. InOrder(x..air', kept, <<>>, sync.data \o units)
  BY <1>2, <1>4, MoreInOrder
<1> HIDE DEF kept
<1>6. InOrder(x..air', kept, Y.frames, Y.data)
  BY <1>2, <1>5, SynchronizeInOrder
<1> HIDE DEF n, Y
<1>7. sync'.data = Y.data /\ queue' = Y.frames
  <2>1. Y = [data |-> Y.data, sync |-> Y.sync, count |-> Y.count, frames |-> Y.frames]
        /\ Y.frames \in Seq(Frames(n))
    BY <1>3 DEF SyncOk
  <2>2. sync' = [data |-> Y.data, sync |-> Y.sync, count |-> Y.count, frames |-> <<>>]
    BY <1>1, <2>1
  <2>3. <<>> \o Y.frames = Y.frames
    BY <2>1, ConcatEmptySeq
  <2> QED
    BY <1>1, <2>2, <2>3
<1>8. x <= air' + 1 /\ Behind(heard', x)
  <2>1. air \in Int /\ air' \in Int /\ x <= air + 1
    BY <1>2, <1>4
  <2> DEFINE b == air'
  <2>2. x \in Int /\ b \in Int /\ air <= b
    BY <2>1
  <2> HIDE DEF b
  <2>3. x <= b + 1
    BY ONLY <2>1, <2>2
  <2> QED
    BY <1>1, <1>4, <2>3 DEF b
<1>9. InOrder(x..air', Kept(super'), queue', sync'.data)
  BY <1>1, <1>6, <1>7 DEF kept
<1> QED
  BY <1>8, <1>9 DEF OrderInv

LEMMA ReceiveInOrder == ASSUME OrderInv, Receive PROVE OrderInv'
<1> DEFINE c == NextChunk
           m == Len(c)
<1>1. ProgrammeInv /\ More /\ Input(c) /\ air' = air + m /\ ProgrammeInv'
  BY ReceiveKeeps DEF Receive, OrderInv
<1>2. /\ air \in Nat /\ m \in Nat /\ c = [k \in 1..m |-> Sent(air + k)]
      /\ c \in Seq(Units(SuperFrames)) /\ queue = <<>>
  BY <1>1, ChunkIs, ChunkIsUnits DEF ProgrammeInv, More
<1> HIDE DEF c
<1>3. \A k \in 1..m : c[k] = Sent(air + k)
  BY <1>2
<1>4. Spans(c, air + 1, air + m + 1)
  BY <1>2, <1>3, SentSpans
<1> HIDE DEF m
<1>5. air' \in Nat /\ air <= air' /\ air + m + 1 = air' + 1
  BY <1>1, <1>2
<1> QED
  BY <1>1, <1>2, <1>4, <1>5, InputInOrder

(* The same if units of the chunk are replaced by others, of which those     *)
(* that are as they were sent stand where they did.                         *)
LEMMA FaultyInOrder ==
  ASSUME OrderInv, NEW at \in FaultAt, NEW upTo \in Int, at <= upTo, NEW units,
         Faulty(at, upTo, units),
         upTo <= Len(NextChunk) => /\ units \in Seq(Units(SuperFrames))
                                   /\ Spans(units, air + at, air + upTo + 1)
  PROVE  OrderInv'
<1> DEFINE T == Units(SuperFrames)
           c == NextChunk
           m == Len(c)
           before == SubSeq(c, 1, at - 1)
           behind == SubSeq(c, upTo + 1, m)
           all == before \o units \o behind
<1>1. More /\ upTo <= m /\ Input(all) /\ air' = air + m /\ ProgrammeInv
  BY DEF Faulty, OrderInv
<1>2. /\ air \in Nat /\ m \in Nat /\ c = [k \in 1..m |-> Sent(air + k)] /\ c \in Seq(T)
      /\ SuperFrames \in Nat /\ queue = <<>> /\ at \in Nat /\ at >= 1 /\ upTo \in Nat
  BY <1>1, ChunkIs, ChunkIsUnits, SuperFramesNat, ChannelAssumption DEF ProgrammeInv, More
<1>3. ProgrammeInv'
  BY <1>1, FaultyKeeps
<1>4. units \in Seq(T) /\ Spans(units, air + at, air + upTo + 1)
  BY <1>1
<1> HIDE DEF c, T
<1> HIDE DEF m
<1>5. before \in Seq(T) /\ Spans(before, air + 1, air + at)
  <2>1. before \in Seq(T) /\ before = [k \in 1..((at - 1) - 1 + 1) |-> c[1 + k - 1]]
    <3>1. 1 \in Nat /\ at - 1 \in Nat /\ at - 1 <= Len(c) /\ 1 <= (at - 1) + 1
      BY <1>1, <1>2 DEF m
    <3> QED
      BY <1>2, <3>1, Part
  <2> HIDE DEF before
  <2>2. Len(before) = at - 1 /\ \A k \in 1..(at - 1) : before[k] = Sent(air + k)
    BY <1>1, <1>2, <2>1
  <2>3. air + (at - 1) + 1 = air + at /\ at - 1 \in Nat
    BY <1>2
  <2>4. Spans(before, air + 1, air + (at - 1) + 1)
    BY <1>2, <2>2, <2>3, SentSpans
  <2> QED
    BY <2>1, <2>3, <2>4 DEF before
<1>6. behind \in Seq(T) /\ Spans(behind, air + upTo + 1, air + m + 1)
  <2>1. behind \in Seq(T) /\ behind = [k \in 1..(m - (upTo + 1) + 1) |-> c[(upTo + 1) + k - 1]]
    <3> DEFINE i == upTo + 1
    <3>1. i \in Nat /\ m \in Nat /\ m <= Len(c) /\ i <= m + 1 /\ i >= 1
      BY <1>1, <1>2 DEF m
    <3> HIDE DEF i
    <3>2. /\ SubSeq(c, i, m) \in Seq(T)
          /\ SubSeq(c, i, m) = [k \in 1..(m - i + 1) |-> c[i + k - 1]]
      <4>1. c \in Seq(T)
        BY <1>2
      <4> QED
        BY ONLY <3>1, <4>1, Part
    <3> QED
      BY <3>2 DEF i
  <2> DEFINE x == air + upTo
             r == m - upTo
  <2>2. r \in Nat /\ x \in Nat /\ m - (upTo + 1) + 1 = r /\ x + r + 1 = air + m + 1
        /\ \A k \in 1..r : (upTo + 1) + k - 1 = upTo + k /\ upTo + k \in 1..m
                           /\ air + (upTo + k) = x + k
    BY <1>1, <1>2
  <2> HIDE DEF behind, r, x
  <2>3. behind = [k \in 1..r |-> c[upTo + k]]
    BY <2>1, <2>2
  <2>4. Len(behind) = r /\ \A k \in 1..r : behind[k] = Sent(x + k)
    <3>1. Len(behind) = r /\ \A k \in 1..r : behind[k] = c[upTo + k]
      BY <2>2, <2>3
    <3>2. \A k \in 1..r : c[upTo + k] = Sent(air + (upTo + k))
      BY <1>2, <2>2
    <3>3. \A k \in 1..r : Sent(air + (upTo + k)) = Sent(x + k)
      BY <2>2
    <3> QED
      BY <3>1, <3>2, <3>3
  <2>5. Spans(behind, x + 1, x + r + 1)
    BY <2>2, <2>4, SentSpans
  <2> QED
    BY <2>1, <2>2, <2>5 DEF behind, x
<1> HIDE DEF before, behind
<1> DEFINE first == before \o units
           i0 == air + 1
           i1 == air + at
           i2 == air + upTo + 1
           i3 == air + m + 1
<1>7. i0 \in Int /\ i1 \in Int /\ i2 \in Int /\ i3 \in Int /\ i0 <= i1 /\ i1 <= i2 /\ i2 <= i3
      /\ i0 <= i2
  BY <1>1, <1>2
<1> HIDE DEF i0, i1, i2, i3
<1>8. first \in Seq(T) /\ Spans(first, i0, i2)
  BY <1>2, <1>4, <1>5, <1>7, SpansTwo DEF T, i0, i1, i2
<1>9. all = first \o behind
  OBVIOUS
<1> HIDE DEF first
<1>10. first \o behind \in Seq(T) /\ Spans(first \o behind, i0, i3)
  BY <1>2, <1>6, <1>7, <1>8, SpansTwo DEF T, i2, i3
<1> HIDE DEF all
<1>11. all \in Seq(T) /\ Spans(all, i0, i3)
  BY <1>9, <1>10
<1>12. air' \in Nat /\ air <= air' /\ i0 = air + 1 /\ i3 = air' + 1
  BY <1>1, <1>2 DEF i0, i3
<1> QED
  BY <1>1, <1>2, <1>3, <1>11, <1>12, InputInOrder DEF T

LEMMA LoseInOrder == ASSUME OrderInv, Lose PROVE OrderInv'
<1>1. PICK at \in FaultAt, upTo \in {1, ChunkSize} : at <= upTo /\ Faulty(at, upTo, <<>>)
  BY DEF Lose
<1>2. upTo \in Int
  BY ChannelAssumption
<1> DEFINE units == <<>>
<1>3. units \in Seq(Units(SuperFrames)) /\ Len(units) = 0
  OBVIOUS
<1>4. Faulty(at, upTo, units)
  BY <1>1
<1> HIDE DEF units
<1>5. \A i \in 1..Len(units) : units[i].ok # "ok"
  BY <1>3
<1>6. Spans(units, air + at, air + upTo + 1)
  BY <1>5, NoneOk
<1> QED
  BY <1>1, <1>2, <1>3, <1>4, <1>6, FaultyInOrder

(* One unit that comes in the place of another.                              *)
LEMMA OneInOrder ==
  ASSUME OrderInv, NEW at \in FaultAt, NEW u, Faulty(at, at, <<u>>),
         at <= Len(NextChunk) => /\ u \in Units(SuperFrames)
                                 /\ u.ok = "ok" => Pos(u) = Pos(NextChunk[at])
  PROVE  OrderInv'
<1> DEFINE units == <<u>>
           T == Units(SuperFrames)
           p == Pos(u)
           b == air + at + 1
<1>1. at \in Int /\ at <= at /\ at >= 1
  BY ChannelAssumption
<1>2. More /\ ProgrammeInv
  BY DEF Faulty, OrderInv
<1>3. /\ air \in Nat /\ Len(NextChunk) \in Nat
      /\ NextChunk = [k \in 1..Len(NextChunk) |-> Sent(air + k)]
  BY <1>2, ChunkIs
<1>4. Len(units) = 1 /\ units[1] = u /\ (u \in T => units \in Seq(T))
  OBVIOUS
<1>5. Faulty(at, at, units)
  OBVIOUS
<1> HIDE DEF units, T
<1>6. ASSUME at <= Len(NextChunk)
      PROVE  units \in Seq(T) /\ Spans(units, air + at, b)
  <2>1. NextChunk[at] = Sent(air + at)
    <3>1. at \in 1..Len(NextChunk)
      BY <1>1, <1>3, <1>6
    <3> QED
      BY <1>3, <3>1
  <2>2. Pos(NextChunk[at]) = air + at
    <3>1. air + at \in Nat /\ air + at >= 1
      BY <1>1, <1>3
    <3> QED
      BY <2>1, <3>1, PosSent
  <2>3. u \in T /\ (u.ok = "ok" => p = air + at)
    BY <1>6, <2>2 DEF T
  <2>4. \A i \in 1..Len(units) : i = 1
    BY <1>4
  <2>5. Rising(units)
    BY <2>4 DEF Rising
  <2>6. \A r \in Oks(units) : r = air + at
    <3> SUFFICES ASSUME NEW i \in 1..Len(units), units[i].ok = "ok"
                 PROVE  Pos(units[i]) = air + at
      BY DEF Oks
    <3> QED
      BY <1>4, <2>3, <2>4
  <2>7. air + at <= air + at /\ air + at < b
    BY <1>1, <1>3
  <2> HIDE DEF b
  <2> QED
    BY <1>4, <2>3, <2>5, <2>6, <2>7 DEF Spans
<1> QED
  BY <1>1, <1>5, <1>6, FaultyInOrder DEF T

LEMMA DamageInOrder == ASSUME OrderInv, Damage PROVE OrderInv'
<1>1. PICK at \in FaultAt :
        Faulty(at, at, <<[NextChunk[at] EXCEPT !.ok = "bad", !.header = NoHeader]>>)
  BY DEF Damage
<1> DEFINE u == NextChunk[at]
           bad == [u EXCEPT !.ok = "bad", !.header = NoHeader]
<1>2. ProgrammeInv /\ More
  BY <1>1 DEF Faulty, OrderInv
<1>3. ASSUME at <= Len(NextChunk) PROVE bad \in Units(SuperFrames) /\ bad.ok # "ok"
  <2>1. u \in Units(SuperFrames)
    BY <1>2, <1>3, NextUnit
  <2>2. NoHeader \in Headers
    BY DEF Headers
  <2> HIDE DEF u
  <2> QED
    BY <2>1, <2>2 DEF Units
<1>4. Faulty(at, at, <<bad>>)
  BY <1>1
<1> HIDE DEF bad
<1> QED
  BY <1>3, <1>4, OneInOrder

LEMMA ChanceInOrder == ASSUME OrderInv, Chance PROVE OrderInv'
<1>1. PICK at \in FaultAt, h \in FalseHeaders :
        Faulty(at, at, <<[NextChunk[at] EXCEPT !.header = h]>>)
  BY DEF Chance
<1> DEFINE u == NextChunk[at]
           false == [u EXCEPT !.header = h]
<1>2. ProgrammeInv /\ More
  BY <1>1 DEF Faulty, OrderInv
<1>3. ASSUME at <= Len(NextChunk) PROVE false \in Units(SuperFrames) /\ Pos(false) = Pos(u)
  <2>1. u \in Units(SuperFrames)
    BY <1>2, <1>3, NextUnit
  <2>2. h \in Headers
    BY DEF Headers
  <2> HIDE DEF u
  <2>3. false \in Units(SuperFrames) /\ false.sf = u.sf /\ false.at = u.at
    BY <2>1, <2>2 DEF Units
  <2> HIDE DEF false
  <2> QED
    BY <2>3 DEF Pos
<1>4. Faulty(at, at, <<false>>)
  BY <1>1
<1> HIDE DEF false
<1> QED
  BY <1>3, <1>4, OneInOrder

LEMMA SilenceInOrder == ASSUME OrderInv, Silence PROVE OrderInv'
<1>1. PICK at \in FaultAt :
        Faulty(at, ChunkSize, [k \in 1..(ChunkSize - at + 1) |->
          [NextChunk[at] EXCEPT !.ok = "zero", !.header = ZeroHeader]])
  BY DEF Silence
<1> DEFINE u == NextChunk[at]
           zero == [u EXCEPT !.ok = "zero", !.header = ZeroHeader]
           n == ChunkSize - at + 1
           units == [k \in 1..n |-> zero]
<1>2. /\ at \in Int /\ at <= ChunkSize /\ ChunkSize \in Int /\ n \in Nat
      /\ ProgrammeInv /\ More
  BY <1>1, ChannelAssumption DEF Faulty, OrderInv
<1>3. ASSUME ChunkSize <= Len(NextChunk)
      PROVE  zero \in Units(SuperFrames) /\ zero.ok # "ok"
  <2>1. u \in Units(SuperFrames)
    <3>1. Len(NextChunk) \in Nat
      BY <1>2, ChunkIsUnits DEF ProgrammeInv
    <3>2. at <= Len(NextChunk)
      BY <1>2, <1>3, <3>1
    <3> QED
      BY <1>2, <3>2, NextUnit
  <2>2. ZeroHeader \in Headers
    BY DEF Headers
  <2> HIDE DEF u
  <2> QED
    BY <2>1, <2>2 DEF Units
<1>4. Faulty(at, ChunkSize, units)
  BY <1>1
<1> HIDE DEF zero, n
<1>5. Len(units) = n /\ \A i \in 1..n : units[i] = zero
  BY <1>2
<1>6. zero \in Units(SuperFrames) => units \in Seq(Units(SuperFrames))
  <2> SUFFICES ASSUME zero \in Units(SuperFrames) PROVE units \in Seq(Units(SuperFrames))
    OBVIOUS
  <2>1. units \in [1..n -> Units(SuperFrames)]
    OBVIOUS
  <2> QED
    BY <1>2, <2>1, SeqDef
<1> HIDE DEF units
<1>7. zero.ok # "ok" => Spans(units, air + at, air + ChunkSize + 1)
  BY <1>5, NoneOk
<1>8. ChunkSize <= Len(NextChunk) =>
        units \in Seq(Units(SuperFrames)) /\ Spans(units, air + at, air + ChunkSize + 1)
  BY <1>3, <1>6, <1>7
<1> QED
  BY <1>2, <1>4, <1>8, FaultyInOrder

-----------------------------------------------------------------------------
(* AUs that begin later have later PADs.                                     *)
LEMMA EndsRise ==
  ASSUME NEW i \in 1..AUs, NEW j \in 1..AUs, SentEnds[i] < SentEnds[j]
  PROVE  i < j
<1> DEFINE e == SentEnds
<1>1. AUs \in {2, 3, 4, 6}
  BY AUsFew
<1>2. (\A k \in 1..(AUs+1) : e[k] \in Nat) /\ (\A k \in 1..AUs : e[k] < e[k+1]) /\ e[i] < e[j]
  BY SentStarts
<1> HIDE DEF e
<1>3. CASE AUs = 2
  BY <1>2, <1>3
<1>4. CASE AUs = 3
  BY <1>2, <1>4
<1>5. CASE AUs = 4
  BY <1>2, <1>5
<1>6. CASE AUs = 6
  BY <1>2, <1>6
<1> QED
  BY <1>1, <1>3, <1>4, <1>5, <1>6

LEMMA PadsRise ==
  ASSUME NEW f \in Nat \ {0}, NEW g \in Nat \ {0}, NEW i \in 1..AUs, NEW j \in 1..AUs,
         Begin(f, i) < Begin(g, j)
  PROVE  PadOf(f, i) < PadOf(g, j)
<1> DEFINE b == SentPerSuperFrame
           d == SentEnds[i]
           e == SentEnds[j]
           x == b * (f - 1)
           y == b * (g - 1)
<1>1. /\ b \in Nat \ {0} /\ d \in Nat /\ e \in Nat /\ d >= 2 /\ e <= b
  <2>1. d \in Nat /\ e \in Nat /\ d >= 2
    BY SentStarts, SentBehind, AUsFew
  <2>2. e <= SuperFrameSize /\ SuperFrameSize \in Nat /\ SuperFrameSize <= SentPerSuperFrame
    BY SentRises, FramesAssumption DEF SentPerSuperFrame
  <2> QED
    BY <2>1, <2>2, Offsets
<1>2. x \in Nat /\ y \in Nat
  <2>1. f - 1 \in Nat /\ g - 1 \in Nat
    OBVIOUS
  <2> QED
    BY <1>1, <2>1, Product
<1>3. x + d < y + e
  BY DEF Begin
<1>4. ~(g < f)
  <2> SUFFICES ASSUME g < f PROVE FALSE
    OBVIOUS
  <2>1. b * (f - 1 - g) \in Nat
    <3>1. f - 1 - g \in Nat
      OBVIOUS
    <3> QED
      BY <1>1, <3>1, Product
  <2>2. b * (f - 1 - g) = x - y - b
    BY <1>1
  <2> HIDE DEF x, y, d, e, b
  <2>3. x - y - b \in Nat
    BY <2>1, <2>2
  <2> QED
    BY <1>1, <1>2, <1>3, <2>3
<1>5. f = g => i < j
  <2> SUFFICES ASSUME f = g PROVE i < j
    OBVIOUS
  <2>1. x = y
    OBVIOUS
  <2> HIDE DEF x, y
  <2>2. d < e
    BY <1>1, <1>2, <1>3, <2>1
  <2> QED
    BY <2>2, EndsRise
<1>6. AUs \in {2, 3, 4, 6}
  BY AUsFew
<1> HIDE DEF x, y, b, d, e
<1>7. f = g \/ f + 1 <= g
  BY <1>4
<1>8. (f - 1) * AUs + i < (g - 1) * AUs + j
  <2>1. CASE AUs = 2
    BY ONLY <1>5, <1>7, <2>1, f \in Nat, g \in Nat, i \in 1..AUs, j \in 1..AUs
  <2>2. CASE AUs = 3
    BY ONLY <1>5, <1>7, <2>2, f \in Nat, g \in Nat, i \in 1..AUs, j \in 1..AUs
  <2>3. CASE AUs = 4
    BY ONLY <1>5, <1>7, <2>3, f \in Nat, g \in Nat, i \in 1..AUs, j \in 1..AUs
  <2>4. CASE AUs = 6
    BY ONLY <1>5, <1>7, <2>4, f \in Nat, g \in Nat, i \in 1..AUs, j \in 1..AUs
  <2> QED
    BY <1>6, <2>1, <2>2, <2>3, <2>4
<1> QED
  BY <1>8 DEF PadOf

LEMMA BeginIsNat ==
  ASSUME NEW f \in Nat \ {0}, NEW j \in 1..AUs
  PROVE  Begin(f, j) \in Nat
<1>1. f - 1 \in Nat /\ SentPerSuperFrame \in Nat /\ SentEnds[j] \in Nat
  BY Offsets, SentStarts, AUsFew
<1>2. SentPerSuperFrame * (f - 1) \in Nat
  BY <1>1, Product
<1> QED
  BY <1>1, <1>2 DEF Begin

LEMMA BehindGrows ==
  ASSUME NEW got, NEW x \in Nat, Behind(got, x), NEW f \in Nat \ {0}, NEW j \in 1..AUs,
         x <= Begin(f, j)
  PROVE  /\ \A i \in got : i < PadOf(f, j)
         /\ Behind(got \union {PadOf(f, j)}, Begin(f, j) + 1)
<1>1. \A i \in got : i < PadOf(f, j)
  BY DEF Behind
<1>2. ASSUME NEW g \in Nat \ {0}, NEW k \in 1..AUs, Begin(f, j) + 1 <= Begin(g, k)
      PROVE  \A i \in got \union {PadOf(f, j)} : i < PadOf(g, k)
  <2>1. Begin(f, j) \in Nat /\ Begin(g, k) \in Nat
    BY BeginIsNat
  <2>2. Begin(f, j) < Begin(g, k) /\ x <= Begin(g, k)
    BY <1>2, <2>1
  <2>3. PadOf(f, j) < PadOf(g, k)
    BY <2>2, PadsRise
  <2>4. \A i \in got : i < PadOf(g, k)
    BY <2>2 DEF Behind
  <2> QED
    BY <2>3, <2>4
<1>3. Behind(got \union {PadOf(f, j)}, Begin(f, j) + 1)
  BY <1>2 DEF Behind
<1> QED
  BY <1>1, <1>3

(* The PAD that an AU brings.                                               *)
LEMMA PlaceIs ==
  ASSUME station \in Stations, NEW au \in Seq(Units(SuperFrames)), CrcFits(au)
  PROVE  /\ Place(au) \in 1..Len(station) /\ au # <<>> /\ au[1].ok = "ok"
         /\ \E f \in Nat \ {0} : \E j \in 1..AUs :
              Place(au) = PadOf(f, j) /\ Pos(au[1]) = Begin(f, j)
<1> DEFINE starts == Starts(Header)
           j == CHOOSE k \in 1..AUs : starts[k] = au[1].at
           f == au[1].sf
<1>1. au # <<>> /\ \A i \in DOMAIN au : au[i].ok = "ok"
  BY DEF CrcFits
<1>2. 1 \in DOMAIN au /\ au[1] \in Units(SuperFrames)
  BY <1>1, ElementOfSeq
<1>3. f \in 1..SuperFrames /\ f \in Nat \ {0}
  BY <1>2, SuperFramesFit DEF Units
<1>4. \A k \in 1..AUs : SentEnds[k] = starts[k]
  BY SentStarts
<1>5. j \in 1..AUs /\ starts[j] = au[1].at
  <2>1. PICK k \in 1..AUs : au[1].at = SentEnds[k]
    BY DEF CrcFits, AUs, SentEnds
  <2>2. starts[k] = au[1].at
    BY <1>4, <2>1
  <2> QED
    BY <2>2
<1>6. Place(au) = PadOf(f, j)
  BY DEF Place, PadOf
<1>7. Pos(au[1]) = Begin(f, j)
  BY <1>4, <1>5 DEF Pos, Begin
<1> HIDE DEF f, j
<1>8. PadOf(f, j) \in 1..Len(station)
  BY <1>3, <1>5, SuperFramesFit DEF PadOf
<1> QED
  BY <1>1, <1>2, <1>3, <1>5, <1>6, <1>7, <1>8

-----------------------------------------------------------------------------
(* PADs heard in order: one more, behind those before.                      *)
HearIf(h, i, new) == IF i \in new THEN Hear(h, i) ELSE h

Runs(f, r, new, n) ==
  f = [i \in 0..n |-> IF i = 0 THEN Unheard(r) ELSE HearIf(f[i-1], i, new)]

LEMMA RunsExist ==
  ASSUME NEW r, NEW new, NEW n \in Nat
  PROVE  \E f : Runs(f, r, new, n)
<1> DEFINE T == {k \in 0..n : \E f : Runs(f, r, new, k)}
<1>1. 0 \in T
  <2>1. Runs([k \in 0..0 |-> Unheard(r)], r, new, 0)
    BY DEF Runs
  <2> QED
    BY <2>1
<1>2. ASSUME NEW k \in 1..n, k - 1 \in T PROVE k \in T
  <2>1. PICK f : Runs(f, r, new, k - 1)
    BY <1>2
  <2> DEFINE g == [j \in 0..k |-> IF j < k THEN f[j] ELSE HearIf(f[k-1], k, new)]
             h == [j \in 0..k |-> IF j = 0 THEN Unheard(r) ELSE HearIf(g[j-1], j, new)]
  <2>2. \A j \in 0..(k-1) : f[j] = IF j = 0 THEN Unheard(r) ELSE HearIf(f[j-1], j, new)
    BY <2>1 DEF Runs
  <2>3. \A j \in 0..k : g[j] = IF j = 0 THEN Unheard(r) ELSE HearIf(g[j-1], j, new)
    BY <2>2
  <2>4. DOMAIN g = DOMAIN h /\ \A j \in 0..k : g[j] = h[j]
    BY <2>3
  <2>5. Runs(g, r, new, k)
    BY <2>4 DEF Runs
  <2> QED
    BY <2>5
<1> HIDE DEF T
<1>3. n \in T
  BY <1>1, <1>2, Ascends
<1> QED
  BY <1>3 DEF T

LEMMA RunsEnd ==
  ASSUME NEW r, NEW new, Len(station) \in Nat
  PROVE  \E f : Runs(f, r, new, Len(station)) /\ HeardInOrder(r, new) = f[Len(station)]
<1> DEFINE n == Len(station)
           f == CHOOSE f : Runs(f, r, new, n)
<1>1. HeardInOrder(r, new) = f[n]
  BY DEF HeardInOrder, Runs, HearIf, Hear, Unheard
<1> HIDE DEF n
<1>2. Runs(f, r, new, n)
  BY RunsExist DEF n
<1> HIDE DEF f
<1> QED
  BY <1>1, <1>2 DEF n

(* Nothing happens where nothing is new, and two that agree go on alike.     *)
LEMMA RunsStay ==
  ASSUME NEW f, NEW r, NEW new, NEW n \in Nat, Runs(f, r, new, n), NEW m \in 0..n,
         \A k \in (m+1)..n : k \notin new
  PROVE  f[n] = f[m]
<1> DEFINE T == {k \in 0..n : k >= m => f[k] = f[m]}
<1>1. \A k \in 1..n : f[k] = HearIf(f[k-1], k, new)
  BY DEF Runs
<1>2. 0 \in T
  OBVIOUS
<1>3. ASSUME NEW k \in 1..n, k - 1 \in T PROVE k \in T
  <2>1. CASE k <= m
    BY <2>1
  <2>2. CASE ~(k <= m)
    <3>1. k \in (m+1)..n /\ k - 1 >= m
      BY <2>2
    <3>2. f[k] = f[k-1]
      BY <1>1, <3>1 DEF HearIf
    <3>3. f[k-1] = f[m]
      BY <1>3, <3>1
    <3> QED
      BY <3>2, <3>3
  <2> QED
    BY <2>1, <2>2
<1> HIDE DEF T
<1>4. \A k \in 0..n : k \in T
  BY <1>2, <1>3, Ascends
<1> QED
  BY <1>4 DEF T

LEMMA RunsAgree ==
  ASSUME NEW f, NEW g, NEW r, NEW A, NEW B, NEW n \in Nat, Runs(f, r, A, n), Runs(g, r, B, n),
         NEW m \in 0..n, \A k \in 1..m : k \in A <=> k \in B
  PROVE  f[m] = g[m]
<1> DEFINE T == {k \in 0..m : f[k] = g[k]}
<1>1. /\ \A k \in 1..n : f[k] = HearIf(f[k-1], k, A) /\ g[k] = HearIf(g[k-1], k, B)
      /\ f[0] = g[0]
  BY DEF Runs
<1>2. m \in Nat /\ m <= n
  OBVIOUS
<1>3. 0 \in T
  BY <1>1
<1>4. ASSUME NEW k \in 1..m, k - 1 \in T PROVE k \in T
  <2>1. k \in 1..n /\ f[k-1] = g[k-1] /\ (k \in A <=> k \in B)
    BY <1>2, <1>4
  <2>2. f[k] = g[k]
    BY <1>1, <2>1 DEF HearIf
  <2> QED
    BY <2>2
<1> HIDE DEF T
<1>5. \A k \in 0..m : k \in T
  BY <1>2, <1>3, <1>4, Ascends
<1>6. m \in T
  BY <1>2, <1>5
<1> QED
  BY <1>6 DEF T

LEMMA RunNone ==
  ASSUME NEW r, Len(station) \in Nat
  PROVE  HeardInOrder(r, {}) = Unheard(r)
<1> DEFINE n == Len(station)
<1>1. PICK f : Runs(f, r, {}, n) /\ HeardInOrder(r, {}) = f[n]
  BY RunsEnd
<1> HIDE DEF n
<1>2. f[n] = f[0]
  <2>1. n \in Nat /\ 0 \in 0..n
    BY DEF n
  <2> QED
    BY <1>1, <2>1, RunsStay
<1>3. f[0] = Unheard(r)
  BY <1>1 DEF Runs, n
<1> QED
  BY <1>1, <1>2, <1>3

LEMMA RunExtends ==
  ASSUME NEW r, Len(station) \in Nat, NEW new, NEW i \in 1..Len(station), \A k \in new : k < i
  PROVE  HeardInOrder(r, new \union {i}) = Hear(HeardInOrder(r, new), i)
<1> DEFINE n == Len(station)
           more == new \union {i}
           j == i - 1
<1>1. PICK f : Runs(f, r, new, n) /\ HeardInOrder(r, new) = f[n]
  BY RunsEnd
<1>2. PICK g : Runs(g, r, more, n) /\ HeardInOrder(r, more) = g[n]
  BY RunsEnd
<1>3. n \in Nat /\ i \in 1..n /\ j \in 0..n /\ i = j + 1 /\ i \in 0..n
  OBVIOUS
<1>4. /\ \A k \in (j+1)..n : k \notin new
      /\ \A k \in (i+1)..n : k \notin more
      /\ \A k \in 1..j : k \in new <=> k \in more
  <2>1. \A k \in Int : k >= i => k \notin new
    BY <1>3
  <2> QED
    BY <1>3, <2>1
<1>5. i \in more
  OBVIOUS
<1> HIDE DEF n, more, j
<1>6. f[n] = f[j]
  BY <1>1, <1>3, <1>4, RunsStay
<1>7. g[n] = g[i]
  BY <1>2, <1>3, <1>4, RunsStay
<1>8. f[j] = g[j]
  BY <1>1, <1>2, <1>3, <1>4, RunsAgree
<1>9. g[i] = Hear(g[j], i)
  <2>1. g[i] = HearIf(g[i-1], i, more) /\ i - 1 = j
    BY <1>2, <1>3 DEF Runs
  <2> QED
    BY <1>5, <2>1 DEF HearIf
<1> QED
  BY <1>1, <1>2, <1>6, <1>7, <1>8, <1>9 DEF more

-----------------------------------------------------------------------------
(* The AUs of a superframe: one begins where the one before it ends.         *)
Slice(data, au, from, to) ==
  /\ from \in Nat /\ to \in Nat /\ from <= to
  /\ au # <<>> => from < to /\ from \in 1..Len(data) /\ au[1] = data[from]

LEMMA FirstOfSlice ==
  ASSUME NEW S, NEW s, NEW m \in Int, NEW n \in Int, m <= n, \A i \in m..n : s[i] \in S
  PROVE  SubSeq(s, m, n)[1] = s[m]
<1>1. \A i \in 1..(n - m + 1) : SubSeq(s, m, n)[i] = s[m + i - 1]
  BY ONLY m \in Int, n \in Int, \A i \in m..n : s[i] \in S, SubSeqProperties
<1>2. 1 \in 1..(n - m + 1) /\ m + 1 - 1 = m
  OBVIOUS
<1> QED
  BY <1>1, <1>2

LEMMA Slices ==
  ASSUME NEW n, NEW data \in Seq(Units(n)), Len(data) = 5 * FrameSize, NEW starts, StartsOk(starts)
  PROVE  LET aus  == AccessUnits([data |-> data, starts |-> starts])
             ends == Append(starts, SuperFrameSize + 1)
         IN  /\ aus \in Seq(Seq(Units(n))) /\ Len(aus) \in Nat
             /\ \A k \in 1..Len(aus) : Slice(data, aus[k], ends[k], ends[k+1])
<1> DEFINE p == [data |-> data, starts |-> starts]
           aus == AccessUnits(p)
           ends == Append(starts, SuperFrameSize + 1)
           size == Len(starts)
           last == SuperFrameSize + 1
<1>1. aus \in Seq(Seq(Units(n)))
  <2>1. p.data = data /\ p.starts = starts
    OBVIOUS
  <2> HIDE DEF p
  <2> QED
    BY <2>1, AccessUnitsWithin
<1>2. /\ SuperFrameSize \in Nat /\ SuperFrameSize <= Len(data) /\ Len(data) \in Nat /\ last \in Nat
  BY FramesAssumption
<1>3. /\ starts \in Seq(Nat) /\ size \in Nat /\ starts[1] = 2
      /\ \A i \in 2..size : starts[i] <= last /\ starts[i] > starts[i-1]
  BY DEF StartsOk
<1>4. /\ \A i \in 1..size : ends[i] = starts[i]
      /\ ends[size+1] = last
  BY <1>2, <1>3
<1>5. DOMAIN starts = 1..size
  BY <1>3
<1>6. aus = [j \in 1..size |-> SubSeq(data, ends[j], ends[j+1] - 1)]
  BY <1>5 DEF AccessUnits
<1> HIDE DEF ends, aus, p
<1>7. Len(aus) = size
  <2>1. DOMAIN aus = 1..size /\ DOMAIN aus = 1..Len(aus) /\ Len(aus) \in Nat
    BY <1>1, <1>6
  <2> QED
    BY <1>3, <2>1
<1>8. \A i \in 1..size : starts[i] \in Nat
  BY <1>3
<1> HIDE DEF size, last
<1>9. starts[1] = 2 => 2 <= last
  BY <1>2, FramesAssumption DEF last
<1>10. ASSUME NEW k \in 1..size PROVE Slice(data, aus[k], ends[k], ends[k+1])
  <2> DEFINE from == ends[k]
             to == ends[k+1]
             end == to - 1
  <2>1. k + 1 \in 2..(size + 1) /\ k \in Nat /\ (k # size => k + 1 \in 2..size /\ k + 1 \in 1..size)
        /\ (k # 1 => k \in 2..size /\ k - 1 \in 1..size)
    BY <1>3
  <2>2. from = starts[k] /\ from \in Nat /\ from <= last
    <3>1. CASE k = 1
      BY <1>3, <1>4, <1>8, <1>9, <3>1
    <3>2. CASE k # 1
      BY <1>3, <1>4, <1>8, <2>1, <3>2
    <3> QED
      BY <3>1, <3>2
  <2>3. from >= 1
    <3>1. CASE k = 1
      BY <1>3, <2>2, <3>1
    <3>2. CASE k # 1
      <4>1. starts[k-1] \in Nat /\ starts[k] > starts[k-1]
        BY <1>3, <1>8, <2>1, <3>2
      <4> QED
        BY <2>2, <4>1
    <3> QED
      BY <3>1, <3>2
  <2>4. to \in Nat /\ from <= to /\ to <= last
    <3>1. CASE k = size
      <4>1. to = last
        BY <1>4, <3>1
      <4> QED
        BY <1>2, <2>2, <4>1
    <3>2. CASE k # size
      <4> DEFINE m == k + 1
      <4>1. m \in 2..size /\ m \in 1..size /\ m - 1 = k
        BY <2>1, <3>2
      <4> HIDE DEF m
      <4>2. ends[m] = starts[m] /\ starts[m] \in Nat /\ starts[m] <= last /\ starts[m] > starts[m-1]
        BY <1>3, <1>4, <1>8, <4>1
      <4>3. to = ends[m]
        BY DEF m
      <4> QED
        BY <2>2, <4>1, <4>2, <4>3
    <3> QED
      BY <3>1, <3>2
  <2>5. aus[k] = SubSeq(data, from, end)
    BY <1>6
  <2> HIDE DEF from, to
  <2>6. end \in Int /\ end <= Len(data)
    BY <1>2, <2>4 DEF last
  <2>7. ASSUME aus[k] # <<>> PROVE from < to /\ from \in 1..Len(data) /\ aus[k][1] = data[from]
    <3>1. from <= end
      <4>1. CASE end < from
        BY <2>2, <2>5, <2>6, <2>7, <4>1, SubSeqEmpty
      <4> QED
        BY <2>2, <2>6, <4>1
    <3>2. \A i \in from..end : data[i] \in Units(n)
      <4>1. \A i \in from..end : i \in 1..Len(data)
        BY <1>2, <2>2, <2>3, <2>6
      <4> QED
        BY <4>1, ElementOfSeq
    <3>3. SubSeq(data, from, end)[1] = data[from]
      <4> HIDE DEF end
      <4> QED
        BY ONLY <2>2, <2>6, <3>1, <3>2, FirstOfSlice
    <3>5. aus[k][1] = data[from]
      BY ONLY <2>5, <3>3
    <3>6. from < to /\ from \in 1..Len(data)
      BY <1>2, <2>2, <2>3, <2>4, <2>6, <3>1 DEF end
    <3> QED
      BY <3>5, <3>6
  <2> QED
    BY <2>2, <2>4, <2>7 DEF Slice, from, to
<1> QED
  BY <1>1, <1>3, <1>7, <1>10 DEF aus, ends, p

(* What the PAD decoder has got of a superframe before the place from.       *)
Handed(r, got, x, data, from, h) ==
  /\ h.heard \subseteq 1..Len(station)
  /\ \A i \in h.heard : \A j \in got : j < i
  /\ h = HeardInOrder(r, h.heard)
  /\ \E z \in Nat : /\ x <= z /\ (z = x \/ z - 1 \in Oks(data))
                    /\ Behind(got \union h.heard, z)
                    /\ \A i \in 1..Len(data) : from <= i /\ data[i].ok = "ok" => z <= Pos(data[i])

LEMMA HandOver ==
  ASSUME station \in Stations, SuperFrames \in Nat, NEW data \in Seq(Units(SuperFrames)), Rising(data),
         NEW r, NEW got, NEW x \in Nat, NEW from, NEW to, NEW h, Handed(r, got, x, data, from, h),
         NEW au \in Seq(Units(SuperFrames)), Slice(data, au, from, to)
  PROVE  Handed(r, got, x, data, to, HeardNext(h, au))
<1> DEFINE size == Len(data)
<1>1. /\ from \in Nat /\ to \in Nat /\ from <= to
      /\ au # <<>> => from < to /\ from \in 1..size /\ au[1] = data[from]
  BY DEF Slice
<1>2. /\ h.heard \subseteq 1..Len(station) /\ h = HeardInOrder(r, h.heard)
      /\ \A i \in h.heard : \A j \in got : j < i
  BY DEF Handed
<1>3. PICK z \in Nat :
        /\ x <= z /\ (z = x \/ z - 1 \in Oks(data)) /\ Behind(got \union h.heard, z)
        /\ \A i \in 1..size : from <= i /\ data[i].ok = "ok" => z <= Pos(data[i])
  BY DEF Handed
<1>4. size \in Nat /\ Len(station) \in Nat
  BY StationAssumption
<1>5. CASE ~CrcFits(au)
  <2>1. \A i \in 1..size : to <= i /\ data[i].ok = "ok" => z <= Pos(data[i])
    <3>1. \A i \in 1..size : to <= i => from <= i
      BY <1>1, <1>4
    <3> QED
      BY <1>3, <3>1
  <2>2. HeardNext(h, au) = h
    BY <1>5 DEF HeardNext
  <2> QED
    BY <1>2, <1>3, <2>1, <2>2 DEF Handed
<1>6. CASE CrcFits(au)
  <2> DEFINE i == Place(au)
             a == Pos(au[1])
             next == HeardNext(h, au)
  <2>1. /\ i \in 1..Len(station) /\ au # <<>> /\ au[1].ok = "ok"
        /\ \E f \in Nat \ {0} : \E j \in 1..AUs : i = PadOf(f, j) /\ a = Begin(f, j)
    BY <1>6, PlaceIs
  <2>2. /\ from < to /\ from \in 1..size /\ a = Pos(data[from]) /\ data[from].ok = "ok"
        /\ a \in Oks(data)
    <3>1. from < to /\ from \in 1..size /\ au[1] = data[from]
      BY <1>1, <2>1
    <3> QED
      BY <2>1, <3>1 DEF Oks
  <2>3. next = Hear(h, i)
    BY <1>6 DEF HeardNext
  <2>4. next.heard = h.heard \union {i}
    BY <2>3 DEF Hear
  <2> HIDE DEF i, a, next
  <2>5. a \in Nat /\ z <= a
    <3>1. a \in Nat
      BY <2>2, OksAreNat
    <3>2. from <= from
      BY <1>1
    <3> QED
      BY <1>3, <2>2, <3>1, <3>2
  <2>6. (\A k \in got \union h.heard : k < i) /\ Behind((got \union h.heard) \union {i}, a + 1)
    <3>1. PICK f \in Nat \ {0}, j \in 1..AUs : i = PadOf(f, j) /\ a = Begin(f, j)
      BY <2>1
    <3> QED
      BY <1>3, <2>5, <3>1, BehindGrows
  <2>7. next = HeardInOrder(r, next.heard)
    <3>1. \A k \in h.heard : k < i
      BY <2>6
    <3>2. HeardInOrder(r, h.heard \union {i}) = Hear(HeardInOrder(r, h.heard), i)
      BY <1>4, <2>1, <3>1, RunExtends
    <3> QED
      BY <1>2, <2>3, <2>4, <3>2
  <2>8. Behind(got \union next.heard, a + 1)
    <3>1. (got \union h.heard) \union {i} = got \union next.heard
      BY <2>4
    <3> QED
      BY <2>6, <3>1
  <2>9. ASSUME NEW k \in 1..size, to <= k, data[k].ok = "ok" PROVE a + 1 <= Pos(data[k])
    <3>1. from < k
      BY <1>1, <1>4, <2>2, <2>9
    <3>2. a < Pos(data[k])
      BY <2>2, <2>9, <3>1 DEF Rising
    <3>3. Pos(data[k]) \in Nat
      <4>1. data[k] \in Units(SuperFrames)
        BY ElementOfSeq
      <4> QED
        BY <4>1, PosIsNat
    <3> QED
      BY <2>5, <3>2, <3>3
  <2>10. next.heard \subseteq 1..Len(station) /\ \A k \in next.heard : \A j \in got : j < k
    BY <1>2, <2>1, <2>4, <2>6
  <2> DEFINE b == a + 1
  <2>11. b \in Nat /\ x <= b /\ b - 1 \in Oks(data)
    <3>1. x <= z
      BY <1>3
    <3>2. b - 1 = a /\ x <= b /\ b \in Nat
      BY ONLY <2>5, <3>1, x \in Nat, z \in Nat
    <3> QED
      BY <2>2, <3>2
  <2>12. Behind(got \union next.heard, b) /\ \A k \in 1..size : to <= k /\ data[k].ok = "ok" => b <= Pos(data[k])
    BY <2>8, <2>9
  <2> HIDE DEF b
  <2>13. Handed(r, got, x, data, to, next)
    BY <2>7, <2>10, <2>11, <2>12 DEF Handed
  <2> QED
    BY <2>13 DEF next
<1> QED
  BY <1>5, <1>6

LEMMA HandledInOrder ==
  ASSUME station \in Stations, SuperFrames \in Nat, NEW data \in Seq(Units(SuperFrames)),
         Len(data) = 5 * FrameSize, Rising(data), NEW starts, StartsOk(starts),
         NEW r, NEW got, NEW x \in Nat, Behind(got, x), \A p \in Oks(data) : x <= p
  PROVE  \E to : Handed(r, got, x, data, to,
                        Handled(r, AccessUnits([data |-> data, starts |-> starts])))
<1> DEFINE aus == AccessUnits([data |-> data, starts |-> starts])
           ends == Append(starts, SuperFrameSize + 1)
           size == Len(aus)
           f == CHOOSE f : Hearings(f, r, aus, size)
           T == {k \in 0..size : Handed(r, got, x, data, ends[k+1], f[k])}
<1>1. /\ aus \in Seq(Seq(Units(SuperFrames))) /\ size \in Nat
      /\ \A k \in 1..size : Slice(data, aus[k], ends[k], ends[k+1])
  BY Slices
<1> HIDE DEF aus, ends
<1>2. Handled(r, aus) = f[size]
  BY DEF Handled, Hearings, HeardNext, Hear, Unheard
<1>3. \A k \in 1..size : aus[k] \in Seq(Units(SuperFrames))
  BY <1>1, ElementOfSeq
<1> HIDE DEF size
<1>4. Hearings(f, r, aus, size)
  BY <1>1, HearingsExist
<1> HIDE DEF f
<1>5. \A k \in 0..size : f[k] = IF k = 0 THEN Unheard(r) ELSE HeardNext(f[k-1], aus[k])
  BY <1>4 DEF Hearings
<1>6. 0 \in T
  <2> DEFINE h == Unheard(r)
  <2>1. f[0] = h /\ 0 \in 0..size /\ h.heard = {}
    <3>1. 0 \in 0..size
      BY <1>1
    <3>2. f[0] = h
      BY <1>5, <3>1
    <3>3. h.heard = {}
      BY DEF Unheard
    <3> QED
      BY <3>1, <3>2, <3>3
  <2>2. h = HeardInOrder(r, {})
    BY RunNone, StationAssumption
  <2>3. \A i \in 1..Len(data) : data[i].ok = "ok" => x <= Pos(data[i])
    BY DEF Oks
  <2>4. got \union {} = got
    OBVIOUS
  <2>5. x <= x
    OBVIOUS
  <2> HIDE DEF h
  <2>6. Handed(r, got, x, data, ends[0+1], h)
    BY <2>1, <2>2, <2>3, <2>4, <2>5 DEF Handed
  <2> QED
    BY <2>1, <2>6
<1>7. ASSUME NEW k \in 1..size, k - 1 \in T PROVE k \in T
  <2> DEFINE h == f[k-1]
  <2>1. (k - 1) + 1 = k /\ k \in 0..size
    BY <1>1
  <2>2. Handed(r, got, x, data, ends[k], h)
    BY <1>7, <2>1
  <2>3. f[k] = HeardNext(h, aus[k])
    BY <1>1, <1>5, <2>1
  <2> HIDE DEF h
  <2>4. Handed(r, got, x, data, ends[k+1], HeardNext(h, aus[k]))
    BY <1>1, <1>3, <2>2, HandOver
  <2> QED
    BY <2>1, <2>3, <2>4
<1> HIDE DEF T
<1>8. \A k \in 0..size : k \in T
  BY <1>1, <1>6, <1>7, Ascends
<1>9. Handed(r, got, x, data, ends[size+1], f[size])
  BY <1>1, <1>8 DEF T
<1> QED
  BY <1>2, <1>9 DEF aus

-----------------------------------------------------------------------------
(* A frame is dropped, begins a superframe, goes on with it or ends it.      *)
LEMMA ProcessTo ==
  ASSUME NEW n, NEW p, SuperOk(n, p), NEW fr \in Frames(n)
  PROVE  LET P == ProcessData(p, fr)
         IN  \/ P.aus = <<>> /\ Kept(P) \in {<<>>, fr, Kept(p) \o fr}
             \/ /\ p.count = 4 /\ p.sync /\ Kept(P) = <<>>
                /\ P.aus = AccessUnits([data |-> p.data \o fr, starts |-> p.starts])
<1> DEFINE q == [p EXCEPT !.aus = <<>>]
           P == ProcessData(p, fr)
           data == p.data \o fr
           grown == [data |-> data, starts |-> p.starts, count |-> p.count + 1,
                     sync |-> p.sync, aus |-> <<>>]
<1>1. q = [data |-> p.data, starts |-> p.starts, count |-> p.count, sync |-> p.sync, aus |-> <<>>]
  BY DEF SuperOk
<1>2. /\ p.count \in 0..4 /\ p.sync \in BOOLEAN /\ (~p.sync => p.count = 0)
      /\ p.sync => p.count # 0
  BY DEF SuperOk
<1>3. CASE p.count = 0
  <2>1. ~p.sync
    BY <1>2, <1>3
  <2>2. P = IF fr[1].header # NoHeader THEN SuperFrameBegins(q, fr) ELSE q
    <3>1. ~(q.count > 5) /\ q.count = 0 /\ ~q.sync
      BY <1>1, <1>3, <2>1
    <3> QED
      BY <3>1 DEF ProcessData
  <2> HIDE DEF q, P
  <2>3. CASE P = q
    <3>1. P.aus = <<>> /\ ~P.sync
      BY <1>1, <2>1, <2>3
    <3> QED
      BY <3>1 DEF Kept, P
  <2>4. CASE P = SuperFrameBegins(q, fr)
    <3> DEFINE starts == Starts(fr[1].header)
    <3>1. P = IF BadStart(starts) THEN [q EXCEPT !.data = <<>>]
              ELSE [q EXCEPT !.data = fr, !.starts = starts, !.count = 1, !.sync = TRUE]
      BY <2>4 DEF SuperFrameBegins
    <3> HIDE DEF starts
    <3>2. CASE BadStart(starts)
      <4>1. P.aus = <<>> /\ ~P.sync
        BY <1>1, <2>1, <3>1, <3>2
      <4> QED
        BY <4>1 DEF Kept, P
    <3>3. CASE ~BadStart(starts)
      <4>1. P = [data |-> fr, starts |-> starts, count |-> 1, sync |-> TRUE, aus |-> <<>>]
        BY <1>1, <3>1, <3>3
      <4>2. P.aus = <<>> /\ P.sync = TRUE /\ P.data = fr
        BY <4>1
      <4> QED
        BY <4>2 DEF Kept, P
    <3> QED
      BY <3>2, <3>3
  <2> QED
    BY <2>2, <2>3, <2>4
<1>4. CASE p.count \in 1..4
  <2>1. p.sync = TRUE
    BY <1>2, <1>4
  <2>2. P = IF p.count = 4 THEN SuperFrameEnds(grown) ELSE grown
    BY <1>4, ProcessGoesOn
  <2>3. Kept(p) \o fr = data
    BY <2>1 DEF Kept
  <2> HIDE DEF P
  <2>4. CASE p.count # 4
    <3>1. P = grown
      BY <2>2, <2>4
    <3> HIDE DEF data
    <3>2. P.aus = <<>> /\ P.sync = TRUE /\ P.data = data
      BY <2>1, <3>1
    <3>3. P.aus = <<>> /\ Kept(P) = data
      BY <3>2 DEF Kept
    <3> QED
      BY <2>3, <3>3 DEF P
  <2>5. CASE p.count = 4
    <3> DEFINE few == [data |-> data, starts |-> p.starts]
               aus == AccessUnits(grown)
    <3>1. P = SuperFrameEnds(grown)
      BY <2>2, <2>5
    <3>2. AccessUnits(few) = aus
      <4>1. few.data = grown.data /\ few.starts = grown.starts
        OBVIOUS
      <4> HIDE DEF few, grown
      <4> QED
        BY <4>1 DEF AccessUnits
    <3>3. P = [grown EXCEPT !.aus = aus, !.count = 0, !.sync = FALSE]
      BY <3>1 DEF SuperFrameEnds
    <3> HIDE DEF data, aus
    <3>4. P = [data |-> data, starts |-> p.starts, count |-> 0, sync |-> FALSE, aus |-> aus]
      BY <3>3
    <3>5. P.aus = aus /\ P.sync = FALSE
      BY <3>4
    <3> HIDE DEF few
    <3>6. P.aus = AccessUnits(few) /\ Kept(P) = <<>>
      BY <3>2, <3>5 DEF Kept
    <3> QED
      BY <2>1, <2>5, <3>6 DEF P, few, data
  <2> QED
    BY <2>4, <2>5
<1> QED
  BY <1>2, <1>3, <1>4

LEMMA RestInOrder ==
  ASSUME NEW S, NEW n, NEW kept, NEW frames \in Seq(Frames(n)), frames # <<>>, NEW data,
         InOrder(S, kept, frames, data),
         NEW now, Rising(now), Oks(now) \subseteq Oks(kept) \union Oks(Head(frames))
  PROVE  InOrder(S, now, Tail(frames), data)
<1> DEFINE fr == Head(frames)
           rest == Tail(frames)
           m == Len(rest)
<1>1. /\ rest \in Seq(Frames(n)) /\ m \in Nat /\ Len(frames) = m + 1
      /\ fr = frames[1] /\ \A i \in 1..m : rest[i] = frames[i+1]
  BY HeadTailProperties
<1>2. 1 \in 1..(m+1) /\ \A i \in 1..m : i + 1 \in 1..(m+1) /\ 1 < i + 1
  BY <1>1
<1> HIDE DEF rest, fr, m
<1>3. /\ Oks(kept) \subseteq S /\ Rising(data) /\ Oks(data) \subseteq S /\ Under(Oks(kept), Oks(data))
      /\ \A k \in 1..(m+1) :
           /\ Rising(frames[k]) /\ Oks(frames[k]) \subseteq S
           /\ Under(Oks(kept), Oks(frames[k])) /\ Under(Oks(frames[k]), Oks(data))
      /\ \A k, l \in 1..(m+1) : k < l => Under(Oks(frames[k]), Oks(frames[l]))
  BY <1>1 DEF InOrder
<1>4. Oks(fr) \subseteq S /\ Under(Oks(fr), Oks(data))
  BY <1>1, <1>2, <1>3
<1>5. Oks(now) \subseteq S /\ Under(Oks(now), Oks(data))
  BY <1>3, <1>4 DEF Under, fr
<1>6. ASSUME NEW k \in 1..m
      PROVE  /\ Rising(rest[k]) /\ Oks(rest[k]) \subseteq S
             /\ Under(Oks(now), Oks(rest[k])) /\ Under(Oks(rest[k]), Oks(data))
  <2> DEFINE g == frames[k+1]
  <2>1. rest[k] = g
    BY <1>1
  <2>2. /\ Rising(g) /\ Oks(g) \subseteq S
        /\ Under(Oks(kept), Oks(g)) /\ Under(Oks(g), Oks(data))
    BY <1>2, <1>3
  <2>3. Under(Oks(fr), Oks(g))
    BY <1>1, <1>2, <1>3
  <2> HIDE DEF g
  <2>4. Under(Oks(now), Oks(g))
    BY <2>2, <2>3 DEF Under, fr
  <2> QED
    BY <2>1, <2>2, <2>4
<1>7. ASSUME NEW k \in 1..m, NEW l \in 1..m, k < l PROVE Under(Oks(rest[k]), Oks(rest[l]))
  <2> DEFINE i == k + 1
             j == l + 1
  <2>1. i \in 1..(m+1) /\ j \in 1..(m+1) /\ i < j
    BY <1>1, <1>7
  <2>2. rest[k] = frames[i] /\ rest[l] = frames[j]
    BY <1>1
  <2> HIDE DEF i, j
  <2> QED
    BY <1>3, <2>1, <2>2
<1>8. InOrder(S, now, rest, data)
  BY <1>3, <1>5, <1>6, <1>7 DEF InOrder, m
<1> QED
  BY <1>8 DEF rest

(* What is behind what has been handed on.                                   *)
LEMMA RaiseInOrder ==
  ASSUME NEW x \in Nat, NEW a \in Nat, x <= a + 1, NEW now, NEW frames, NEW data,
         InOrder(x..a, now, frames, data), NEW z \in Nat, x <= z, z = x \/ z - 1 \in Oks(now)
  PROVE  InOrder(z..a, <<>>, frames, data) /\ z <= a + 1
<1>1. CASE z = x
  <2>1. Rising(<<>>) /\ Oks(<<>>) = {}
    BY NothingRises
  <2>2. InOrder(z..a, <<>>, frames, data)
    BY <1>1, <2>1 DEF InOrder, Under
  <2> QED
    BY <1>1, <2>2
<1>2. CASE z - 1 \in Oks(now)
  <2>1. z - 1 \in x..a
    BY <1>2 DEF InOrder
  <2>2. z <= a + 1
    BY <2>1
  <2>3. \A s : Oks(s) \subseteq x..a /\ Under(Oks(now), Oks(s)) => Oks(s) \subseteq z..a
    <3> SUFFICES ASSUME NEW s, Oks(s) \subseteq x..a, Under(Oks(now), Oks(s)), NEW p \in Oks(s)
                 PROVE  p \in z..a
      OBVIOUS
    <3>1. p \in x..a /\ z - 1 < p
      BY <1>2 DEF Under
    <3> QED
      BY <3>1
  <2>4. Rising(<<>>) /\ Oks(<<>>) = {}
    BY NothingRises
  <2>5. InOrder(z..a, <<>>, frames, data)
    BY <2>3, <2>4 DEF InOrder, Under
  <2> QED
    BY <2>2, <2>5
<1> QED
  BY <1>1, <1>2

(* What the thread does with a frame: the PADs handed over are behind those   *)
(* that have been, and what is left is behind them.                         *)
HandsOn(P, H, rest, data) ==
  /\ H.heard \subseteq 1..Len(station)
  /\ \A i \in H.heard : \A j \in heard : j < i
  /\ H = HeardInOrder(pad, H.heard)
  /\ \E z \in Nat : /\ z <= air + 1 /\ Behind(heard \union H.heard, z)
                    /\ InOrder(z..air, Kept(P), rest, data)

LEMMA FrameHandsOn ==
  ASSUME OrderInv, queue # <<>>
  PROVE  LET P == ProcessData(super, Head(queue))
         IN  HandsOn(P, Handled(pad, P.aus), Tail(queue), sync.data)
<1> DEFINE n == SuperFrames
           p == super
           fr == Head(queue)
           rest == Tail(queue)
           data == sync.data
           P == ProcessData(p, fr)
           H == Handled(pad, P.aus)
           kept == Kept(p)
           all == kept \o fr
<1>1. /\ station \in Stations /\ n \in Nat /\ air \in Nat /\ queue \in Seq(Frames(n))
      /\ SuperOk(n, p)
  BY SuperFramesNat DEF OrderInv, ProgrammeInv
<1>2. PICK x \in Nat : x <= air + 1 /\ Behind(heard, x) /\ InOrder(x..air, kept, queue, data)
  BY DEF OrderInv
<1>3. Len(station) \in Nat
  BY <1>1, StationAssumption
<1> HIDE DEF n, data
<1>4. /\ fr \in Frames(n) /\ fr = queue[1] /\ 1 \in 1..Len(queue)
  BY <1>1, HeadTailProperties
<1>5. fr \in Seq(Units(n)) /\ Len(fr) = FrameSize
  BY <1>4 DEF Frames
<1>6. kept \in Seq(Units(n))
  <2>1. <<>> \in Seq(Units(n))
    OBVIOUS
  <2> QED
    BY <1>1, <2>1 DEF SuperOk, Kept
<1>7. Rising(kept) /\ Rising(fr) /\ Under(Oks(kept), Oks(fr)) /\ Oks(kept) \subseteq x..air
      /\ Oks(fr) \subseteq x..air
  BY <1>2, <1>4 DEF InOrder
<1>8. \/ P.aus = <<>> /\ Kept(P) \in {<<>>, fr, all}
      \/ /\ p.count = 4 /\ p.sync /\ Kept(P) = <<>>
         /\ P.aus = AccessUnits([data |-> p.data \o fr, starts |-> p.starts])
  BY <1>1, <1>4, ProcessTo, ZenonT(60)
<1> HIDE DEF p, P, kept, fr
<1>9. all \in Seq(Units(n)) /\ Rising(all) /\ Oks(all) \subseteq Oks(kept) \union Oks(fr)
  BY <1>5, <1>6, <1>7, RisingTwo
<1>10. Rising(<<>>) /\ Oks(<<>>) = {}
  BY NothingRises
<1> HIDE DEF all
<1>11. \A now \in {<<>>, fr, all} : InOrder(x..air, now, rest, data)
  <2> SUFFICES ASSUME NEW now \in {<<>>, fr, all} PROVE InOrder(x..air, now, rest, data)
    OBVIOUS
  <2>1. Rising(now) /\ Oks(now) \subseteq Oks(kept) \union Oks(fr)
    BY <1>7, <1>9, <1>10
  <2> QED
    BY <1>1, <1>2, <2>1, RestInOrder DEF fr
<1> HIDE DEF rest
<1>12. CASE P.aus = <<>> /\ Kept(P) \in {<<>>, fr, all}
  <2>1. H = Unheard(pad)
    <3> DEFINE aus == P.aus
               f == CHOOSE f : Hearings(f, pad, aus, Len(aus))
    <3>1. Handled(pad, aus) = f[Len(aus)]
      BY DEF Handled, Hearings, HeardNext, Hear, Unheard
    <3>2. Len(aus) = 0
      BY <1>12
    <3> HIDE DEF aus
    <3>3. Hearings(f, pad, aus, 0)
      <4>1. 0 \in Nat
        OBVIOUS
      <4> QED
        BY <3>2, <4>1, HearingsExist
    <3> HIDE DEF f
    <3>4. f[0] = Unheard(pad)
      BY <3>3 DEF Hearings
    <3> QED
      BY <3>1, <3>2, <3>4 DEF aus
  <2>2. H.heard = {} /\ H = HeardInOrder(pad, {})
    BY <1>3, <2>1, RunNone DEF Unheard
  <2>3. heard \union H.heard = heard
    BY <2>2
  <2>4. InOrder(x..air, Kept(P), rest, data)
    BY <1>11, <1>12
  <2> HIDE DEF H
  <2>5. HandsOn(P, H, rest, data)
    BY <1>2, <2>2, <2>3, <2>4 DEF HandsOn
  <2> QED
    BY <2>5 DEF H, P, p, fr, rest, data
<1>13. CASE /\ p.count = 4 /\ p.sync /\ Kept(P) = <<>>
            /\ P.aus = AccessUnits([data |-> p.data \o fr, starts |-> p.starts])
  <2>1. /\ StartsOk(p.starts) /\ Len(p.data) = 4 * FrameSize /\ kept = p.data
    BY <1>1, <1>13 DEF SuperOk, Kept, kept, p
  <2>2. all = p.data \o fr /\ Len(all) = 5 * FrameSize
    <3>1. Len(all) = Len(kept) + Len(fr)
      BY <1>5, <1>6, ConcatProperties DEF all
    <3>2. FrameSize \in Nat
      BY FramesAssumption
    <3> QED
      BY <1>5, <2>1, <3>1, <3>2 DEF all
  <2>3. P.aus = AccessUnits([data |-> all, starts |-> p.starts])
    BY <1>13, <2>2
  <2>4. \A q \in Oks(all) : x <= q
    BY <1>7, <1>9
  <2>5. \E to : Handed(pad, heard, x, all, to, H)
    <3> DEFINE starts == p.starts
    <3> HIDE DEF starts
    <3>1. \E to : Handed(pad, heard, x, all, to,
                         Handled(pad, AccessUnits([data |-> all, starts |-> starts])))
      BY <1>1, <1>2, <1>9, <2>1, <2>2, <2>4, HandledInOrder DEF n, starts
    <3> QED
      BY <2>3, <3>1 DEF starts
  <2> HIDE DEF H
  <2>6. PICK z \in Nat : /\ x <= z /\ (z = x \/ z - 1 \in Oks(all))
                         /\ Behind(heard \union H.heard, z)
    BY <2>5 DEF Handed
  <2>7. InOrder(z..air, <<>>, rest, data) /\ z <= air + 1
    <3>1. InOrder(x..air, all, rest, data)
      BY <1>11
    <3> QED
      BY <1>1, <1>2, <2>6, <3>1, RaiseInOrder
  <2>8. /\ H.heard \subseteq 1..Len(station) /\ H = HeardInOrder(pad, H.heard)
        /\ \A i \in H.heard : \A j \in heard : j < i
    BY <2>5 DEF Handed
  <2>9. HandsOn(P, H, rest, data)
    BY <1>13, <2>6, <2>7, <2>8 DEF HandsOn
  <2> QED
    BY <2>9 DEF H, P, p, fr, rest, data
<1> QED
  BY <1>8, <1>12, <1>13

LEMMA ProcessFrameInOrder ==
  ASSUME OrderInv, ProcessFrame
  PROVE  OrderInv' /\ [HearPads(heard' \ heard)]_deliveryVars
<1> DEFINE P == ProcessData(super, Head(queue))
           H == Handled(pad, P.aus)
           new == heard' \ heard
<1>1. /\ queue # <<>> /\ queue' = Tail(queue) /\ super' = P /\ Record(H)
      /\ UNCHANGED <<station, air, sync>>
  BY DEF ProcessFrame
<1>2. HandsOn(P, H, Tail(queue), sync.data)
  BY <1>1, FrameHandsOn
<1>3. ProgrammeInv'
  BY ProcessFrameKeeps DEF OrderInv
<1>4. heard' = heard \union H.heard
  BY <1>1 DEF Record
<1> HIDE DEF P, H
<1>5. OrderInv'
  <2>1. PICK z \in Nat : /\ z <= air + 1 /\ Behind(heard \union H.heard, z)
                         /\ InOrder(z..air, Kept(P), Tail(queue), sync.data)
    BY <1>2 DEF HandsOn
  <2>2. /\ z <= air' + 1 /\ Behind(heard', z)
        /\ InOrder(z..air', Kept(super'), queue', sync'.data)
    BY <1>1, <1>4, <2>1
  <2> QED
    BY <1>3, <2>2 DEF OrderInv
<1>6. new = H.heard
  <2>1. \A i \in H.heard : i \in Int /\ \A j \in heard : j < i
    BY <1>2 DEF HandsOn
  <2>2. \A i \in H.heard : i \notin heard
    <3> SUFFICES ASSUME NEW i \in H.heard, i \in heard PROVE FALSE
      OBVIOUS
    <3>1. i \in Int /\ i < i
      BY <2>1
    <3> QED
      BY <3>1
  <2> QED
    BY <1>4, <2>2
<1> HIDE DEF new
<1>7. new \subseteq 1..Len(station) /\ (\A i \in new, j \in heard : j < i)
      /\ H = HeardInOrder(pad, new)
  BY <1>2, <1>6 DEF HandsOn
<1>8. CASE new # {}
  <2>1. HearPads(new)
    BY <1>1, <1>7, <1>8 DEF HearPads
  <2> QED
    BY <1>5, <2>1 DEF new
<1>9. CASE new = {}
  <2>1. H = Unheard(pad)
    BY <1>7, <1>9, RunNone, StationAssumption
  <2>2. UNCHANGED deliveryVars
    BY <1>1, <2>1 DEF Record, Unheard, deliveryVars
  <2> QED
    BY <1>5, <2>2
<1> QED
  BY <1>8, <1>9

LEMMA OrderStays ==
  ASSUME OrderInv, [Next]_vars
  PROVE  OrderInv' /\ [HearPads(heard' \ heard)]_deliveryVars
<1>1. CASE ProcessFrame
  BY <1>1, ProcessFrameInOrder
<1>2. CASE Receive \/ Lose \/ Damage \/ Silence \/ Chance
  <2>1. OrderInv'
    BY <1>2, ReceiveInOrder, LoseInOrder, DamageInOrder, SilenceInOrder, ChanceInOrder
  <2>2. \E units : Input(units)
    BY <1>2 DEF Receive, Lose, Damage, Silence, Chance, Faulty
  <2>3. UNCHANGED deliveryVars
    BY <2>2 DEF Input
  <2> QED
    BY <2>1, <2>3
<1>3. CASE UNCHANGED vars
  BY <1>3 DEF vars, deliveryVars, OrderInv, ProgrammeInv, SuperFrames, Rooms
<1> QED
  BY <1>1, <1>2, <1>3 DEF Next

LEMMA OrderAlways == Spec => []OrderInv
BY OrderBegins, OrderStays, PTL DEF Spec

(* synchronizeData, processData: whatever is lost, damaged or forged, and    *)
(* wherever reception begins, the PAD decoder gets PADs of the station in    *)
(* the order in which they were sent, none of them twice and each as it was.  *)
THEOREM PadsInOrder == Spec => PadsDelivered
<1>1. Init => DeliveryInit
  BY DEF Init
<1>2. OrderInv /\ [Next]_vars => [HearPads(heard' \ heard)]_deliveryVars
  BY OrderStays
<1> QED
  BY <1>1, <1>2, OrderAlways, PTL DEF Spec, PadsDelivered
=============================================================================
