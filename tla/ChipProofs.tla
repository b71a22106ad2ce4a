------------------------------ MODULE ChipProofs ------------------------------
(***************************************************************************)
(* The chip is as the last calls left it, whenever no routine is under way, *)
(* for every channel, subchannel and number of calls: the registers of the  *)
(* tuning always, those of reception when the threads do not use the chip   *)
(* at the same time.                                                        *)
(*                                                                         *)
(* A register is reached by a page that an earlier access has selected, so  *)
(* what a routine does is known only for its accesses in their order:       *)
(* Reaches says that a sequence takes the chip from one page and one        *)
(* content of the registers to others.  Sequences that are joined are       *)
(* followed one behind the other (ReachesJoin), and the first access of one *)
(* leaves what the rest still does (ReachesStep).  With these, every        *)
(* routine is followed once, from any page and any registers: those that    *)
(* pass every tracked register by, those that spare the registers of the    *)
(* subchannels, those that leave the FIC and the MSC memory set up.         *)
(*                                                                         *)
(* There are two invariants.  ChipInv says that at most one thread has      *)
(* accesses left, and that these lead to registers that are as the history  *)
(* variables say.  RowsInv allows two threads: what they do beside each     *)
(* other touches no register of the tuning on whichever page it lands.      *)
(***************************************************************************)
EXTENDS ChipAccess, SequenceTheorems, TLAPS

(* The pages, and what an access may be: a page is selected by a write to  *)
(* register 3.                                                             *)
Pages == {COMM, FM, HOST, DD, FIC, MSC1, RF}

Selects(a) == a.op = "set" /\ a.reg = 3

Accesses ==
  {a \in [op : {"set", "get", "bulk", "raw"}, reg : 0..255, val : 0..255] :
     Selects(a) => a.val \in Pages}

RegMap == [Tracked -> -1..255]

(* The page and the registers after an access.                             *)
After(a, p) == IF Selects(a) THEN a.val ELSE p

Stored(a, p, m) ==
  IF a.op = "set" /\ a.reg # 3 /\ <<p, a.reg>> \in Tracked
  THEN [m EXCEPT ![<<p, a.reg>>] = a.val] ELSE m

(* The accesses s take the chip from page p and registers m to page q and  *)
(* registers n.                                                            *)
Reaches(p, m, s, q, n) ==
  /\ s \in Seq(Accesses)
  /\ \E f \in [0..Len(s) -> Pages], g \in [0..Len(s) -> RegMap] :
       /\ f[0] = p /\ g[0] = m
       /\ f[Len(s)] = q /\ g[Len(s)] = n
       /\ \A i \in 1..Len(s) : /\ f[i] = After(s[i], f[i - 1])
                               /\ g[i] = Stored(s[i], f[i - 1], g[i - 1])

LEMMA ReachesTypes ==
  ASSUME NEW p, NEW m, NEW s, NEW q, NEW n, Reaches(p, m, s, q, n)
  PROVE  /\ s \in Seq(Accesses) /\ Len(s) \in Nat
         /\ p \in Pages /\ q \in Pages /\ m \in RegMap /\ n \in RegMap
  <1>1. s \in Seq(Accesses) /\ Len(s) \in Nat
    BY LenProperties DEF Reaches
  <1>. QED  BY <1>1 DEF Reaches

LEMMA ReachesNone ==
  ASSUME NEW p \in Pages, NEW m \in RegMap
  PROVE  Reaches(p, m, <<>>, p, m)
  <1>1. <<>> \in Seq(Accesses) /\ Len(<<>>) = 0
    BY EmptySeq
  <1>. DEFINE f == [i \in 0..0 |-> p]
              g == [i \in 0..0 |-> m]
  <1>2. f \in [0..0 -> Pages] /\ g \in [0..0 -> RegMap] /\ f[0] = p /\ g[0] = m
    OBVIOUS
  <1>. HIDE DEF f, g
  <1>. QED  BY <1>1, <1>2 DEF Reaches

LEMMA ReachesEnd ==
  ASSUME NEW p, NEW m, NEW q, NEW n, Reaches(p, m, <<>>, q, n)
  PROVE  p = q /\ m = n
  BY EmptySeq DEF Reaches

LEMMA ReachesStep ==
  ASSUME NEW p, NEW m, NEW s, NEW q, NEW n, Reaches(p, m, s, q, n), s # <<>>
  PROVE  /\ Head(s) \in Accesses
         /\ Reaches(After(Head(s), p), Stored(Head(s), p, m), Tail(s), q, n)
  <1>1. PICK f \in [0..Len(s) -> Pages], g \in [0..Len(s) -> RegMap] :
           /\ f[0] = p /\ g[0] = m
           /\ f[Len(s)] = q /\ g[Len(s)] = n
           /\ \A i \in 1..Len(s) : /\ f[i] = After(s[i], f[i - 1])
                                   /\ g[i] = Stored(s[i], f[i - 1], g[i - 1])
    BY DEF Reaches
  <1>2. /\ s \in Seq(Accesses) /\ Len(s) \in Nat \ {0}
        /\ Head(s) \in Accesses /\ Head(s) = s[1]
        /\ Tail(s) \in Seq(Accesses) /\ Len(Tail(s)) = Len(s) - 1
        /\ \A i \in 1..Len(Tail(s)) : Tail(s)[i] = s[i + 1]
    BY HeadTailProperties, EmptySeq DEF Reaches
  <1>. DEFINE f2 == [i \in 0..Len(Tail(s)) |-> f[i + 1]]
              g2 == [i \in 0..Len(Tail(s)) |-> g[i + 1]]
  <1>3. f2 \in [0..Len(Tail(s)) -> Pages] /\ g2 \in [0..Len(Tail(s)) -> RegMap]
    BY <1>2
  <1>4. f2[0] = After(Head(s), p) /\ g2[0] = Stored(Head(s), p, m)
    BY <1>1, <1>2
  <1>5. f2[Len(Tail(s))] = q /\ g2[Len(Tail(s))] = n
    BY <1>1, <1>2
  <1>6. ASSUME NEW i \in 1..Len(Tail(s))
        PROVE  /\ f2[i] = After(Tail(s)[i], f2[i - 1])
               /\ g2[i] = Stored(Tail(s)[i], f2[i - 1], g2[i - 1])
    <2>1. i + 1 \in 1..Len(s) /\ (i + 1) - 1 = i
      BY <1>2
    <2>2. f2[i] = f[i + 1] /\ f2[i - 1] = f[i] /\ g2[i] = g[i + 1] /\ g2[i - 1] = g[i]
      BY <1>2
    <2>. HIDE DEF f2, g2
    <2>. QED  BY <1>1, <1>2, <2>1, <2>2
  <1>. HIDE DEF f2, g2
  <1>. QED  BY <1>2, <1>3, <1>4, <1>5, <1>6 DEF Reaches

LEMMA ReachesJoin ==
  ASSUME NEW p, NEW m, NEW s, NEW q, NEW n, NEW t, NEW o, NEW k,
         Reaches(p, m, s, q, n), Reaches(q, n, t, o, k)
  PROVE  Reaches(p, m, s \o t, o, k)
  <1>1. PICK f \in [0..Len(s) -> Pages], g \in [0..Len(s) -> RegMap] :
           /\ f[0] = p /\ g[0] = m
           /\ f[Len(s)] = q /\ g[Len(s)] = n
           /\ \A i \in 1..Len(s) : /\ f[i] = After(s[i], f[i - 1])
                                   /\ g[i] = Stored(s[i], f[i - 1], g[i - 1])
    BY DEF Reaches
  <1>2. PICK f2 \in [0..Len(t) -> Pages], g2 \in [0..Len(t) -> RegMap] :
           /\ f2[0] = q /\ g2[0] = n
           /\ f2[Len(t)] = o /\ g2[Len(t)] = k
           /\ \A i \in 1..Len(t) : /\ f2[i] = After(t[i], f2[i - 1])
                                   /\ g2[i] = Stored(t[i], f2[i - 1], g2[i - 1])
    BY DEF Reaches
  <1>3. /\ s \in Seq(Accesses) /\ Len(s) \in Nat
        /\ t \in Seq(Accesses) /\ Len(t) \in Nat
    BY ReachesTypes
  <1>4. /\ s \o t \in Seq(Accesses)
        /\ Len(s \o t) = Len(s) + Len(t)
        /\ \A i \in 1..(Len(s) + Len(t)) :
             (s \o t)[i] = IF i <= Len(s) THEN s[i] ELSE t[i - Len(s)]
    BY <1>3, ConcatProperties
  <1>. DEFINE f3 == [i \in 0..(Len(s) + Len(t)) |->
                       IF i <= Len(s) THEN f[i] ELSE f2[i - Len(s)]]
              g3 == [i \in 0..(Len(s) + Len(t)) |->
                       IF i <= Len(s) THEN g[i] ELSE g2[i - Len(s)]]
  <1>5. f3 \in [0..Len(s \o t) -> Pages] /\ g3 \in [0..Len(s \o t) -> RegMap]
    BY <1>3, <1>4
  <1>a. f3[0] = p /\ g3[0] = m
    BY <1>1, <1>3
  <1>b. f3[Len(s) + Len(t)] = o /\ g3[Len(s) + Len(t)] = k
    <2>1. CASE Len(t) = 0
      <3>1. o = q /\ k = n
        BY <1>2, <2>1
      <3>2. f3[Len(s) + Len(t)] = f[Len(s)] /\ g3[Len(s) + Len(t)] = g[Len(s)]
        BY <2>1, <1>3
      <3>. QED  BY <3>1, <3>2, <1>1
    <2>2. CASE Len(t) > 0
      <3>1. /\ f3[Len(s) + Len(t)] = f2[Len(t)]
            /\ g3[Len(s) + Len(t)] = g2[Len(t)]
        BY <2>2, <1>3
      <3>. QED  BY <3>1, <1>2
    <2>. QED  BY <2>1, <2>2, <1>3
  <1>6. f3[Len(s \o t)] = o /\ g3[Len(s \o t)] = k
    BY <1>b, <1>4
  <1>7. ASSUME NEW i \in 1..Len(s \o t)
        PROVE  /\ f3[i] = After((s \o t)[i], f3[i - 1])
               /\ g3[i] = Stored((s \o t)[i], f3[i - 1], g3[i - 1])
    <2>1. CASE i <= Len(s)
      <3>1. f3[i] = f[i] /\ f3[i - 1] = f[i - 1] /\ g3[i] = g[i] /\ g3[i - 1] = g[i - 1]
        BY <2>1, <1>3, <1>4
      <3>2. (s \o t)[i] = s[i] /\ i \in 1..Len(s)
        BY <2>1, <1>3, <1>4
      <3>. HIDE DEF f3, g3
      <3>. QED  BY <1>1, <3>1, <3>2
    <2>2. CASE i > Len(s)
      <3>. DEFINE j == i - Len(s)
      <3>1. j \in 1..Len(t) /\ (s \o t)[i] = t[j]
        BY <2>2, <1>3, <1>4
      <3>2. f3[i] = f2[j] /\ g3[i] = g2[j]
        BY <2>2, <1>3, <1>4
      <3>3. f3[i - 1] = f2[j - 1] /\ g3[i - 1] = g2[j - 1]
        <4>1. ASSUME j = 1 PROVE f3[i - 1] = f2[j - 1] /\ g3[i - 1] = g2[j - 1]
          <5>1. i - 1 = Len(s) /\ j - 1 = 0
            BY <4>1, <1>3, <1>4
          <5>2. f3[Len(s)] = f[Len(s)] /\ g3[Len(s)] = g[Len(s)]
            BY <1>3
          <5>. HIDE DEF f3, g3
          <5>. QED  BY <5>1, <5>2, <1>1, <1>2
        <4>2. ASSUME j # 1 PROVE f3[i - 1] = f2[j - 1] /\ g3[i - 1] = g2[j - 1]
          BY <4>2, <3>1, <1>3, <1>4
        <4>. QED  BY <4>1, <4>2
      <3>. HIDE DEF f3, g3, j
      <3>. QED  BY <1>2, <3>1, <3>2, <3>3
    <2>. QED  BY <2>1, <2>2, <1>3, <1>4
  <1>. HIDE DEF f3, g3
  <1>. QED  BY <1>4, <1>5, <1>a, <1>6, <1>7 DEF Reaches

(* Accesses that on page q change no tracked register, and what the        *)
(* registers are after several that follow each other.                     *)
Calm(b, q) ==
  /\ b \in Seq(Accesses)
  /\ \A i \in 1..Len(b) :
       b[i].op = "set" => b[i].reg # 3 /\ <<q, b[i].reg>> \notin Tracked

Filled(m, q, first, vals) ==
  [x \in Tracked |-> IF x[1] = q /\ x[2] - first + 1 \in 1..Len(vals)
                     THEN vals[x[2] - first + 1] ELSE m[x]]

LEMMA ReachesCalm ==
  ASSUME NEW q \in Pages, NEW m \in RegMap, NEW b, Calm(b, q)
  PROVE  Reaches(q, m, b, q, m)
  <1>1. b \in Seq(Accesses) /\ Len(b) \in Nat
    BY LenProperties DEF Calm
  <1>. DEFINE f == [i \in 0..Len(b) |-> q]
              g == [i \in 0..Len(b) |-> m]
  <1>2. f \in [0..Len(b) -> Pages] /\ g \in [0..Len(b) -> RegMap]
    OBVIOUS
  <1>3. f[0] = q /\ g[0] = m /\ f[Len(b)] = q /\ g[Len(b)] = m
    BY <1>1
  <1>4. ASSUME NEW i \in 1..Len(b)
        PROVE  f[i] = After(b[i], f[i - 1]) /\ g[i] = Stored(b[i], f[i - 1], g[i - 1])
    <2>1. f[i] = q /\ f[i - 1] = q /\ g[i] = m /\ g[i - 1] = m
      BY <1>1
    <2>. HIDE DEF f, g
    <2>. QED  BY <2>1 DEF Calm, After, Stored, Selects
  <1>. HIDE DEF f, g
  <1>. QED  BY <1>1, <1>2, <1>3, <1>4 DEF Reaches

LEMMA PageSeq ==
  ASSUME NEW q \in Pages
  PROVE  /\ Page(q) \in Seq(Accesses) /\ Len(Page(q)) = 1
         /\ Page(q)[1] = [op |-> "set", reg |-> 3, val |-> q]
  <1>1. [op |-> "set", reg |-> 3, val |-> q] \in Accesses
    BY DEF Accesses, Pages, COMM, FM, HOST, DD, FIC, MSC1, RF, Selects
  <1>. QED  BY <1>1 DEF Page, Access

LEMMA ReachesPage ==
  ASSUME NEW p \in Pages, NEW m \in RegMap, NEW q \in Pages
  PROVE  Reaches(p, m, Page(q), q, m)
  <1>. DEFINE f == [i \in 0..1 |-> IF i = 0 THEN p ELSE q]
              g == [i \in 0..1 |-> m]
  <1>1. f \in [0..1 -> Pages] /\ g \in [0..1 -> RegMap]
    OBVIOUS
  <1>2. f[0] = p /\ g[0] = m /\ f[1] = q /\ g[1] = m
    OBVIOUS
  <1>. HIDE DEF f, g
  <1>3. f[1] = After(Page(q)[1], f[0]) /\ g[1] = Stored(Page(q)[1], f[0], g[0])
    <2>. DEFINE a == [op |-> "set", reg |-> 3, val |-> q]
    <2>1. a.op = "set" /\ a.reg = 3 /\ a.val = q
      OBVIOUS
    <2>2. Page(q)[1] = a
      BY PageSeq
    <2>. HIDE DEF a
    <2>. QED  BY <1>2, <2>1, <2>2 DEF After, Stored, Selects
  <1>4. \A i \in 1..1 : /\ f[i] = After(Page(q)[i], f[i - 1])
                        /\ g[i] = Stored(Page(q)[i], f[i - 1], g[i - 1])
    <2>1. \A i \in 1..1 : i = 1 /\ i - 1 = 0
      OBVIOUS
    <2>. QED  BY <1>3, <2>1
  <1>. QED  BY <1>1, <1>2, <1>4, PageSeq DEF Reaches

Byte == 0..255

LEMMA TrackedPairs ==
  /\ \A x \in Tracked : x[1] \in Pages /\ x[2] \in Byte \ {3} /\ x = <<x[1], x[2]>>
  /\ <<DD, \h46>> \in Tracked /\ <<DD, \h3A>> \in Tracked /\ <<DD, \h48>> \in Tracked
  /\ <<COMM, \h6A>> \in Tracked
  /\ \A i \in 1..7 : <<RF, \hE8 + i - 1>> \in Tracked
  /\ \A i \in 1..4 : <<RF, \h23 + i - 1>> \in Tracked
  /\ \A i \in 1..8 : <<FM, \h3C + i - 1>> \in Tracked
  BY SMT DEF Tracked, Pages, Byte, COMM, FM, HOST, DD, FIC, MSC1, RF

LEMMA TrackedPair ==
  ASSUME NEW x \in Tracked
  PROVE  x[1] \in Pages /\ x[2] \in Nat /\ x[2] \in 0..255 /\ x[2] # 3 /\ x = <<x[1], x[2]>>
  BY TrackedPairs DEF Byte

LEMMA FillSeq ==
  ASSUME NEW first \in 4..255, NEW vals \in Seq(Byte), first + Len(vals) <= 256
  PROVE  /\ Fill(first, vals) \in Seq(Accesses)
         /\ Len(Fill(first, vals)) = Len(vals)
         /\ \A i \in 1..Len(vals) :
              Fill(first, vals)[i] = [op |-> "set", reg |-> first + i - 1, val |-> vals[i]]
  <1>1. Len(vals) \in Nat
    BY LenProperties
  <1>2. \A i \in 1..Len(vals) : Set(first + i - 1, vals[i])[1]
                        = [op |-> "set", reg |-> first + i - 1, val |-> vals[i]]
    BY DEF Set, Access
  <1>3. \A i \in 1..Len(vals) :
          [op |-> "set", reg |-> first + i - 1, val |-> vals[i]] \in Accesses
    <2>. SUFFICES ASSUME NEW i \in 1..Len(vals)
                  PROVE  [op |-> "set", reg |-> first + i - 1, val |-> vals[i]] \in Accesses
      OBVIOUS
    <2>1. first + i - 1 \in 4..255 /\ vals[i] \in 0..255
      BY <1>1, ElementOfSeq DEF Byte
    <2>. QED  BY <2>1 DEF Accesses, Selects
  <1>. DEFINE F == [i \in 1..Len(vals) |-> Set(first + i - 1, vals[i])[1]]
  <1>4. F \in [1..Len(vals) -> Accesses]
    BY <1>2, <1>3
  <1>5. F \in Seq(Accesses) /\ Len(F) = Len(vals)
    <2>. HIDE DEF F
    <2>. QED  BY <1>1, <1>4
  <1>. QED  BY <1>2, <1>5 DEF Fill

LEMMA ReachesFill ==
  ASSUME NEW q \in Pages, NEW m \in RegMap,
         NEW first \in 4..255, NEW vals \in Seq(Byte), first + Len(vals) <= 256
  PROVE  Reaches(q, m, Fill(first, vals), q, Filled(m, q, first, vals))
  <1>. DEFINE b == Fill(first, vals)
              L == Len(vals)
              f == [i \in 0..L |-> q]
              G(i) == [x \in Tracked |-> IF x[1] = q /\ x[2] - first + 1 \in 1..i
                                         THEN vals[x[2] - first + 1] ELSE m[x]]
              g == [i \in 0..L |-> G(i)]
  <1>1. L \in Nat /\ b \in Seq(Accesses) /\ Len(b) = L
    BY LenProperties, FillSeq
  <1>2. ASSUME NEW i \in 0..L PROVE G(i) \in RegMap
    <2>. SUFFICES ASSUME NEW x \in Tracked
                  PROVE  G(i)[x] \in -1..255
      BY DEF RegMap
    <2>1. CASE x[1] = q /\ x[2] - first + 1 \in 1..i
      <3>1. x[2] - first + 1 \in 1..Len(vals)
        BY <2>1, <1>1
      <3>2. vals[x[2] - first + 1] \in Byte
        BY <3>1, ElementOfSeq
      <3>. QED  BY <2>1, <3>2 DEF Byte
    <2>2. CASE ~(x[1] = q /\ x[2] - first + 1 \in 1..i)
      BY <2>2 DEF RegMap
    <2>. QED  BY <2>1, <2>2
  <1>3. f \in [0..L -> Pages] /\ g \in [0..L -> RegMap]
    BY <1>2
  <1>4. f[0] = q /\ f[L] = q /\ g[L] = Filled(m, q, first, vals)
    BY <1>1 DEF Filled
  <1>5. g[0] = m
    BY <1>1 DEF RegMap
  <1>6. ASSUME NEW i \in 1..L
        PROVE  f[i] = After(b[i], f[i - 1]) /\ g[i] = Stored(b[i], f[i - 1], g[i - 1])
    <2>1. f[i] = q /\ f[i - 1] = q /\ g[i] = G(i) /\ g[i - 1] = G(i - 1)
      <3>. HIDE DEF G, b, L
      <3>. QED  BY <1>1
    <2>. DEFINE a == [op |-> "set", reg |-> first + i - 1, val |-> vals[i]]
    <2>a. a.op = "set" /\ a.reg = first + i - 1 /\ a.val = vals[i]
      OBVIOUS
    <2>b. b[i] = a
      BY FillSeq
    <2>2. /\ b[i].op = "set" /\ b[i].reg = first + i - 1 /\ b[i].val = vals[i]
          /\ b[i].reg # 3
      <3>. HIDE DEF a, b
      <3>. QED  BY <2>a, <2>b
    <2>3. After(b[i], q) = q
      BY <2>2 DEF After, Selects
    <2>3a. /\ vals[first + i - 1 - first + 1] = vals[i]
           /\ first + i - 1 - first + 1 = i /\ i \in 1..i /\ i \notin 1..(i - 1)
      BY <1>1
    <2>3b. ASSUME NEW x \in Tracked, x # <<q, first + i - 1>>
           PROVE  G(i)[x] = G(i - 1)[x]
      <3>1. x[2] \in Nat /\ x = <<x[1], x[2]>>
        BY TrackedPair
      <3>2. x[1] = q => x[2] # first + i - 1
        BY <3>1, <2>3b
      <3>. DEFINE k == x[2] - first + 1
      <3>4. i \in Int /\ first \in Int
        BY <1>1
      <3>3. x[1] = q => k \in Int /\ k # i
        BY <3>1, <3>2, <3>4
      <3>5. x[1] = q => (k \in 1..i <=> k \in 1..(i - 1))
        <4>. HIDE DEF k
        <4>. QED  BY <3>3, <3>4
      <3>. QED  BY <3>5
    <2>4. ASSUME <<q, first + i - 1>> \in Tracked
          PROVE  G(i) = [G(i - 1) EXCEPT ![<<q, first + i - 1>>] = vals[i]]
      <3>. DEFINE y == <<q, first + i - 1>>
      <3>1. y[1] = q /\ y[2] = first + i - 1 /\ y \in Tracked
        BY <2>4
      <3>. HIDE DEF y
      <3>2. G(i)[y] = vals[i]
        <4>1. y[2] - first + 1 = i
          BY <3>1, <2>3a
        <4>. QED  BY <3>1, <4>1, <2>3a
      <3>3. \A x \in Tracked : x # y => G(i)[x] = G(i - 1)[x]
        BY <2>3b DEF y
      <3>4. G(i) = [x \in Tracked |-> G(i)[x]] /\ G(i - 1) = [x \in Tracked |-> G(i - 1)[x]]
        OBVIOUS
      <3>. HIDE DEF G
      <3>5. G(i) = [G(i - 1) EXCEPT ![y] = vals[i]]
        BY <3>1, <3>2, <3>3, <3>4
      <3>. QED  BY <3>5 DEF y
    <2>5. ASSUME <<q, first + i - 1>> \notin Tracked
          PROVE  G(i) = G(i - 1)
      <3>1. \A x \in Tracked : G(i)[x] = G(i - 1)[x]
        BY <2>3b, <2>5
      <3>2. G(i) = [x \in Tracked |-> G(i)[x]] /\ G(i - 1) = [x \in Tracked |-> G(i - 1)[x]]
        OBVIOUS
      <3>. HIDE DEF G
      <3>. QED  BY <3>1, <3>2
    <2>6. Stored(b[i], q, G(i - 1)) = G(i)
      <3>. HIDE DEF G, b
      <3>. QED  BY <2>2, <2>4, <2>5 DEF Stored
    <2>. HIDE DEF f, g, G, b
    <2>. QED  BY <2>1, <2>3, <2>6
  <1>. HIDE DEF f, g, G, b
  <1>7. \A i \in 1..Len(b) : f[i] = After(b[i], f[i - 1]) /\ g[i] = Stored(b[i], f[i - 1], g[i - 1])
    BY <1>1, <1>6
  <1>8. Reaches(q, m, b, q, Filled(m, q, first, vals))
    BY <1>1, <1>3, <1>4, <1>5, <1>7, ZenonT(60) DEF Reaches
  <1>. QED  BY <1>8 DEF b

(* The chip's state behind a routine and one more piece of it.             *)
LEMMA ThenPage ==
  ASSUME NEW p, NEW m, NEW s, NEW q, NEW n, Reaches(p, m, s, q, n), NEW o \in Pages
  PROVE  Reaches(p, m, s \o Page(o), o, n)
  BY ReachesTypes, ReachesPage, ReachesJoin

LEMMA ThenCalm ==
  ASSUME NEW p, NEW m, NEW s, NEW q, NEW n, Reaches(p, m, s, q, n), NEW b, Calm(b, q)
  PROVE  Reaches(p, m, s \o b, q, n)
  BY ReachesTypes, ReachesCalm, ReachesJoin

LEMMA ThenFill ==
  ASSUME NEW p, NEW m, NEW s, NEW q, NEW n, Reaches(p, m, s, q, n),
         NEW first \in 4..255, NEW vals \in Seq(Byte), first + Len(vals) <= 256
  PROVE  Reaches(p, m, s \o Fill(first, vals), q, Filled(n, q, first, vals))
  BY ReachesTypes, ReachesFill, ReachesJoin

LEMMA SetIsFill ==
  ASSUME NEW r \in Byte, NEW v \in Byte
  PROVE  Set(r, v) = Fill(r, <<v>>) /\ <<v>> \in Seq(Byte) /\ Len(<<v>>) = 1
  <1>1. Len(<<v>>) = 1 /\ <<v>>[1] = v /\ <<v>> \in Seq(Byte)
    OBVIOUS
  <1>. DEFINE a == [op |-> "set", reg |-> r, val |-> v]
  <1>2. Set(r, v) = <<a>> /\ \A i \in 1..1 : Set(r + i - 1, <<v>>[i])[1] = a
    <2>1. \A i \in 1..1 : i = 1 /\ r + i - 1 = r
      BY DEF Byte
    <2>. QED  BY <1>1, <2>1 DEF Set, Access
  <1>. HIDE DEF a
  <1>3. <<a>> = [i \in 1..1 |-> a]
    OBVIOUS
  <1>. QED  BY <1>1, <1>2, <1>3 DEF Fill

(* What follows a Sets, a Gets, ... that changes no tracked register.      *)
LEMMA CalmSets ==
  ASSUME NEW q \in Pages, NEW rs \in Seq(Byte),
         \A i \in 1..Len(rs) : rs[i] # 3 /\ <<q, rs[i]>> \notin Tracked
  PROVE  Calm(Sets(rs), q)
  <1>1. Len(rs) \in Nat
    BY LenProperties
  <1>2. \A i \in 1..Len(rs) : Set(rs[i], 0)[1] = [op |-> "set", reg |-> rs[i], val |-> 0]
    BY DEF Set, Access
  <1>3. \A i \in 1..Len(rs) : [op |-> "set", reg |-> rs[i], val |-> 0] \in Accesses
    <2>. SUFFICES ASSUME NEW i \in 1..Len(rs)
                  PROVE  [op |-> "set", reg |-> rs[i], val |-> 0] \in Accesses
      OBVIOUS
    <2>1. rs[i] \in 0..255 /\ rs[i] # 3
      BY <1>1, ElementOfSeq DEF Byte
    <2>. QED  BY <2>1 DEF Accesses, Selects
  <1>. DEFINE F == [i \in 1..Len(rs) |-> Set(rs[i], 0)[1]]
  <1>4. F \in [1..Len(rs) -> Accesses]
    BY <1>2, <1>3
  <1>5. F \in Seq(Accesses) /\ Len(F) = Len(rs)
    <2>. HIDE DEF F
    <2>. QED  BY <1>1, <1>4
  <1>6. \A i \in 1..Len(rs) : F[i].reg = rs[i]
    <2>. SUFFICES ASSUME NEW i \in 1..Len(rs) PROVE F[i].reg = rs[i]
      OBVIOUS
    <2>. DEFINE a == [op |-> "set", reg |-> rs[i], val |-> 0]
    <2>1. F[i] = a
      BY <1>2
    <2>2. a.reg = rs[i]
      OBVIOUS
    <2>. HIDE DEF F, a
    <2>. QED  BY <2>1, <2>2
  <1>. HIDE DEF F
  <1>7. Calm(F, q)
    BY <1>5, <1>6 DEF Calm
  <1>. QED  BY <1>7 DEF Sets, F

LEMMA CalmQuiet ==
  ASSUME NEW q, NEW b \in Seq(Accesses), \A i \in 1..Len(b) : b[i].op # "set"
  PROVE  Calm(b, q)
  BY DEF Calm

LEMMA CalmOne ==
  ASSUME NEW q, NEW op \in {"get", "bulk", "raw"}, NEW r \in Byte
  PROVE  Calm(Access(op, r, 0), q)
  <1>. DEFINE a == [op |-> op, reg |-> r, val |-> 0]
  <1>1. a \in Accesses /\ a.op # "set"
    BY DEF Accesses, Selects, Byte
  <1>2. Access(op, r, 0) = <<a>>
    BY DEF Access
  <1>. HIDE DEF a
  <1>3. <<a>> \in Seq(Accesses) /\ Len(<<a>>) = 1 /\ \A i \in 1..1 : <<a>>[i].op # "set"
    BY <1>1
  <1>. QED  BY <1>2, <1>3, CalmQuiet

LEMMA CalmGets ==
  ASSUME NEW q, NEW rs \in Seq(Byte)
  PROVE  Calm(Gets(rs), q)
  <1>1. Len(rs) \in Nat
    BY LenProperties
  <1>2. \A i \in 1..Len(rs) : Get(rs[i])[1] = [op |-> "get", reg |-> rs[i], val |-> 0]
    BY DEF Get, Access
  <1>3. \A i \in 1..Len(rs) : /\ [op |-> "get", reg |-> rs[i], val |-> 0] \in Accesses
                              /\ [op |-> "get", reg |-> rs[i], val |-> 0].op # "set"
    <2>. SUFFICES ASSUME NEW i \in 1..Len(rs)
                  PROVE  [op |-> "get", reg |-> rs[i], val |-> 0] \in Accesses
      OBVIOUS
    <2>1. rs[i] \in 0..255
      BY <1>1, ElementOfSeq DEF Byte
    <2>. QED  BY <2>1 DEF Accesses, Selects
  <1>. DEFINE F == [i \in 1..Len(rs) |-> Get(rs[i])[1]]
  <1>4. F \in [1..Len(rs) -> Accesses] /\ \A i \in 1..Len(rs) : F[i].op # "set"
    BY <1>2, <1>3
  <1>. HIDE DEF F
  <1>5. F \in Seq(Accesses) /\ Len(F) = Len(rs)
    BY <1>1, <1>4
  <1>6. Calm(F, q)
    BY <1>4, <1>5, CalmQuiet
  <1>. QED  BY <1>6 DEF Gets, F

LEMMA TimesSeq ==
  ASSUME NEW b \in Seq(Accesses), NEW n \in Nat, Len(b) > 0
  PROVE  /\ Times(n, b) \in Seq(Accesses) /\ Len(Times(n, b)) = n * Len(b)
         /\ \A i \in 1..(n * Len(b)) : /\ ((i - 1) % Len(b)) + 1 \in 1..Len(b)
                                       /\ Times(n, b)[i] = b[((i - 1) % Len(b)) + 1]
  <1>1. Len(b) \in Nat \ {0} /\ \A i \in 1..Len(b) : b[i] \in Accesses
    BY LenProperties, ElementOfSeq
  <1>2. n * Len(b) \in Nat
    BY <1>1
  <1>3. \A i \in 1..(n * Len(b)) : ((i - 1) % Len(b)) + 1 \in 1..Len(b)
    <2>. SUFFICES ASSUME NEW i \in 1..(n * Len(b)) PROVE ((i - 1) % Len(b)) + 1 \in 1..Len(b)
      OBVIOUS
    <2>1. i - 1 \in Int
      BY <1>2
    <2>2. (i - 1) % Len(b) \in 0..(Len(b) - 1)
      BY <1>1, <2>1
    <2>. QED  BY <1>1, <2>2
  <1>. DEFINE N == n * Len(b)
              F == [i \in 1..N |-> b[((i - 1) % Len(b)) + 1]]
  <1>4. F \in [1..N -> Accesses]
    BY <1>1, <1>3
  <1>5. F \in Seq(Accesses) /\ Len(F) = N
    <2>. HIDE DEF F, N
    <2>1. N \in Nat
      BY <1>2 DEF N
    <2>. QED  BY <2>1, <1>4
  <1>. QED  BY <1>3, <1>5 DEF Times

LEMMA CalmTimes ==
  ASSUME NEW q, NEW b, Calm(b, q), NEW n \in Nat, Len(b) > 0
  PROVE  Calm(Times(n, b), q)
  <1>1. b \in Seq(Accesses)
    BY DEF Calm
  <1>2. ASSUME NEW i \in 1..Len(Times(n, b)), Times(n, b)[i].op = "set"
        PROVE  Times(n, b)[i].reg # 3 /\ <<q, Times(n, b)[i].reg>> \notin Tracked
    <2>0. i \in 1..(n * Len(b))
      BY <1>1, TimesSeq, Zenon
    <2>1. PICK j \in 1..Len(b) : Times(n, b)[i] = b[j]
      BY <1>1, <2>0, TimesSeq, Zenon
    <2>. QED  BY <1>2, <2>1 DEF Calm
  <1>. QED  BY <1>1, <1>2, TimesSeq DEF Calm

LEMMA ReachesOnPage ==
  ASSUME NEW p \in Pages, NEW m \in RegMap, NEW s \in Seq(Accesses), NEW q \in Pages,
         Len(s) > 0, Selects(s[1]), s[1].val = q,
         \A i \in 1..Len(s) : s[i].op = "set" =>
           IF s[i].reg = 3 THEN s[i].val = q ELSE <<q, s[i].reg>> \notin Tracked
  PROVE  Reaches(p, m, s, q, m)
  <1>1. Len(s) \in Nat \ {0}
    BY LenProperties
  <1>. DEFINE f == [i \in 0..Len(s) |-> IF i = 0 THEN p ELSE q]
              g == [i \in 0..Len(s) |-> m]
  <1>2. f \in [0..Len(s) -> Pages] /\ g \in [0..Len(s) -> RegMap]
    OBVIOUS
  <1>3. f[0] = p /\ g[0] = m /\ f[Len(s)] = q /\ g[Len(s)] = m
    BY <1>1
  <1>4. ASSUME NEW i \in 1..Len(s)
        PROVE  f[i] = After(s[i], f[i - 1]) /\ g[i] = Stored(s[i], f[i - 1], g[i - 1])
    <2>1. f[i] = q /\ g[i] = m /\ g[i - 1] = m /\ (i # 1 => f[i - 1] = q)
      BY <1>1
    <2>. HIDE DEF f, g
    <2>2. CASE i = 1
      BY <2>1, <2>2 DEF After, Stored, Selects
    <2>3. CASE i # 1
      BY <2>1, <2>3 DEF After, Stored, Selects
    <2>. QED  BY <2>2, <2>3
  <1>. HIDE DEF f, g
  <1>. QED  BY <1>1, <1>2, <1>3, <1>4 DEF Reaches

LEMMA CalmOn ==
  ASSUME NEW q \in Pages, NEW free \in SUBSET (4..255), NEW rs,
         \A r \in free : <<q, r>> \notin Tracked,
         rs \in Seq(Byte), \A i \in 1..Len(rs) : rs[i] \in free
  PROVE  Calm(Sets(rs), q)
  <1>1. ASSUME NEW i \in 1..Len(rs)
        PROVE  rs[i] # 3 /\ <<q, rs[i]>> \notin Tracked
    <2>1. rs[i] \in free
      OBVIOUS
    <2>2. \A r \in free : r \in 4..255 /\ r # 3
      OBVIOUS
    <2>. QED  BY <2>1, <2>2
  <1>. QED  BY <1>1, CalmSets

(* Registers of a page that are not tracked.                               *)
FreeRF   == {r \in 4..255 : (r < \h23 \/ r > \h26) /\ (r < \hE8 \/ r > \hEE)}
FreeFM   == {r \in 4..255 : r < \h3C \/ r > \h43}
FreeCOMM == {r \in 4..255 : r # \h6A}
FreeDD   == {r \in 4..255 : r # \h3A /\ r # \h46 /\ r # \h48}

LEMMA Untracked ==
  /\ \A r \in FreeRF : <<RF, r>> \notin Tracked
  /\ \A r \in FreeFM : <<FM, r>> \notin Tracked
  /\ \A r \in FreeCOMM : <<COMM, r>> \notin Tracked
  /\ \A r \in FreeDD : <<DD, r>> \notin Tracked
  /\ \A r \in 4..255 : <<HOST, r>> \notin Tracked
  <1>1. ASSUME NEW r \in FreeRF PROVE <<RF, r>> \notin Tracked
    BY SMT DEF FreeRF, Tracked, COMM, FM, HOST, DD, RF
  <1>2. ASSUME NEW r \in FreeFM PROVE <<FM, r>> \notin Tracked
    BY SMT DEF FreeFM, Tracked, COMM, FM, HOST, DD, RF
  <1>3. ASSUME NEW r \in FreeCOMM PROVE <<COMM, r>> \notin Tracked
    BY SMT DEF FreeCOMM, Tracked, COMM, FM, HOST, DD, RF
  <1>4. ASSUME NEW r \in FreeDD PROVE <<DD, r>> \notin Tracked
    BY SMT DEF FreeDD, Tracked, COMM, FM, HOST, DD, RF
  <1>5. ASSUME NEW r \in 4..255 PROVE <<HOST, r>> \notin Tracked
    BY SMT DEF Tracked, COMM, FM, HOST, DD, RF
  <1>. QED  BY <1>1, <1>2, <1>3, <1>4, <1>5

LEMMA CalmPages ==
  ASSUME NEW rs, rs \in Seq(Byte)
  PROVE  /\ (\A i \in 1..Len(rs) : rs[i] \in FreeRF) => Calm(Sets(rs), RF)
         /\ (\A i \in 1..Len(rs) : rs[i] \in FreeFM) => Calm(Sets(rs), FM)
         /\ (\A i \in 1..Len(rs) : rs[i] \in FreeCOMM) => Calm(Sets(rs), COMM)
         /\ (\A i \in 1..Len(rs) : rs[i] \in FreeDD) => Calm(Sets(rs), DD)
         /\ (\A i \in 1..Len(rs) : rs[i] \in 4..255) => Calm(Sets(rs), HOST)
  <1>1. /\ FreeRF \in SUBSET (4..255) /\ FreeFM \in SUBSET (4..255)
        /\ FreeCOMM \in SUBSET (4..255) /\ FreeDD \in SUBSET (4..255)
        /\ 4..255 \in SUBSET (4..255)
    BY DEF FreeRF, FreeFM, FreeCOMM, FreeDD
  <1>2. {RF, FM, COMM, DD, HOST} \subseteq Pages
    BY DEF Pages
  <1>4. (\A i \in 1..Len(rs) : rs[i] \in FreeRF) => Calm(Sets(rs), RF)
    BY <1>1, <1>2, Untracked, CalmOn
  <1>5. (\A i \in 1..Len(rs) : rs[i] \in FreeFM) => Calm(Sets(rs), FM)
    BY <1>1, <1>2, Untracked, CalmOn
  <1>6. (\A i \in 1..Len(rs) : rs[i] \in FreeCOMM) => Calm(Sets(rs), COMM)
    BY <1>1, <1>2, Untracked, CalmOn
  <1>7. (\A i \in 1..Len(rs) : rs[i] \in FreeDD) => Calm(Sets(rs), DD)
    BY <1>1, <1>2, Untracked, CalmOn
  <1>8. (\A i \in 1..Len(rs) : rs[i] \in 4..255) => Calm(Sets(rs), HOST)
    BY <1>1, <1>2, Untracked, CalmOn
  <1>. QED  BY <1>4, <1>5, <1>6, <1>7, <1>8

LEMMA CalmSet ==
  ASSUME NEW q \in Pages, NEW r \in 4..255, <<q, r>> \notin Tracked, NEW v \in Byte
  PROVE  Calm(Set(r, v), q)
  <1>. DEFINE a == [op |-> "set", reg |-> r, val |-> v]
  <1>1. a \in Accesses /\ a.reg = r
    BY DEF Accesses, Selects, Byte
  <1>2. Set(r, v) = <<a>>
    BY DEF Set, Access
  <1>. HIDE DEF a
  <1>3. <<a>> \in Seq(Accesses) /\ Len(<<a>>) = 1 /\ \A i \in 1..1 : <<a>>[i].reg = r
    BY <1>1
  <1>. QED  BY <1>2, <1>3 DEF Calm

LEMMA ThenSet ==
  ASSUME NEW p, NEW m, NEW s, NEW q, NEW n, Reaches(p, m, s, q, n),
         NEW r \in 4..255, NEW v \in Byte, <<q, r>> \in Tracked
  PROVE  Reaches(p, m, s \o Set(r, v), q, [n EXCEPT ![<<q, r>>] = v])
  <1>0. /\ r \in Byte /\ r + 1 <= 256
        /\ Set(r, v) = Fill(r, <<v>>) /\ <<v>> \in Seq(Byte) /\ Len(<<v>>) = 1
    <2>1. r \in Byte /\ r + 1 <= 256
      BY DEF Byte
    <2>. QED  BY <2>1, SetIsFill
  <1>1. Reaches(p, m, s \o Fill(r, <<v>>), q, Filled(n, q, r, <<v>>))
    BY <1>0, ThenFill
  <1>2. n \in RegMap
    BY ReachesTypes
  <1>3. Filled(n, q, r, <<v>>) = [n EXCEPT ![<<q, r>>] = v]
    <2>1. ASSUME NEW x \in Tracked
          PROVE  Filled(n, q, r, <<v>>)[x] = IF x = <<q, r>> THEN v ELSE n[x]
      <3>1. x[2] \in Nat /\ x = <<x[1], x[2]>>
        BY TrackedPair
      <3>2. Len(<<v>>) = 1 /\ <<v>>[1] = v
        OBVIOUS
      <3>3. x[2] - r + 1 \in 1..1 <=> x[2] = r
        BY <3>1
      <3>4. x[2] = r => x[2] - r + 1 = 1
        BY <3>1
      <3>. QED  BY <3>1, <3>2, <3>3, <3>4 DEF Filled
    <2>2. Filled(n, q, r, <<v>>) = [x \in Tracked |-> Filled(n, q, r, <<v>>)[x]]
      BY DEF Filled
    <2>. QED  BY <1>2, <2>1, <2>2 DEF RegMap
  <1>. QED  BY <1>0, <1>1, <1>3

LEMMA FilledOther ==
  ASSUME NEW m \in RegMap, NEW q, NEW first \in Nat, NEW vals \in Seq(Byte),
         NEW x \in Tracked, x[1] # q \/ x[2] \notin first..(first + Len(vals) - 1)
  PROVE  Filled(m, q, first, vals)[x] = m[x]
  <1>1. x[2] \in Nat /\ Len(vals) \in Nat
    BY TrackedPair, LenProperties
  <1>. QED  BY <1>1 DEF Filled


(* A routine that ends on page q and leaves every tracked register alone.  *)
Passes(s, q) == \A p \in Pages, m \in RegMap : Reaches(p, m, s, q, m)

LEMMA PassesPage == \A q \in Pages : Passes(Page(q), q)
  BY ReachesPage DEF Passes

LEMMA PassesCalm ==
  ASSUME NEW s, NEW q, Passes(s, q), NEW b, Calm(b, q)
  PROVE  Passes(s \o b, q)
  BY ThenCalm DEF Passes

LEMMA PassesJoin ==
  ASSUME NEW s, NEW q, Passes(s, q), NEW t, NEW o, Passes(t, o)
  PROVE  Passes(s \o t, o)
  <1>. SUFFICES ASSUME NEW p \in Pages, NEW m \in RegMap
                PROVE  Reaches(p, m, s \o t, o, m)
    BY DEF Passes
  <1>1. Reaches(p, m, s, q, m)
    BY DEF Passes
  <1>2. Reaches(q, m, t, o, m)
    BY <1>1, ReachesTypes DEF Passes
  <1>. QED  BY <1>1, <1>2, ReachesJoin

LEMMA Tables ==
  /\ \A t \in 0..3 : /\ Synthesiser[t + 1] \in Seq(Byte) /\ Len(Synthesiser[t + 1]) = 7
                     /\ Oscillator[t + 1] \in Seq(Byte) /\ Len(Oscillator[t + 1]) = 8
  /\ \A c \in Channels : /\ ClockType[c + 1] \in 0..3
                         /\ PllNF[c + 1] \in Nat
                         /\ Row(Frequency[c + 1]) = c
  <1>1. \A t \in 0..3 : Synthesiser[t + 1] \in Seq(Byte) /\ Len(Synthesiser[t + 1]) = 7
    <2>1. Synthesiser[1] \in Seq(Byte) /\ Len(Synthesiser[1]) = 7
      BY SMT DEF Synthesiser, Byte
    <2>2. Synthesiser[2] \in Seq(Byte) /\ Len(Synthesiser[2]) = 7
      BY SMT DEF Synthesiser, Byte
    <2>3. Synthesiser[3] \in Seq(Byte) /\ Len(Synthesiser[3]) = 7
      BY SMT DEF Synthesiser, Byte
    <2>4. Synthesiser[4] \in Seq(Byte) /\ Len(Synthesiser[4]) = 7
      BY SMT DEF Synthesiser, Byte
    <2>. QED  BY <2>1, <2>2, <2>3, <2>4, SMT
  <1>2. \A t \in 0..3 : Oscillator[t + 1] \in Seq(Byte) /\ Len(Oscillator[t + 1]) = 8
    <2>1. Oscillator[1] \in Seq(Byte) /\ Len(Oscillator[1]) = 8
      BY SMT DEF Oscillator, Byte
    <2>2. Oscillator[2] \in Seq(Byte) /\ Len(Oscillator[2]) = 8
      BY SMT DEF Oscillator, Byte
    <2>3. Oscillator[3] \in Seq(Byte) /\ Len(Oscillator[3]) = 8
      BY SMT DEF Oscillator, Byte
    <2>4. Oscillator[4] \in Seq(Byte) /\ Len(Oscillator[4]) = 8
      BY SMT DEF Oscillator, Byte
    <2>. QED  BY <2>1, <2>2, <2>3, <2>4, SMT
  <1>3. \A c \in Channels : ClockType[c + 1] \in 0..3
    BY SMT DEF Channels, ClockType
  <1>4. \A c \in Channels : PllNF[c + 1] \in Nat
    BY SMT DEF Channels, PllNF
  <1>5. \A c \in Channels : Row(Frequency[c + 1]) = c
    BY SMT DEF Channels, Row, Frequency
  <1>. QED  BY <1>1, <1>2, <1>3, <1>4, <1>5

LEMMA PowerUpPasses ==
  ASSUME NEW tries \in Nat \ {0}
  PROVE  Passes(PowerUp(tries), HOST)
  <1>. DEFINE b == Page(HOST) \o Set(\h7D, 6) \o Get(\h7D)
              x == [op |-> "set", reg |-> 3, val |-> HOST]
              y == [op |-> "set", reg |-> \h7D, val |-> 6]
              z == [op |-> "get", reg |-> \h7D, val |-> 0]
  <1>1. b = <<x>> \o <<y>> \o <<z>>
    BY DEF Page, Set, Get, Access
  <1>2. /\ x \in Accesses /\ y \in Accesses /\ z \in Accesses
        /\ Selects(x) /\ x.val = HOST
        /\ x.reg = 3 /\ y.reg = \h7D /\ z.op # "set"
    BY DEF Accesses, Selects, Pages, COMM, FM, HOST, DD, FIC, MSC1, RF
  <1>. HIDE DEF x, y, z
  <1>3. /\ b \in Seq(Accesses) /\ Len(b) = 3
        /\ b[1] = x /\ \A j \in 1..3 : b[j] \in {x, y, z}
    <2>. DEFINE X == <<x>>
                Y == <<y>>
                Z == <<z>>
                u == X \o Y
    <2>1. /\ X \in Seq(Accesses) /\ Len(X) = 1 /\ X[1] = x
          /\ Y \in Seq(Accesses) /\ Len(Y) = 1 /\ Y[1] = y
          /\ Z \in Seq(Accesses) /\ Len(Z) = 1 /\ Z[1] = z
      BY <1>2
    <2>. HIDE DEF X, Y, Z
    <2>2. u \in Seq(Accesses) /\ Len(u) = 2 /\ u[1] = x /\ u[2] = y
      BY <2>1, ConcatProperties
    <2>. HIDE DEF u
    <2>3. /\ u \o Z \in Seq(Accesses) /\ Len(u \o Z) = 3
          /\ (u \o Z)[1] = x /\ (u \o Z)[2] = y /\ (u \o Z)[3] = z
      BY <2>1, <2>2, ConcatProperties, SMTT(40)
    <2>4. b = u \o Z
      BY <1>1 DEF u, X, Y, Z
    <2>. HIDE DEF b
    <2>. QED  BY <2>3, <2>4
  <1>. HIDE DEF b
  <1>. DEFINE s == Times(tries, b)
  <1>4. /\ s \in Seq(Accesses) /\ Len(s) = tries * 3
        /\ \A i \in 1..(tries * 3) :
             ((i - 1) % 3) + 1 \in 1..3 /\ s[i] = b[((i - 1) % 3) + 1]
    <2>1. /\ s \in Seq(Accesses) /\ Len(s) = tries * Len(b)
          /\ \A i \in 1..(tries * Len(b)) :
               ((i - 1) % Len(b)) + 1 \in 1..Len(b) /\ s[i] = b[((i - 1) % Len(b)) + 1]
      <3>1. tries \in Nat /\ b \in Seq(Accesses) /\ Len(b) > 0
        BY <1>3
      <3>. QED  BY <3>1, TimesSeq
    <2>. HIDE DEF s
    <2>. QED  BY <1>3, <2>1, Zenon
  <1>c. \A i \in 1..(tries * 3) : s[i] \in {x, y, z}
    BY <1>3, <1>4, Zenon
  <1>5. 1 \in 1..(tries * 3) /\ ((1 - 1) % 3) + 1 = 1
    OBVIOUS
  <1>6. s[1] = x
    BY <1>3, <1>4, <1>5
  <1>7. Len(s) > 0
    BY <1>4
  <1>8. <<HOST, \h7D>> \notin Tracked
    BY Untracked
  <1>9. ASSUME NEW i \in 1..Len(s), s[i].op = "set"
        PROVE  IF s[i].reg = 3 THEN s[i].val = HOST ELSE <<HOST, s[i].reg>> \notin Tracked
    BY <1>2, <1>4, <1>c, <1>8, <1>9, SMTT(40)
  <1>a. HOST \in Pages
    BY DEF Pages
  <1>. HIDE DEF s
  <1>b. Passes(s, HOST)
    BY <1>2, <1>4, <1>6, <1>7, <1>9, <1>a, ReachesOnPage, SMTT(40) DEF Passes
  <1>. QED  BY <1>b DEF s, b, PowerUp

LEMMA ConfigurePowerTypePasses == Passes(ConfigurePowerType, RF)
  <1>. DEFINE rs == <<\h54, \h52, \h30, \h2F>>
  <1>1. Calm(Sets(rs), RF)
    <2>1. rs \in Seq(Byte) /\ \A i \in 1..Len(rs) : rs[i] \in FreeRF
      BY SMT DEF Byte, FreeRF
    <2>. HIDE DEF rs
    <2>. QED  BY <2>1, CalmPages
  <1>. HIDE DEF rs
  <1>. QED  BY <1>1, PassesPage, PassesCalm DEF ConfigurePowerType, Pages, rs

LEMMA TdmbInitTopPasses == Passes(TdmbInitTop, FM)
  <1>. DEFINE rs == <<7, 5, 6, \h0A>>
  <1>1. Calm(Sets(rs), FM)
    <2>1. rs \in Seq(Byte) /\ \A i \in 1..Len(rs) : rs[i] \in FreeFM
      BY SMT DEF Byte, FreeFM
    <2>. HIDE DEF rs
    <2>. QED  BY <2>1, CalmPages
  <1>. HIDE DEF rs
  <1>. QED  BY <1>1, PassesPage, PassesCalm DEF TdmbInitTop, Pages, rs

LEMMA TdmbInitCommPasses == Passes(TdmbInitComm, COMM)
  <1>. DEFINE rs == <<\h10, \hE1, \h35, \h3B, \h36, \h3A, \h3C, \h3D, \h3D,
                      \hA6, \hAA, \hAF>>
  <1>1. Calm(Sets(rs), COMM)
    <2>1. rs \in Seq(Byte) /\ \A i \in 1..Len(rs) : rs[i] \in FreeCOMM
      BY SMT DEF Byte, FreeCOMM
    <2>. HIDE DEF rs
    <2>. QED  BY <2>1, CalmPages
  <1>. HIDE DEF rs
  <1>. QED  BY <1>1, PassesPage, PassesCalm DEF TdmbInitComm, Pages, rs

LEMMA TdmbInitHostPasses == Passes(TdmbInitHost, HOST)
  <1>. DEFINE rs == <<\h10, \h13, \h14, \h19, \hF0, \hF1, \hF2, \hF3, \hF4,
                      \hF5, \hF6, \hF7, \hF8, \hFB>>
  <1>1. Calm(Sets(rs), HOST)
    <2>1. rs \in Seq(Byte) /\ \A i \in 1..Len(rs) : rs[i] \in 4..255
      BY SMT DEF Byte
    <2>. HIDE DEF rs
    <2>. QED  BY <2>1, CalmPages
  <1>. HIDE DEF rs
  <1>. QED  BY <1>1, PassesPage, PassesCalm DEF TdmbInitHost, Pages, rs

LEMMA TdmbInitFECPasses == Passes(TdmbInitFEC, DD)
  <1>. DEFINE rs == <<\h80, \h81, \h87, \h45, \hDD, \h39, \hE6, \hA5>>
  <1>1. Calm(Sets(rs), DD)
    <2>1. rs \in Seq(Byte) /\ \A i \in 1..Len(rs) : rs[i] \in FreeDD
      BY SMT DEF Byte, FreeDD
    <2>. HIDE DEF rs
    <2>. QED  BY <2>1, CalmPages
  <1>. HIDE DEF rs
  <1>. QED  BY <1>1, PassesPage, PassesCalm DEF TdmbInitFEC, Pages, rs

LEMMA RtvStreamDisablePasses == Passes(RtvStreamDisable, HOST)
  <1>. DEFINE rs == <<\h29>>
  <1>1. Calm(Sets(rs), HOST)
    <2>1. rs \in Seq(Byte) /\ \A i \in 1..Len(rs) : rs[i] \in 4..255
      BY SMT DEF Byte
    <2>. HIDE DEF rs
    <2>. QED  BY <2>1, CalmPages
  <1>. HIDE DEF rs
  <1>. QED  BY <1>1, PassesPage, PassesCalm DEF RtvStreamDisable, Pages, rs

LEMMA RtvConfigureHostIFPasses == Passes(RtvConfigureHostIF, HOST)
  <1>. DEFINE rs == <<\h77, 4, \h0C>>
  <1>1. Calm(Sets(rs), HOST)
    <2>1. rs \in Seq(Byte) /\ \A i \in 1..Len(rs) : rs[i] \in 4..255
      BY SMT DEF Byte
    <2>. HIDE DEF rs
    <2>. QED  BY <2>1, CalmPages
  <1>. HIDE DEF rs
  <1>. QED  BY <1>1, PassesPage, PassesCalm DEF RtvConfigureHostIF, Pages, rs

LEMMA RtvOEMConfigureInterruptPasses == Passes(RtvOEMConfigureInterrupt, HOST)
  <1>. DEFINE rs1 == <<9, \h0B>>
              rs2 == <<\h28, \h2A>>
  <1>1. Calm(Sets(rs1), DD)
    <2>1. rs1 \in Seq(Byte) /\ \A i \in 1..Len(rs1) : rs1[i] \in FreeDD
      BY SMT DEF Byte, FreeDD
    <2>. HIDE DEF rs1, rs2
    <2>. QED  BY <2>1, CalmPages
  <1>2. Calm(Sets(rs2), HOST)
    <2>1. rs2 \in Seq(Byte) /\ \A i \in 1..Len(rs2) : rs2[i] \in 4..255
      BY SMT DEF Byte
    <2>. HIDE DEF rs1, rs2
    <2>. QED  BY <2>1, CalmPages
  <1>. HIDE DEF rs1, rs2
  <1>3. DD \in Pages /\ HOST \in Pages
    BY DEF Pages
  <1>4. Passes(Page(DD) \o Sets(rs1), DD)
    BY <1>1, <1>3, PassesPage, PassesCalm
  <1>5. Passes(Page(DD) \o Sets(rs1) \o Page(HOST), HOST)
    BY <1>3, <1>4, PassesPage, PassesJoin
  <1>. QED  BY <1>2, <1>5, PassesCalm DEF RtvOEMConfigureInterrupt, rs1, rs2

LEMMA SetupMscThresholdPasses == Passes(SetupMscThreshold, DD)
  <1>. DEFINE rs == <<\h56, \h57>>
  <1>1. Calm(Sets(rs), DD)
    <2>1. rs \in Seq(Byte) /\ \A i \in 1..Len(rs) : rs[i] \in FreeDD
      BY SMT DEF Byte, FreeDD
    <2>. HIDE DEF rs
    <2>. QED  BY <2>1, CalmPages
  <1>. HIDE DEF rs
  <1>2. Passes(Page(DD) \o Sets(rs), DD)
    BY <1>1, PassesPage, PassesCalm DEF Pages
  <1>. QED  BY <1>2, PassesPage, PassesJoin DEF SetupMscThreshold, Pages, rs

LEMMA SoftResetPasses == Passes(SoftReset, FM)
  <1>. DEFINE rs == <<\h10, \h10>>
  <1>1. Calm(Sets(rs), FM)
    <2>1. rs \in Seq(Byte) /\ \A i \in 1..Len(rs) : rs[i] \in FreeFM
      BY SMT DEF Byte, FreeFM
    <2>. HIDE DEF rs
    <2>. QED  BY <2>1, CalmPages
  <1>. HIDE DEF rs
  <1>. QED  BY <1>1, PassesPage, PassesCalm DEF SoftReset, Pages, rs


(* A routine that ends on page q and leaves the registers of subchannels   *)
(* and of the MSC memory alone.                                            *)
Spares(s, q) ==
  \A p \in Pages, m \in RegMap :
    \E n : /\ Reaches(p, m, s, q, n)
           /\ n[<<DD, \h3A>>] = m[<<DD, \h3A>>]
           /\ n[<<DD, \h48>>] = m[<<DD, \h48>>]

LEMMA SparesPasses == \A s, q : Passes(s, q) => Spares(s, q)
  BY DEF Passes, Spares

LEMMA SparesPage == \A q \in Pages : Spares(Page(q), q)
  BY PassesPage, SparesPasses

LEMMA SparesJoin ==
  ASSUME NEW s, NEW q, Spares(s, q), NEW t, NEW o, Spares(t, o)
  PROVE  Spares(s \o t, o)
  <1>. SUFFICES ASSUME NEW p \in Pages, NEW m \in RegMap
                PROVE  \E n : /\ Reaches(p, m, s \o t, o, n)
                              /\ n[<<DD, \h3A>>] = m[<<DD, \h3A>>]
                              /\ n[<<DD, \h48>>] = m[<<DD, \h48>>]
    BY DEF Spares
  <1>1. PICK n1 : /\ Reaches(p, m, s, q, n1)
                  /\ n1[<<DD, \h3A>>] = m[<<DD, \h3A>>]
                  /\ n1[<<DD, \h48>>] = m[<<DD, \h48>>]
    BY DEF Spares
  <1>2. q \in Pages /\ n1 \in RegMap
    BY <1>1, ReachesTypes
  <1>3. PICK n2 : /\ Reaches(q, n1, t, o, n2)
                  /\ n2[<<DD, \h3A>>] = n1[<<DD, \h3A>>]
                  /\ n2[<<DD, \h48>>] = n1[<<DD, \h48>>]
    BY <1>2 DEF Spares
  <1>4. Reaches(p, m, s \o t, o, n2)
    BY <1>1, <1>3, ReachesJoin
  <1>. QED  BY <1>1, <1>3, <1>4

LEMMA SparesThen ==
  ASSUME NEW s, NEW q, Spares(s, q), NEW b, NEW o,
         \A m \in RegMap : \E n : /\ Reaches(q, m, b, o, n)
                                  /\ n[<<DD, \h3A>>] = m[<<DD, \h3A>>]
                                  /\ n[<<DD, \h48>>] = m[<<DD, \h48>>]
  PROVE  Spares(s \o b, o)
  <1>. SUFFICES ASSUME NEW p \in Pages, NEW m \in RegMap
                PROVE  \E n : /\ Reaches(p, m, s \o b, o, n)
                              /\ n[<<DD, \h3A>>] = m[<<DD, \h3A>>]
                              /\ n[<<DD, \h48>>] = m[<<DD, \h48>>]
    BY DEF Spares
  <1>1. PICK n1 : /\ Reaches(p, m, s, q, n1)
                  /\ n1[<<DD, \h3A>>] = m[<<DD, \h3A>>]
                  /\ n1[<<DD, \h48>>] = m[<<DD, \h48>>]
    BY DEF Spares
  <1>2. n1 \in RegMap
    BY <1>1, ReachesTypes
  <1>3. PICK n2 : /\ Reaches(q, n1, b, o, n2)
                  /\ n2[<<DD, \h3A>>] = n1[<<DD, \h3A>>]
                  /\ n2[<<DD, \h48>>] = n1[<<DD, \h48>>]
    BY <1>2
  <1>4. Reaches(p, m, s \o b, o, n2)
    BY <1>1, <1>3, ReachesJoin
  <1>. QED  BY <1>1, <1>3, <1>4

LEMMA SparesCalm ==
  ASSUME NEW s, NEW q \in Pages, Spares(s, q), NEW b, Calm(b, q)
  PROVE  Spares(s \o b, q)
  BY ReachesCalm, SparesThen

LEMMA SparesFill ==
  ASSUME NEW s, NEW q \in Pages, Spares(s, q), q # DD,
         NEW first \in 4..255, NEW vals \in Seq(Byte), first + Len(vals) <= 256
  PROVE  Spares(s \o Fill(first, vals), q)
  <1>1. ASSUME NEW m \in RegMap
        PROVE  \E n : /\ Reaches(q, m, Fill(first, vals), q, n)
                      /\ n[<<DD, \h3A>>] = m[<<DD, \h3A>>]
                      /\ n[<<DD, \h48>>] = m[<<DD, \h48>>]
    <2>. DEFINE n == Filled(m, q, first, vals)
    <2>1. Reaches(q, m, Fill(first, vals), q, n)
      BY ReachesFill
    <2>2. <<DD, \h3A>>[1] # q /\ <<DD, \h48>>[1] # q
      OBVIOUS
    <2>3. n[<<DD, \h3A>>] = m[<<DD, \h3A>>] /\ n[<<DD, \h48>>] = m[<<DD, \h48>>]
      <3>1. first \in Nat
        OBVIOUS
      <3>2. <<DD, \h3A>> \in Tracked /\ <<DD, \h48>> \in Tracked
        BY TrackedPairs
      <3>. QED  BY <2>2, <3>1, <3>2, FilledOther
    <2>. HIDE DEF n
    <2>. QED  BY <2>1, <2>3
  <1>. DEFINE b == Fill(first, vals)
  <1>2. \A m \in RegMap : \E n : /\ Reaches(q, m, b, q, n)
                                 /\ n[<<DD, \h3A>>] = m[<<DD, \h3A>>]
                                 /\ n[<<DD, \h48>>] = m[<<DD, \h48>>]
    BY <1>1
  <1>. HIDE DEF b
  <1>3. Spares(s \o b, q)
    BY <1>2, SparesThen, SMTT(40)
  <1>. QED  BY <1>3 DEF b

LEMMA SparesSet ==
  ASSUME NEW s, NEW q \in Pages, Spares(s, q), NEW r \in 4..255, NEW v \in Byte,
         <<q, r>> \in Tracked, <<q, r>> # <<DD, \h3A>>, <<q, r>> # <<DD, \h48>>
  PROVE  Spares(s \o Set(r, v), q)
  <1>. SUFFICES ASSUME NEW p \in Pages, NEW m \in RegMap
                PROVE  \E n : /\ Reaches(p, m, s \o Set(r, v), q, n)
                              /\ n[<<DD, \h3A>>] = m[<<DD, \h3A>>]
                              /\ n[<<DD, \h48>>] = m[<<DD, \h48>>]
    BY DEF Spares
  <1>1. PICK n1 : /\ Reaches(p, m, s, q, n1)
                  /\ n1[<<DD, \h3A>>] = m[<<DD, \h3A>>]
                  /\ n1[<<DD, \h48>>] = m[<<DD, \h48>>]
    BY DEF Spares
  <1>. DEFINE n2 == [n1 EXCEPT ![<<q, r>>] = v]
  <1>2. Reaches(p, m, s \o Set(r, v), q, n2)
    BY <1>1, ThenSet, ZenonT(60)
  <1>3. n1 \in RegMap
    BY <1>1, ReachesTypes
  <1>4. n2[<<DD, \h3A>>] = n1[<<DD, \h3A>>] /\ n2[<<DD, \h48>>] = n1[<<DD, \h48>>]
    BY <1>3, TrackedPairs DEF RegMap
  <1>. HIDE DEF n2
  <1>. QED  BY <1>1, <1>2, <1>4

LEMMA FunctionIsSeq ==
  ASSUME NEW S, NEW n \in Nat, NEW F \in [1..n -> S]
  PROVE  F \in Seq(S) /\ Len(F) = n
  OBVIOUS

LEMMA FirstRows ==
  /\ Synthesiser[1] \in Seq(Byte) /\ Len(Synthesiser[1]) = 7
  /\ Oscillator[1] \in Seq(Byte) /\ Len(Oscillator[1]) = 8
  <1>1. 0 \in 0..3 /\ 0 + 1 = 1
    OBVIOUS
  <1>. QED  BY <1>1, Tables

LEMMA PollsCalm ==
  ASSUME NEW n \in Nat, NEW q
  PROVE  Calm(Times(n, Get(\h15)), q)
  <1>1. Calm(Get(\h15), q)
    BY CalmOne DEF Get, Byte
  <1>2. Len(Get(\h15)) > 0
    BY DEF Get, Access
  <1>. QED  BY <1>1, <1>2, CalmTimes

LEMMA PageNames ==
  /\ COMM \in Pages /\ FM \in Pages /\ HOST \in Pages /\ DD \in Pages
  /\ FIC \in Pages /\ MSC1 \in Pages /\ RF \in Pages
  /\ COMM # DD /\ FM # DD /\ RF # DD /\ HOST # DD
  BY DEF Pages, COMM, FM, HOST, DD, FIC, MSC1, RF

LEMMA ConfigureAddClockSpares ==
  ASSUME NEW polls \in {1, 10}
  PROVE  Spares(ConfigureAddClock(polls), RF)
  <1>1. Synthesiser[1] \in Seq(Byte) /\ \hE8 + Len(Synthesiser[1]) <= 256 /\ \hE8 \in 4..255
    BY FirstRows
  <1>2. Calm(Times(polls, Get(\h15)), RF)
    BY PollsCalm
  <1>. DEFINE s1 == Page(RF)
              s2 == s1 \o Fill(\hE8, Synthesiser[1])
              s3 == s2 \o Times(polls, Get(\h15))
  <1>. HIDE DEF s1, s2, s3
  <1>s1. Spares(s1, RF)
    BY SparesPage, PageNames DEF s1
  <1>s2. Spares(s2, RF)
    BY <1>s1, SparesFill, PageNames, <1>1 DEF s2
  <1>s3. Spares(s3, RF)
    BY <1>s2, SparesCalm, PageNames, <1>2 DEF s3
  <1>. QED  BY <1>s3 DEF s1, s2, s3, ConfigureAddClock

LEMMA TdmbInitOfdmSpares ==
  Spares(TdmbInitOfdm, FM)
  <1>. DEFINE rs1 == <<\h12, \h13, \h14, \h15, \h16, \h38, \h1A, \h20, \h25,
                       \h44, \h46, \h47, \h48, \h49, \h54, \h55, \h56, \h59,
                       \h5A, \h6D, \h8B, \h6A, \h6B, \h85, \h8D, \h8E, \h33,
                       \h53, \h6F, \hBA>>
              rs2 == <<\h94, \h98, \h99, \h9B, \h9C, \h9D, \h9F, \hA0, \hA2,
                       \hA3, \hA4, \hA8, \hA9, \hAA, \hAB, \hAC, \hAD, \hAE,
                       \hEB, \h93, \h94, \hA2, \hA4, \hAF>>
  <1>1. Calm(Sets(rs1), FM)
    <2>1. rs1 \in Seq(Byte) /\ \A i \in 1..Len(rs1) : rs1[i] \in FreeFM
      BY SMT DEF Byte, FreeFM
    <2>. HIDE DEF rs1, rs2
    <2>. QED  BY <2>1, CalmPages
  <1>2. Calm(Sets(rs2), FM)
    <2>1. rs2 \in Seq(Byte) /\ \A i \in 1..Len(rs2) : rs2[i] \in FreeFM
      BY SMT DEF Byte, FreeFM
    <2>. HIDE DEF rs1, rs2
    <2>. QED  BY <2>1, CalmPages
  <1>. HIDE DEF rs1, rs2
  <1>3. Oscillator[1] \in Seq(Byte) /\ \h3C + Len(Oscillator[1]) <= 256 /\ \h3C \in 4..255
    BY FirstRows
  <1>4. <<COMM, \h6A>> \in Tracked /\ \h6A \in 4..255 /\ 1 \in Byte
    BY TrackedPairs DEF Byte
  <1>5. <<COMM, \h6A>> # <<DD, \h3A>> /\ <<COMM, \h6A>> # <<DD, \h48>>
    BY PageNames
  <1>. DEFINE s1 == Page(FM)
              s2 == s1 \o Sets(rs1)
              s3 == s2 \o Page(COMM)
              s4 == s3 \o Set(\h6A, 1)
              s5 == s4 \o Page(FM)
              s6 == s5 \o Fill(\h3C, Oscillator[1])
              s7 == s6 \o Sets(rs2)
  <1>. HIDE DEF s1, s2, s3, s4, s5, s6, s7
  <1>s1. Spares(s1, FM)
    BY SparesPage, PageNames DEF s1
  <1>s2. Spares(s2, FM)
    BY <1>s1, SparesCalm, PageNames, <1>1 DEF s2
  <1>s3. Spares(s3, COMM)
    BY <1>s2, SparesPage, SparesJoin, PageNames DEF s3
  <1>s4. Spares(s4, COMM)
    BY <1>s3, SparesSet, PageNames, <1>4, <1>5, ZenonT(60) DEF s4
  <1>s5. Spares(s5, FM)
    BY <1>s4, SparesPage, SparesJoin, PageNames DEF s5
  <1>s6. Spares(s6, FM)
    BY <1>s5, SparesFill, PageNames, <1>3 DEF s6
  <1>s7. Spares(s7, FM)
    BY <1>s6, SparesCalm, PageNames, <1>2 DEF s7
  <1>. QED  BY <1>s7 DEF s1, s2, s3, s4, s5, s6, s7, TdmbInitOfdm, rs1, rs2

LEMMA RtvResetMemoryFICSpares ==
  Spares(RtvResetMemoryFIC, DD)
  <1>1. <<DD, \h46>> \in Tracked /\ \h46 \in 4..255 /\ 0 \in Byte
    BY TrackedPairs DEF Byte
  <1>2. <<DD, \h46>> # <<DD, \h3A>> /\ <<DD, \h46>> # <<DD, \h48>>
    OBVIOUS
  <1>. DEFINE s1 == Page(DD)
              s2 == s1 \o Set(\h46, 0)
  <1>. HIDE DEF s1, s2
  <1>s1. Spares(s1, DD)
    BY SparesPage, PageNames DEF s1
  <1>s2. Spares(s2, DD)
    BY <1>s1, SparesSet, PageNames, <1>1, <1>2 DEF s2
  <1>. QED  BY <1>s2 DEF s1, s2, RtvResetMemoryFIC

LEMMA UpperRFCalm == Calm([i \in 1..(\hE7 - \hBF) |-> Set(\hBF + i, 0)[1]], RF)
  <1>. DEFINE F == [i \in 1..40 |-> Set(\hBF + i, 0)[1]]
  <1>1. \A i \in 1..40 : Set(\hBF + i, 0)[1] = [op |-> "set", reg |-> \hBF + i, val |-> 0]
    BY DEF Set, Access
  <1>2. ASSUME NEW i \in 1..40
        PROVE  /\ [op |-> "set", reg |-> \hBF + i, val |-> 0] \in Accesses
               /\ [op |-> "set", reg |-> \hBF + i, val |-> 0].reg \in FreeRF
    <2>1. \hBF + i \in 0..255 /\ \hBF + i # 3 /\ \hBF + i \in FreeRF
      BY DEF FreeRF
    <2>. QED  BY <2>1 DEF Accesses, Selects
  <1>3. \A i \in 1..40 : F[i] \in Accesses /\ F[i].reg \in FreeRF
    BY <1>1, <1>2
  <1>4. F \in [1..40 -> Accesses]
    BY <1>3
  <1>. HIDE DEF F
  <1>5. F \in Seq(Accesses) /\ Len(F) = 40
    BY <1>4, FunctionIsSeq
  <1>6. \A r \in FreeRF : r # 3 /\ <<RF, r>> \notin Tracked
    BY Untracked, SMTT(40) DEF FreeRF
  <1>7. Calm(F, RF)
    BY <1>3, <1>5, <1>6 DEF Calm
  <1>8. \hE7 - \hBF = 40
    OBVIOUS
  <1>. QED  BY <1>7, <1>8 DEF F

LEMMA RtvRFInitilizeSpares ==
  Spares(RtvRFInitilize, RF)
  <1>. DEFINE rs1 == <<\h27, \h2B, \h2D, \h2E, \h31, \h34, \h35, \h3A, \h3B,
                       \h3C, \h43, \h44, \h46, \h49, \h4A, \h4B, \h53, \h55,
                       \h5A, \h60, \h6B, \h6E, \h6F, \h72, \h73, \h77, \h78,
                       \h84, \h85, \h86, \h87, \h8A, \h8B, \h8C, \h8F, \h90,
                       \h93, \h94, \h99, \h9A, \h9B, \h9C, \h9D, \h9E, \h9F,
                       \hA0, \hA1, \hA2, \hA3, \hA4, \hAE, \hB5, \hBD, \hBE,
                       \hBF>>
              rs2 == <<\h37, \h39>>
              rs3 == <<\h2C, \h47, \h35, \h2A, \h2D, \h61>>
              rs4 == <<\h6B>>
  <1>1. Calm(Sets(rs1), RF)
    <2>1. rs1 \in Seq(Byte) /\ \A i \in 1..Len(rs1) : rs1[i] \in FreeRF
      BY SMT DEF Byte, FreeRF
    <2>. HIDE DEF rs1, rs2, rs3, rs4
    <2>. QED  BY <2>1, CalmPages
  <1>2. Calm(Sets(rs2), RF)
    <2>1. rs2 \in Seq(Byte) /\ \A i \in 1..Len(rs2) : rs2[i] \in FreeRF
      BY SMT DEF Byte, FreeRF
    <2>. HIDE DEF rs1, rs2, rs3, rs4
    <2>. QED  BY <2>1, CalmPages
  <1>3. Calm(Sets(rs3), RF)
    <2>1. rs3 \in Seq(Byte) /\ \A i \in 1..Len(rs3) : rs3[i] \in FreeRF
      BY SMT DEF Byte, FreeRF
    <2>. HIDE DEF rs1, rs2, rs3, rs4
    <2>. QED  BY <2>1, CalmPages
  <1>4. Calm(Sets(rs4), RF)
    <2>1. rs4 \in Seq(Byte) /\ \A i \in 1..Len(rs4) : rs4[i] \in FreeRF
      BY SMTT(40) DEF Byte, FreeRF
    <2>. HIDE DEF rs1, rs2, rs3, rs4
    <2>. QED  BY <2>1, CalmPages
  <1>. HIDE DEF rs1, rs2, rs3, rs4
  <1>5. Calm(Set(\hA5, 0), RF) /\ Calm(Set(\hAE, 0), RF)
    <2>1. \hA5 \in FreeRF /\ \hAE \in FreeRF /\ \hA5 \in 4..255 /\ \hAE \in 4..255 /\ 0 \in Byte
      BY DEF FreeRF, Byte
    <2>. QED  BY <2>1, Untracked, CalmSet, PageNames, ZenonT(60)
  <1>6. Calm(Gets(<<\h10, \h11>>), RF)
    <2>1. <<\h10, \h11>> \in Seq(Byte)
      BY SMT DEF Byte
    <2>. QED  BY <2>1, CalmGets
  <1>7. <<RF, \hE9>> \in Tracked /\ \hE9 \in 4..255 /\ \h41 \in Byte /\ \h51 \in Byte
    <2>1. <<RF, \hE8 + 2 - 1>> \in Tracked /\ \hE8 + 2 - 1 = \hE9
      BY TrackedPairs
    <2>. QED  BY <2>1 DEF Byte
  <1>8. <<RF, \hE9>> # <<DD, \h3A>> /\ <<RF, \hE9>> # <<DD, \h48>>
    BY PageNames
  <1>. DEFINE s1 == Page(RF)
              s2 == s1 \o Sets(rs1)
              s3 == s2 \o [i \in 1..(\hE7 - \hBF) |-> Set(\hBF + i, 0)[1]]
              s4 == s3 \o Set(\hA5, 0)
              s5 == s4 \o Set(\hE9, \h41)
              s6 == s5 \o Set(\hAE, 0)
              s7 == s6 \o Set(\hE9, \h51)
              s8 == s7 \o Sets(rs2)
              s9 == s8 \o Gets(<<\h10, \h11>>)
              s10 == s9 \o Sets(rs3)
              s11 == s10 \o Page(RF)
              s12 == s11 \o Sets(rs4)
  <1>. HIDE DEF s1, s2, s3, s4, s5, s6, s7, s8, s9, s10, s11, s12
  <1>s1. Spares(s1, RF)
    BY SparesPage, PageNames DEF s1
  <1>s2. Spares(s2, RF)
    BY <1>s1, SparesCalm, PageNames, <1>1 DEF s2
  <1>s3. Spares(s3, RF)
    BY <1>s2, SparesCalm, PageNames, UpperRFCalm DEF s3
  <1>s4. Spares(s4, RF)
    BY <1>s3, SparesCalm, PageNames, <1>5 DEF s4
  <1>s5. Spares(s5, RF)
    BY <1>s4, SparesSet, PageNames, <1>7, <1>8, ZenonT(60) DEF s5
  <1>s6. Spares(s6, RF)
    BY <1>s5, SparesCalm, PageNames, <1>5 DEF s6
  <1>s7. Spares(s7, RF)
    BY <1>s6, SparesSet, PageNames, <1>7, <1>8, ZenonT(60) DEF s7
  <1>s8. Spares(s8, RF)
    BY <1>s7, SparesCalm, PageNames, <1>2 DEF s8
  <1>s9. Spares(s9, RF)
    BY <1>s8, SparesCalm, PageNames, <1>6 DEF s9
  <1>s10. Spares(s10, RF)
    BY <1>s9, SparesCalm, PageNames, <1>3 DEF s10
  <1>s11. Spares(s11, RF)
    BY <1>s10, SparesPage, SparesJoin, PageNames DEF s11
  <1>s12. Spares(s12, RF)
    BY <1>s11, SparesCalm, PageNames, <1>4 DEF s12
  <1>. QED  BY <1>s12 DEF s1, s2, s3, s4, s5, s6, s7, s8, s9, s10, s11, s12, RtvRFInitilize, rs1, rs2, rs3, rs4

LEMMA RtvRfSpecialPasses ==
  ASSUME NEW s, NEW q \in Pages, Spares(s, q)
  PROVE  Spares(s \o RtvRfSpecial, q)
  <1>1. Calm(Raw, q)
    BY CalmOne DEF Raw, Byte
  <1>2. \A m \in RegMap : Reaches(q, m, RtvRfSpecial, q, m)
    BY <1>1, ReachesCalm, ThenCalm DEF RtvRfSpecial
  <1>. QED  BY <1>2, SparesThen


LEMMA SetupMemoryFICRuns ==
  ASSUME NEW p \in Pages, NEW m \in RegMap
  PROVE  \E n : /\ Reaches(p, m, SetupMemoryFIC, DD, n)
                /\ n[<<DD, \h46>>] = \h16
                /\ n[<<DD, \h3A>>] = m[<<DD, \h3A>>]
                /\ n[<<DD, \h48>>] = m[<<DD, \h48>>]
  <1>. DEFINE n1 == [m EXCEPT ![<<DD, \h46>>] = \h14]
              n2 == [n1 EXCEPT ![<<DD, \h46>>] = \h16]
  <1>1. \h46 \in 4..255 /\ \h14 \in Byte /\ \h16 \in Byte
    BY DEF Byte
  <1>2. Reaches(p, m, Page(DD) \o Set(\h46, \h14), DD, n1)
    BY <1>1, ReachesPage, ThenSet, TrackedPairs, PageNames, ZenonT(60)
  <1>. HIDE DEF n1
  <1>3. Reaches(p, m, SetupMemoryFIC, DD, n2)
    BY <1>1, <1>2, ThenSet, TrackedPairs, ZenonT(60) DEF SetupMemoryFIC
  <1>4. n1 \in RegMap
    BY <1>2, ReachesTypes
  <1>5. n2[<<DD, \h46>>] = \h16
    BY <1>4, TrackedPairs DEF RegMap
  <1>6. n2[<<DD, \h3A>>] = n1[<<DD, \h3A>>] /\ n2[<<DD, \h48>>] = n1[<<DD, \h48>>]
    BY <1>4, TrackedPairs DEF RegMap
  <1>7. n1[<<DD, \h3A>>] = m[<<DD, \h3A>>] /\ n1[<<DD, \h48>>] = m[<<DD, \h48>>]
    BY TrackedPairs DEF RegMap, n1
  <1>. HIDE DEF n2
  <1>. QED  BY <1>3, <1>5, <1>6, <1>7

(* initializeSync sets the FIC memory up and leaves what an earlier        *)
(* closeSubchannel has written.                                            *)
LEMMA InitializeSyncRuns ==
  ASSUME NEW tries \in {1, 2}, NEW polls \in {1, 10}, NEW p \in Pages, NEW m \in RegMap
  PROVE  \E q, n : /\ Reaches(p, m, InitializeSync(tries, polls), q, n)
                   /\ n[<<DD, \h46>>] = \h16
                   /\ n[<<DD, \h3A>>] = m[<<DD, \h3A>>]
                   /\ n[<<DD, \h48>>] = m[<<DD, \h48>>]
  <1>. DEFINE s1 == PowerUp(tries)
              s2 == s1 \o ConfigurePowerType
              s3 == s2 \o ConfigureAddClock(polls)
              s4 == s3 \o TdmbInitTop
              s5 == s4 \o TdmbInitComm
              s6 == s5 \o TdmbInitHost
              s7 == s6 \o TdmbInitOfdm
              s8 == s7 \o TdmbInitFEC
              s9 == s8 \o RtvResetMemoryFIC
              s10 == s9 \o RtvOEMConfigureInterrupt
              s11 == s10 \o RtvStreamDisable
              s12 == s11 \o RtvConfigureHostIF
              s13 == s12 \o RtvRFInitilize
              s14 == s13 \o RtvRfSpecial
              s15 == s14 \o SetupMscThreshold
  <1>. HIDE DEF s1, s2, s3, s4, s5, s6, s7, s8, s9, s10, s11, s12, s13, s14, s15
  <1>s1. Spares(s1, HOST)
    BY PowerUpPasses, SparesPasses DEF s1
  <1>s2. Spares(s2, RF)
    BY <1>s1, SparesJoin, ConfigurePowerTypePasses, SparesPasses DEF s2
  <1>s3. Spares(s3, RF)
    BY <1>s2, SparesJoin, ConfigureAddClockSpares DEF s3
  <1>s4. Spares(s4, FM)
    BY <1>s3, SparesJoin, TdmbInitTopPasses, SparesPasses DEF s4
  <1>s5. Spares(s5, COMM)
    BY <1>s4, SparesJoin, TdmbInitCommPasses, SparesPasses DEF s5
  <1>s6. Spares(s6, HOST)
    BY <1>s5, SparesJoin, TdmbInitHostPasses, SparesPasses DEF s6
  <1>s7. Spares(s7, FM)
    BY <1>s6, SparesJoin, TdmbInitOfdmSpares DEF s7
  <1>s8. Spares(s8, DD)
    BY <1>s7, SparesJoin, TdmbInitFECPasses, SparesPasses DEF s8
  <1>s9. Spares(s9, DD)
    BY <1>s8, SparesJoin, RtvResetMemoryFICSpares DEF s9
  <1>s10. Spares(s10, HOST)
    BY <1>s9, SparesJoin, RtvOEMConfigureInterruptPasses, SparesPasses DEF s10
  <1>s11. Spares(s11, HOST)
    BY <1>s10, SparesJoin, RtvStreamDisablePasses, SparesPasses DEF s11
  <1>s12. Spares(s12, HOST)
    BY <1>s11, SparesJoin, RtvConfigureHostIFPasses, SparesPasses DEF s12
  <1>s13. Spares(s13, RF)
    BY <1>s12, SparesJoin, RtvRFInitilizeSpares DEF s13
  <1>s14. Spares(s14, RF)
    BY <1>s13, RtvRfSpecialPasses, PageNames DEF s14
  <1>s15. Spares(s15, DD)
    BY <1>s14, SparesJoin, SetupMscThresholdPasses, SparesPasses DEF s15
  <1>1. PICK n1 : /\ Reaches(p, m, s15, DD, n1)
                  /\ n1[<<DD, \h3A>>] = m[<<DD, \h3A>>]
                  /\ n1[<<DD, \h48>>] = m[<<DD, \h48>>]
    BY <1>s15 DEF Spares
  <1>2. PICK n2 : /\ Reaches(DD, n1, SetupMemoryFIC, DD, n2)
                  /\ n2[<<DD, \h46>>] = \h16
                  /\ n2[<<DD, \h3A>>] = n1[<<DD, \h3A>>]
                  /\ n2[<<DD, \h48>>] = n1[<<DD, \h48>>]
    <2>1. DD \in Pages /\ n1 \in RegMap
      BY <1>1, ReachesTypes
    <2>. QED  BY <2>1, SetupMemoryFICRuns
  <1>3. Reaches(p, m, s15 \o SetupMemoryFIC, DD, n2)
    BY <1>1, <1>2, ReachesJoin
  <1>4. InitializeSync(tries, polls) = s15 \o SetupMemoryFIC
    BY DEF InitializeSync, s1, s2, s3, s4, s5, s6, s7, s8, s9, s10, s11, s12, s13, s14, s15
  <1>. QED  BY <1>1, <1>2, <1>3, <1>4

(* A routine that at most sets the FIC and the MSC memory up.              *)
Undisturbed(m, n) ==
  /\ \A x \in Tracked : x # <<DD, \h46>> /\ x # <<DD, \h48>> => n[x] = m[x]
  /\ n[<<DD, \h46>>] \in {m[<<DD, \h46>>], \h16}
  /\ n[<<DD, \h48>>] \in {m[<<DD, \h48>>], 5}

Steady(s) ==
  \A p \in Pages, m \in RegMap : \E q, n : Reaches(p, m, s, q, n) /\ Undisturbed(m, n)

LEMMA SteadyPasses ==
  ASSUME NEW s, NEW q, Passes(s, q)
  PROVE  Steady(s)
  BY DEF Passes, Steady, Undisturbed

LEMMA SteadyNone == Steady(<<>>)
  BY ReachesNone DEF Steady, Undisturbed

LEMMA SteadyJoin ==
  ASSUME NEW s, Steady(s), NEW t, Steady(t)
  PROVE  Steady(s \o t)
  <1>. SUFFICES ASSUME NEW p \in Pages, NEW m \in RegMap
                PROVE  \E q, n : Reaches(p, m, s \o t, q, n) /\ Undisturbed(m, n)
    BY DEF Steady
  <1>1. PICK q1, n1 : Reaches(p, m, s, q1, n1) /\ Undisturbed(m, n1)
    BY DEF Steady
  <1>2. q1 \in Pages /\ n1 \in RegMap
    BY <1>1, ReachesTypes
  <1>3. PICK q2, n2 : Reaches(q1, n1, t, q2, n2) /\ Undisturbed(n1, n2)
    BY <1>2 DEF Steady
  <1>4. Reaches(p, m, s \o t, q2, n2)
    BY <1>1, <1>3, ReachesJoin
  <1>5. Undisturbed(m, n2)
    BY <1>1, <1>3 DEF Undisturbed
  <1>. QED  BY <1>4, <1>5

LEMMA ClearAndSetupRuns ==
  ASSUME NEW p \in Pages, NEW m \in RegMap
  PROVE  \E n : Reaches(p, m, ClearAndSetupMscMemory, DD, n) /\ Undisturbed(m, n)
  <1>. DEFINE n1 == [m EXCEPT ![<<DD, \h48>>] = 0]
              n2 == [n1 EXCEPT ![<<DD, \h48>>] = 5]
  <1>1. \h48 \in 4..255 /\ 0 \in Byte /\ 5 \in Byte
    BY DEF Byte
  <1>2. Reaches(p, m, Page(DD) \o Set(\h48, 0), DD, n1)
    BY <1>1, ReachesPage, ThenSet, TrackedPairs, PageNames, ZenonT(60)
  <1>3. n1 \in RegMap
    BY <1>2, ReachesTypes
  <1>4. \A x \in Tracked : x # <<DD, \h48>> => n1[x] = m[x]
    BY DEF RegMap
  <1>. HIDE DEF n1
  <1>5. Reaches(p, m, ClearAndSetupMscMemory, DD, n2)
    BY <1>1, <1>2, ThenSet, TrackedPairs, ZenonT(60) DEF ClearAndSetupMscMemory
  <1>6. \A x \in Tracked : n2[x] = IF x = <<DD, \h48>> THEN 5 ELSE n1[x]
    BY <1>3 DEF RegMap
  <1>. HIDE DEF n2
  <1>7. Undisturbed(m, n2)
    BY <1>4, <1>6, TrackedPairs DEF Undisturbed
  <1>. QED  BY <1>5, <1>7

LEMMA ClearMscBufferSteady == Steady(ClearMscBuffer)
  <1>1. Calm(Set(\h35, 4), DD)
    <2>1. \h35 \in FreeDD /\ \h35 \in 4..255 /\ 4 \in Byte
      BY DEF FreeDD, Byte
    <2>. QED  BY <2>1, Untracked, CalmSet, PageNames
  <1>. QED  BY <1>1, ClearAndSetupRuns, ThenCalm DEF Steady, ClearMscBuffer

LEMMA ReadDataPasses == Passes(ReadFicData, DD) /\ Passes(ReadMscData, DD)
  <1>1. Calm(Bulk, FIC) /\ Calm(Bulk, MSC1)
    BY CalmOne, SMTT(40) DEF Bulk, Byte
  <1>2. Calm(Set(\h35, 1), DD) /\ Calm(Set(\h35, 4), DD)
    <2>1. \h35 \in FreeDD /\ \h35 \in 4..255 /\ 1 \in Byte /\ 4 \in Byte
      BY DEF FreeDD, Byte
    <2>. QED  BY <2>1, Untracked, CalmSet, PageNames
  <1>3. Passes(Page(FIC) \o Bulk, FIC) /\ Passes(Page(MSC1) \o Bulk, MSC1)
    BY <1>1, PassesPage, PassesCalm, PageNames
  <1>4. Passes(Page(FIC) \o Bulk \o Page(DD), DD) /\ Passes(Page(MSC1) \o Bulk \o Page(DD), DD)
    BY <1>3, PassesPage, PassesJoin, PageNames
  <1>5. Passes(ReadFicData, DD)
    BY <1>2, <1>4, PassesCalm DEF ReadFicData
  <1>6. Passes(ReadMscData, DD)
    BY <1>2, <1>4, PassesCalm DEF ReadMscData
  <1>. QED  BY <1>5, <1>6

LEMMA ServeSteady == \A status : Steady(Serve(status))
  <1>. SUFFICES ASSUME NEW status PROVE Steady(Serve(status))
    OBVIOUS
  <1>1. Steady(ReadFicData) /\ Steady(ReadMscData)
    BY ReadDataPasses, SteadyPasses
  <1>2. Steady(IF status.fic THEN ReadFicData ELSE <<>>)
    BY <1>1, SteadyNone
  <1>3. Steady(IF status.overrun THEN ClearMscBuffer
               ELSE IF status.msc THEN ReadMscData ELSE <<>>)
    BY <1>1, ClearMscBufferSteady, SteadyNone
  <1>. QED  BY <1>2, <1>3, SteadyJoin DEF Serve

LEMMA GetsPass ==
  /\ Passes(Page(DD) \o Get(\h37), DD)
  /\ Passes(GetLockStatus, DD)
  <1>1. Calm(Get(\h37), DD) /\ Calm(Get(\hFB), DD)
    BY CalmOne DEF Get, Byte
  <1>2. Passes(Page(DD) \o Get(\h37), DD)
    BY <1>1, PassesPage, PassesCalm, PageNames
  <1>. QED  BY <1>1, <1>2, PassesCalm DEF GetLockStatus

LEMMA AntennaSteady ==
  ASSUME NEW reception \in {"none", "good", "poor"}
  PROVE  Steady(GetAntennaLevel(reception))
  <1>. DEFINE gs == <<\h88, \h89, \h8A, \h8B, \h8C, \h8D, \h8E, \h8F, \hD7>>
              s1 == Page(DD) \o Get(\h37)
              s2 == s1 \o (IF reception = "none" THEN <<>> ELSE Gets(gs))
              poor == Page(DD) \o Set(\h46, \h1E) \o Set(\h35, 1) \o Set(\h46, \h16)
  <1>1. Steady(s1)
    BY GetsPass, SteadyPasses
  <1>2. Steady(s2)
    <2>1. CASE reception = "none"
      BY <1>1, <2>1, SteadyNone, SteadyJoin
    <2>2. CASE reception # "none"
      <3>1. gs \in Seq(Byte)
        BY SMT DEF Byte
      <3>2. Calm(Gets(gs), DD)
        BY <3>1, CalmGets
      <3>3. Passes(s1 \o Gets(gs), DD)
        BY <3>2, GetsPass, PassesCalm
      <3>. HIDE DEF gs, s1
      <3>. QED  BY <2>2, <3>3, SteadyPasses
    <2>. QED  BY <2>1, <2>2
  <1>3. Steady(poor)
    <2>. SUFFICES ASSUME NEW p \in Pages, NEW m \in RegMap
                  PROVE  \E q, n : Reaches(p, m, poor, q, n) /\ Undisturbed(m, n)
      BY DEF Steady
    <2>. DEFINE n1 == [m EXCEPT ![<<DD, \h46>>] = \h1E]
                n2 == [n1 EXCEPT ![<<DD, \h46>>] = \h16]
                u == Page(DD) \o Set(\h46, \h1E)
    <2>1. \h46 \in 4..255 /\ \h1E \in Byte /\ \h16 \in Byte
      BY DEF Byte
    <2>2. Reaches(p, m, u, DD, n1)
      BY <2>1, ReachesPage, ThenSet, TrackedPairs, PageNames, ZenonT(60)
    <2>3. Calm(Set(\h35, 1), DD)
      <3>1. \h35 \in FreeDD /\ \h35 \in 4..255 /\ 1 \in Byte
        BY DEF FreeDD, Byte
      <3>. QED  BY <3>1, Untracked, CalmSet, PageNames
    <2>4. n1 \in RegMap
      BY <2>2, ReachesTypes
    <2>5. \A x \in Tracked : x # <<DD, \h46>> => n1[x] = m[x]
      BY DEF RegMap
    <2>. HIDE DEF n1, u
    <2>6. Reaches(p, m, u \o Set(\h35, 1), DD, n1)
      BY <2>2, <2>3, ThenCalm, SMTT(40)
    <2>7. Reaches(p, m, u \o Set(\h35, 1) \o Set(\h46, \h16), DD, n2)
      BY <2>1, <2>6, ThenSet, TrackedPairs, ZenonT(60)
    <2>8. \A x \in Tracked : n2[x] = IF x = <<DD, \h46>> THEN \h16 ELSE n1[x]
      BY <2>4 DEF RegMap
    <2>. HIDE DEF n2
    <2>9. Undisturbed(m, n2)
      BY <2>5, <2>8, TrackedPairs DEF Undisturbed
    <2>10. Reaches(p, m, poor, DD, n2)
      BY <2>7 DEF u
    <2>. HIDE DEF poor
    <2>. QED  BY <2>9, <2>10
  <1>. HIDE DEF s2, poor
  <1>4. Steady(s2 \o (IF reception = "poor" THEN poor ELSE <<>>))
    BY <1>2, <1>3, SteadyNone, SteadyJoin
  <1>5. GetAntennaLevel(reception) = s2 \o (IF reception = "poor" THEN poor ELSE <<>>)
    BY DEF GetAntennaLevel, s2, poor
  <1>. QED  BY <1>4, <1>5

(* What changedAdcClock writes for a type of clock, and what it leaves.    *)
Clocked(m, n, type) ==
  /\ \A i \in 1..7 : n[<<RF, \hE8 + i - 1>>] = Synthesiser[type + 1][i]
  /\ \A i \in 1..8 : n[<<FM, \h3C + i - 1>>] = Oscillator[type + 1][i]
  /\ n[<<COMM, \h6A>>] = IF type = 3 THEN \h31 ELSE 1
  /\ \A i \in 1..4 : n[<<RF, \h23 + i - 1>>] = m[<<RF, \h23 + i - 1>>]
  /\ \A x \in Tracked : x[1] = DD => n[x] = m[x]

LEMMA ChangedAdcClockRuns ==
  ASSUME NEW type \in 0..3, NEW polls \in {1, 10}, NEW p \in Pages, NEW m \in RegMap
  PROVE  \E n : Reaches(p, m, ChangedAdcClock(type, polls), FM, n) /\ Clocked(m, n, type)
  <1>. DEFINE syn == Synthesiser[type + 1]
              osc == Oscillator[type + 1]
              lo  == SubSeq(osc, 1, 4)
              hi  == SubSeq(osc, 5, 8)
              v   == IF type = 3 THEN \h31 ELSE 1
              n1  == Filled(m, RF, \hE8, syn)
              n2  == [n1 EXCEPT ![<<COMM, \h6A>>] = v]
              n3  == Filled(n2, FM, \h3C, lo)
              n4  == Filled(n3, FM, \h40, hi)
              s1  == Page(RF) \o Fill(\hE8, syn)
              s2  == s1 \o Times(polls, Get(\h15))
              s3  == s2 \o Page(COMM) \o Set(\h6A, v)
              s4  == s3 \o Page(FM) \o Fill(\h3C, lo)
              s5  == s4 \o Set(\h54, 0)
              s6  == s5 \o Fill(\h40, hi)
  <1>1. /\ syn \in Seq(Byte) /\ Len(syn) = 7
        /\ osc \in Seq(Byte) /\ Len(osc) = 8
    BY Tables
  <1>2. v \in Byte
    BY DEF Byte
  <1>. HIDE DEF syn, osc, v
  <1>3. /\ lo \in Seq(Byte) /\ Len(lo) = 4 /\ \A i \in 1..4 : lo[i] = osc[i]
        /\ hi \in Seq(Byte) /\ Len(hi) = 4 /\ \A i \in 1..4 : hi[i] = osc[i + 4]
    <2>1. \A i \in 1..8 : osc[i] \in Byte
      BY <1>1, ElementOfSeq
    <2>2. lo \in Seq(Byte) /\ Len(lo) = 4 /\ \A i \in 1..4 : lo[i] = osc[i]
      <3>1. \A i \in 1..4 : osc[i] \in Byte
        BY <2>1
      <3>. QED  BY <3>1, SubSeqProperties
    <2>3. hi \in Seq(Byte) /\ Len(hi) = 4 /\ \A i \in 1..4 : hi[i] = osc[i + 4]
      <3>1. \A i \in 5..8 : osc[i] \in Byte
        BY <2>1
      <3>2. hi \in Seq(Byte) /\ Len(hi) = 4 /\ \A i \in 1..4 : hi[i] = osc[5 + i - 1]
        BY <3>1, SubSeqProperties
      <3>3. \A i \in 1..4 : 5 + i - 1 = i + 4
        OBVIOUS
      <3>. QED  BY <3>2, <3>3
    <2>. QED  BY <2>2, <2>3
  <1>. HIDE DEF lo, hi, n1, n2, n3, n4, s1, s2, s3, s4, s5, s6
  <1>s0. Reaches(p, m, Page(RF), RF, m)
    BY ReachesPage, PageNames
  <1>s1. Reaches(p, m, s1, RF, n1)
    <2>1. syn \in Seq(Byte) /\ \hE8 \in 4..255 /\ \hE8 + Len(syn) <= 256
      BY <1>1
    <2>2. Reaches(p, m, Page(RF) \o Fill(\hE8, syn), RF, Filled(m, RF, \hE8, syn))
      BY <1>s0, <2>1, ThenFill
    <2>. QED  BY <2>2 DEF s1, n1
  <1>s2. Reaches(p, m, s2, RF, n1)
    <2>1. Calm(Times(polls, Get(\h15)), RF)
      BY PollsCalm
    <2>. QED  BY <1>s1, <2>1, ThenCalm DEF s2
  <1>s3. Reaches(p, m, s3, COMM, n2)
    <2>1. Reaches(p, m, s2 \o Page(COMM), COMM, n1)
      BY <1>s2, ThenPage, PageNames
    <2>. DEFINE r == \h6A
    <2>2. r \in 4..255 /\ <<COMM, r>> \in Tracked
      BY TrackedPairs
    <2>. HIDE DEF r
    <2>3. Reaches(p, m, s2 \o Page(COMM) \o Set(r, v), COMM,
                  [n1 EXCEPT ![<<COMM, r>>] = v])
      BY <1>2, <2>1, <2>2, ThenSet
    <2>. QED  BY <2>3 DEF s3, n2, r
  <1>s4. Reaches(p, m, s4, FM, n3)
    <2>1. Reaches(p, m, s3 \o Page(FM), FM, n2)
      BY <1>s3, ThenPage, PageNames
    <2>2. \h3C \in 4..255 /\ \h3C + Len(lo) <= 256
      BY <1>3
    <2>. QED  BY <1>3, <2>1, <2>2, ThenFill, ZenonT(60) DEF s4, n3
  <1>s5. Reaches(p, m, s5, FM, n3)
    <2>1. \h54 \in FreeFM /\ \h54 \in 4..255 /\ 0 \in Byte
      BY DEF FreeFM, Byte
    <2>2. Calm(Set(\h54, 0), FM)
      BY <2>1, Untracked, CalmSet, PageNames
    <2>. QED  BY <1>s4, <2>2, ThenCalm DEF s5
  <1>s6. Reaches(p, m, s6, FM, n4)
    <2>1. \h40 \in 4..255 /\ \h40 + Len(hi) <= 256
      BY <1>3
    <2>. QED  BY <1>3, <1>s5, <2>1, ThenFill, ZenonT(60) DEF s6, n4
  <1>4. ChangedAdcClock(type, polls) = s6
    BY DEF ChangedAdcClock, s1, s2, s3, s4, s5, s6, syn, osc, lo, hi, v
  <1>5. n1 \in RegMap /\ n2 \in RegMap /\ n3 \in RegMap
    BY <1>s1, <1>s3, <1>s4, ReachesTypes
  <1>6. \A x \in Tracked :
          x[1] # RF \/ x[2] < \hE8 => n1[x] = m[x]
    <2>. SUFFICES ASSUME NEW x \in Tracked, x[1] # RF \/ x[2] < \hE8
                  PROVE  n1[x] = m[x]
      OBVIOUS
    <2>1. \hE8 \in Nat /\ x[2] \in Nat /\ (x[1] # RF \/ x[2] \notin \hE8..(\hE8 + Len(syn) - 1))
      BY <1>1, TrackedPair
    <2>. QED  BY <1>1, <2>1, FilledOther DEF n1
  <1>7. \A x \in Tracked : n2[x] = IF x = <<COMM, \h6A>> THEN v ELSE n1[x]
    BY <1>5 DEF RegMap, n2
  <1>8. \A x \in Tracked : x[1] # FM => n3[x] = n2[x] /\ n4[x] = n3[x]
    <2>1. \h3C \in Nat /\ \h40 \in Nat
      OBVIOUS
    <2>. QED  BY <1>3, <1>5, <2>1, FilledOther DEF n3, n4
  <1>9. \A i \in 1..7 : n4[<<RF, \hE8 + i - 1>>] = syn[i]
    <2>. SUFFICES ASSUME NEW i \in 1..7 PROVE n4[<<RF, \hE8 + i - 1>>] = syn[i]
      OBVIOUS
    <2>. DEFINE x == <<RF, \hE8 + i - 1>>
    <2>1. /\ x \in Tracked /\ x[1] = RF /\ x[2] = \hE8 + i - 1
          /\ RF # FM /\ x # <<COMM, \h6A>>
      BY TrackedPairs DEF RF, FM, COMM
    <2>. HIDE DEF x
    <2>2. n1[x] = syn[i]
      <3>1. \hE8 \in Nat /\ syn \in Seq(Byte) /\ i \in 1..Len(syn)
        BY <1>1
      <3>2. x \in Tracked /\ x[1] = RF /\ x[2] = \hE8 + i - 1
        BY <2>1
      <3>a. x[2] - \hE8 + 1 = i
        BY <3>2
      <3>3. Filled(m, RF, \hE8, syn)[x] = syn[i]
        BY <3>1, <3>2, <3>a DEF Filled
      <3>. QED  BY <3>3 DEF n1
    <2>3. n4[x] = syn[i]
      BY <1>7, <1>8, <2>1, <2>2
    <2>. QED  BY <2>3 DEF x
  <1>10. \A i \in 1..8 : n4[<<FM, \h3C + i - 1>>] = osc[i]
    <2>1. ASSUME NEW i \in 1..4 PROVE n4[<<FM, \h3C + i - 1>>] = osc[i]
      <3>. DEFINE x == <<FM, \h3C + i - 1>>
      <3>1. x \in Tracked /\ x[1] = FM /\ x[2] = \h3C + i - 1
        BY TrackedPairs
      <3>. HIDE DEF x
      <3>2. n3[x] = lo[i]
        <4>1. \h3C \in Nat /\ lo \in Seq(Byte) /\ i \in 1..Len(lo) /\ n2 \in RegMap
          BY <1>3, <1>5
        <4>a. x[2] - \h3C + 1 = i
          BY <3>1
        <4>2. Filled(n2, FM, \h3C, lo)[x] = lo[i]
          BY <3>1, <4>1, <4>a DEF Filled
        <4>. QED  BY <4>2 DEF n3
      <3>3. n4[x] = n3[x]
        <4>1. \h40 \in Nat /\ x[2] \notin \h40..(\h40 + Len(hi) - 1)
          BY <1>3, <3>1
        <4>. QED  BY <1>3, <1>5, <3>1, <4>1, FilledOther DEF n4
      <3>4. n4[x] = osc[i]
        BY <1>3, <3>2, <3>3
      <3>. QED  BY <3>4 DEF x
    <2>2. ASSUME NEW i \in 1..4 PROVE n4[<<FM, \h40 + i - 1>>] = osc[i + 4]
      <3>. DEFINE x == <<FM, \h40 + i - 1>>
      <3>1. \h40 \in Nat /\ hi \in Seq(Byte) /\ i \in 1..Len(hi) /\ n3 \in RegMap
        BY <1>3, <1>5
      <3>2. x \in Tracked /\ x[1] = FM /\ x[2] = \h40 + i - 1
        <4>1. i + 4 \in 1..8 /\ \h3C + (i + 4) - 1 = \h40 + i - 1
          OBVIOUS
        <4>. QED  BY <4>1, TrackedPairs
      <3>. HIDE DEF x
      <3>a. x[2] - \h40 + 1 = i
        BY <3>2
      <3>3. Filled(n3, FM, \h40, hi)[x] = hi[i]
        BY <3>1, <3>2, <3>a DEF Filled
      <3>4. n4[x] = osc[i + 4]
        BY <1>3, <3>3 DEF n4
      <3>. QED  BY <3>4 DEF x
    <2>. SUFFICES ASSUME NEW i \in 1..8 PROVE n4[<<FM, \h3C + i - 1>>] = osc[i]
      OBVIOUS
    <2>3. CASE i <= 4
      BY <2>1, <2>3
    <2>4. CASE i > 4
      <3>1. /\ i - 4 \in 1..4 /\ \h40 + (i - 4) - 1 = \h3C + i - 1 /\ (i - 4) + 4 = i
        BY <2>4
      <3>2. n4[<<FM, \h40 + (i - 4) - 1>>] = osc[(i - 4) + 4]
        BY <2>2, <3>1
      <3>. QED  BY <3>1, <3>2
    <2>. QED  BY <2>3, <2>4
  <1>11. n4[<<COMM, \h6A>>] = v
    <2>. DEFINE x == <<COMM, \h6A>>
    <2>1. x \in Tracked /\ x[1] = COMM /\ COMM # FM
      BY TrackedPairs DEF COMM, FM
    <2>. HIDE DEF x
    <2>2. n4[x] = v
      BY <1>7, <1>8, <2>1 DEF x
    <2>. QED  BY <2>2 DEF x
  <1>12. \A x \in Tracked : x[1] = DD \/ (x[1] = RF /\ x[2] < \hE8) => n4[x] = m[x]
    <2>. SUFFICES ASSUME NEW x \in Tracked, x[1] = DD \/ (x[1] = RF /\ x[2] < \hE8)
                  PROVE  n4[x] = m[x]
      OBVIOUS
    <2>1. x[1] # FM /\ x[1] # COMM /\ (x[1] # RF \/ x[2] < \hE8)
      BY DEF DD, RF, FM, COMM
    <2>2. x # <<COMM, \h6A>>
      BY <2>1
    <2>. QED  BY <1>6, <1>7, <1>8, <2>1, <2>2
  <1>13. \A i \in 1..4 : n4[<<RF, \h23 + i - 1>>] = m[<<RF, \h23 + i - 1>>]
    <2>. SUFFICES ASSUME NEW i \in 1..4
                  PROVE  n4[<<RF, \h23 + i - 1>>] = m[<<RF, \h23 + i - 1>>]
      OBVIOUS
    <2>. DEFINE x == <<RF, \h23 + i - 1>>
    <2>1. x \in Tracked /\ x[1] = RF /\ x[2] < \hE8
      BY TrackedPairs
    <2>. HIDE DEF x
    <2>2. n4[x] = m[x]
      BY <1>12, <2>1
    <2>. QED  BY <2>2 DEF x
  <1>14. Clocked(m, n4, type)
    BY <1>9, <1>10, <1>11, <1>12, <1>13 DEF Clocked, syn, osc, v
  <1>. QED  BY <1>s6, <1>4, <1>14

(* What a tuning leaves in the chip: the rows of the channel, and the PLL  *)
(* as it was when the clock did not lock.                                  *)
TunedTo(m, n, c, locked) ==
  /\ \E k \in RegMap :
       /\ Clocked(m, k, ClockType[c + 1])
       /\ \A i \in 1..4 : n[<<RF, \h23 + i - 1>>]
            = IF locked THEN PllBytes(PllNF[c + 1])[i] ELSE k[<<RF, \h23 + i - 1>>]
       /\ \A x \in Tracked : x[1] # RF \/ x[2] >= \hE8 => n[x] = k[x]

LEMMA PllBytesSeq ==
  ASSUME NEW nf \in Nat
  PROVE  PllBytes(nf) \in Seq(Byte) /\ Len(PllBytes(nf)) = 4
  <1>1. /\ 2^22 = 4194304 /\ 2^14 = 16384 /\ 2^5 = 32
    BY SMT
  <1>2. /\ (nf \div 4194304) % 256 \in 0..255
        /\ (nf \div 16384) % 256 \in 0..255
        /\ (nf \div 32) % 256 \in 0..255
        /\ 4 * (nf % 64) + 1 \in 0..255
    BY SMT
  <1>. QED  BY <1>1, <1>2, SMT DEF PllBytes, Byte

LEMMA TuneRuns ==
  ASSUME NEW c \in Channels, NEW polls \in {1, 10}, NEW locked \in BOOLEAN,
         NEW p \in Pages, NEW m \in RegMap
  PROVE  \E q, n : /\ Reaches(p, m, SetFrequency(Frequency[c + 1], polls, locked) \o SoftReset,
                             q, n)
                   /\ TunedTo(m, n, c, locked)
  <1>. DEFINE rs2 == <<\h20>>
              rs3 == <<\h10, \h10>>
  <1>. DEFINE type == ClockType[c + 1]
              pll  == PllBytes(PllNF[c + 1])
              s1   == ChangedAdcClock(type, polls)
              t1   == Page(RF) \o Fill(\h23, pll)
              t2   == t1 \o Sets(rs2)
              t3   == t2 \o Gets(<<\h15, \h12, \h13, \h14>>)
              t4   == t3 \o Page(FM)
              t5   == t4 \o Sets(rs3)
  <1>1. /\ type \in 0..3 /\ Row(Frequency[c + 1]) = c
        /\ pll \in Seq(Byte) /\ Len(pll) = 4
    BY Tables, PllBytesSeq
  <1>2. Calm(Sets(rs2), RF)
    <2>1. rs2 \in Seq(Byte) /\ \A i \in 1..Len(rs2) : rs2[i] \in FreeRF
      BY SMT DEF Byte, FreeRF
    <2>. HIDE DEF rs2, rs3
    <2>. QED  BY <2>1, CalmPages
  <1>3. Calm(Sets(rs3), FM)
    <2>1. rs3 \in Seq(Byte) /\ \A i \in 1..Len(rs3) : rs3[i] \in FreeFM
      BY SMT DEF Byte, FreeFM
    <2>. HIDE DEF rs2, rs3
    <2>. QED  BY <2>1, CalmPages
  <1>. HIDE DEF rs2, rs3
  <1>4. Calm(Gets(<<\h15, \h12, \h13, \h14>>), RF)
    <2>. DEFINE rs == <<\h15, \h12, \h13, \h14>>
    <2>1. rs \in Seq(Byte)
      BY SMT DEF Byte
    <2>. HIDE DEF rs
    <2>2. Calm(Gets(rs), RF)
      BY <2>1, CalmGets
    <2>. QED  BY <2>2 DEF rs
  <1>. HIDE DEF pll, s1, t1, t2, t3, t4, t5
  <1>5. PICK k : Reaches(p, m, s1, FM, k) /\ Clocked(m, k, type)
    BY <1>1, ChangedAdcClockRuns DEF s1
  <1>6. k \in RegMap
    BY <1>5, ReachesTypes
  <1>. DEFINE n == Filled(k, RF, \h23, pll)
  <1>7. Reaches(FM, k, t5, FM, n)
    <2>0. Reaches(FM, k, Page(RF), RF, k)
      BY <1>6, ReachesPage, PageNames
    <2>1. Reaches(FM, k, t1, RF, n)
      <3>1. \h23 \in 4..255 /\ \h23 + Len(pll) <= 256
        BY <1>1
      <3>. QED  BY <1>1, <2>0, <3>1, ThenFill, ZenonT(60) DEF t1
    <2>. HIDE DEF n
    <2>2. Reaches(FM, k, t2, RF, n)
      BY <1>2, <2>1, ThenCalm DEF t2
    <2>3. Reaches(FM, k, t3, RF, n)
      BY <1>4, <2>2, ThenCalm DEF t3
    <2>4. Reaches(FM, k, t4, FM, n)
      BY <2>3, ThenPage, PageNames DEF t4
    <2>. QED  BY <1>3, <2>4, ThenCalm DEF t5
  <1>8. \A x \in Tracked : x[1] # RF \/ x[2] >= \hE8 => n[x] = k[x]
    <2>. SUFFICES ASSUME NEW x \in Tracked, x[1] # RF \/ x[2] >= \hE8
                  PROVE  n[x] = k[x]
      OBVIOUS
    <2>1. \h23 \in Nat /\ (x[1] # RF \/ x[2] \notin \h23..(\h23 + Len(pll) - 1))
      BY <1>1, TrackedPair
    <2>. QED  BY <1>1, <1>6, <2>1, FilledOther, ZenonT(60)
  <1>9. \A i \in 1..4 : n[<<RF, \h23 + i - 1>>] = pll[i]
    <2>. SUFFICES ASSUME NEW i \in 1..4 PROVE n[<<RF, \h23 + i - 1>>] = pll[i]
      OBVIOUS
    <2>. DEFINE x == <<RF, \h23 + i - 1>>
    <2>1. \h23 \in Nat /\ pll \in Seq(Byte) /\ i \in 1..Len(pll)
      BY <1>1
    <2>2. x \in Tracked /\ x[1] = RF /\ x[2] = \h23 + i - 1
      BY TrackedPairs
    <2>. HIDE DEF x
    <2>a. x[2] - \h23 + 1 = i
      BY <2>1, <2>2
    <2>3. n[x] = pll[i]
      BY <2>1, <2>2, <2>a DEF Filled
    <2>. QED  BY <2>3 DEF x
  <1>. HIDE DEF n
  <1>10. SetFrequency(Frequency[c + 1], polls, locked) = s1 \o (IF locked THEN t5 ELSE <<>>)
    BY <1>1 DEF SetFrequency, s1, t1, t2, t3, t4, t5, pll, rs2, rs3
  <1>11. FM \in Pages /\ Passes(SoftReset, FM)
    BY SoftResetPasses, PageNames
  <1>12. CASE locked
    <2>1. Reaches(p, m, s1 \o t5, FM, n)
      BY <1>5, <1>7, ReachesJoin
    <2>2. Reaches(FM, n, SoftReset, FM, n)
      BY <1>11, <2>1, ReachesTypes DEF Passes
    <2>3. Reaches(p, m, SetFrequency(Frequency[c + 1], polls, locked) \o SoftReset, FM, n)
      BY <1>10, <1>12, <2>1, <2>2, ReachesJoin
    <2>4. TunedTo(m, n, c, locked)
      BY <1>5, <1>6, <1>8, <1>9, <1>12 DEF TunedTo, pll
    <2>. QED  BY <2>3, <2>4
  <1>13. CASE ~locked
    <2>1. s1 \o <<>> = s1
      BY <1>5, ReachesTypes, ConcatEmptySeq
    <2>2. Reaches(FM, k, SoftReset, FM, k)
      BY <1>6, <1>11 DEF Passes
    <2>3. Reaches(p, m, SetFrequency(Frequency[c + 1], polls, locked) \o SoftReset, FM, k)
      BY <1>5, <1>10, <1>13, <2>1, <2>2, ReachesJoin
    <2>4. TunedTo(m, k, c, locked)
      BY <1>5, <1>6, <1>13 DEF TunedTo
    <2>. QED  BY <2>3, <2>4
  <1>. QED  BY <1>12, <1>13 DEF rs2, rs3

LEMMA SwitchRuns ==
  ASSUME NEW val \in Byte, NEW p \in Pages, NEW m \in RegMap
  PROVE  \E n : /\ Reaches(p, m, Switch(val), DD, n)
                /\ n[<<DD, \h3A>>] = val
                /\ \A x \in Tracked : x # <<DD, \h3A>> => n[x] = m[x]
  <1>. DEFINE s1 == Page(DD) \o Set(\h35, \h70)
              s2 == s1 \o Page(HOST)
              s3 == s2 \o Set(\h62, 0)
              s4 == s3 \o Page(DD)
              n  == [m EXCEPT ![<<DD, \h3A>>] = val]
              r  == \h3A
  <1>1. Calm(Set(\h35, \h70), DD)
    <2>1. \h35 \in FreeDD /\ \h35 \in 4..255 /\ \h70 \in Byte
      BY DEF FreeDD, Byte
    <2>. QED  BY <2>1, Untracked, CalmSet, PageNames, ZenonT(60)
  <1>2. Calm(Set(\h62, 0), HOST)
    <2>1. \h62 \in 4..255 /\ 0 \in Byte
      BY DEF Byte
    <2>. QED  BY <2>1, Untracked, CalmSet, PageNames, ZenonT(60)
  <1>3. r \in 4..255 /\ <<DD, r>> \in Tracked
    BY TrackedPairs
  <1>4. /\ \A x \in Tracked : n[x] = IF x = <<DD, \h3A>> THEN val ELSE m[x]
        /\ n[<<DD, \h3A>>] = val
    BY TrackedPairs DEF RegMap
  <1>. HIDE DEF s1, s2, s3, s4, n, r
  <1>s1. Passes(s1, DD)
    BY <1>1, PassesPage, PassesCalm, PageNames DEF s1
  <1>s2. Passes(s2, HOST)
    BY <1>s1, PassesPage, PassesJoin, PageNames DEF s2
  <1>s3. Passes(s3, HOST)
    BY <1>2, <1>s2, PassesCalm DEF s3
  <1>s4. Passes(s4, DD)
    BY <1>s3, PassesPage, PassesJoin, PageNames DEF s4
  <1>5. Reaches(p, m, s4, DD, m)
    BY <1>s4 DEF Passes
  <1>6. Reaches(p, m, s4 \o Set(r, val), DD, [m EXCEPT ![<<DD, r>>] = val])
    BY <1>3, <1>5, ThenSet
  <1>7. Reaches(p, m, Switch(val), DD, n)
    BY <1>6 DEF Switch, s1, s2, s3, s4, n, r
  <1>. QED  BY <1>4, <1>7

-----------------------------------------------------------------------------
(* A script is a routine that ends with a look at the interrupts or not.   *)
LookAccess    == [op |-> "look", reg |-> \h33, val |-> 0]
LookFicAccess == [op |-> "lookFic", reg |-> \h33, val |-> 0]
AnyAccess == Accesses \cup {LookAccess, LookFicAccess}
Endings == {<<>>, <<LookAccess>>, <<LookFicAccess>>}

LEMMA LooksAreEndings == Look = <<LookAccess>> /\ LookFic = <<LookFicAccess>>
  BY DEF Look, LookFic, Access, LookAccess, LookFicAccess

Scripts == {s \o e : s \in Seq(Accesses), e \in Endings}

LEMMA Single ==
  ASSUME NEW S, NEW x \in S
  PROVE  /\ <<x>> \in Seq(S) /\ Len(<<x>>) = 1 /\ <<x>>[1] = x
         /\ Head(<<x>>) = x /\ Tail(<<x>>) = <<>>
  <1>. DEFINE t == <<x>>
  <1>1. t \in Seq(S) /\ Len(t) = 1 /\ t[1] = x
    OBVIOUS
  <1>. HIDE DEF t
  <1>2. t # <<>> /\ Head(t) = t[1] /\ Tail(t) \in Seq(S) /\ Len(Tail(t)) = 0
    BY <1>1, HeadTailProperties, EmptySeq
  <1>3. Tail(t) = <<>>
    BY <1>2, EmptySeq
  <1>. QED  BY <1>1, <1>2, <1>3 DEF t

LEMMA EndingTypes ==
  /\ \A e \in Endings : e \in Seq(AnyAccess)
  /\ \A s \in Seq(Accesses) : s \in Seq(AnyAccess) /\ s \o <<>> = s
  <1>1. LookAccess \in AnyAccess /\ LookFicAccess \in AnyAccess /\ Accesses \subseteq AnyAccess
    BY DEF AnyAccess
  <1>2. \A e \in Endings : e \in Seq(AnyAccess)
    BY <1>1, EmptySeq, Single, ZenonT(60) DEF Endings
  <1>3. \A s \in Seq(Accesses) : s \in Seq(AnyAccess)
    BY <1>1, SeqMonotonic
  <1>. QED  BY <1>2, <1>3, ConcatEmptySeq

LEMMA NoneScript == <<>> \in Scripts /\ \A s \in Seq(Accesses) : s \in Scripts
  <1>1. <<>> \in Seq(Accesses) /\ <<>> \in Endings
    BY DEF Endings
  <1>2. \A s \in Seq(Accesses) : s \in Scripts
    BY <1>1, EndingTypes DEF Scripts
  <1>. QED  BY <1>1, <1>2

(* The next access of a script, and the script behind it.                  *)
LEMMA ScriptStep ==
  ASSUME NEW s \in Seq(Accesses), NEW e \in Endings, s \o e # <<>>
  PROVE  IF s # <<>>
         THEN Head(s \o e) = Head(s) /\ Tail(s \o e) = Tail(s) \o e
         ELSE e # <<>> /\ Head(s \o e) = e[1] /\ Tail(s \o e) = <<>>
  <1>1. s \in Seq(AnyAccess) /\ e \in Seq(AnyAccess) /\ s \o e \in Seq(AnyAccess)
    BY EndingTypes, ConcatProperties
  <1>2. CASE s # <<>>
    <2>1. /\ Len(s) \in Nat \ {0} /\ Len(e) \in Nat
          /\ Len(s \o e) = Len(s) + Len(e)
          /\ \A i \in 1..(Len(s) + Len(e)) :
               (s \o e)[i] = IF i <= Len(s) THEN s[i] ELSE e[i - Len(s)]
      BY <1>1, <1>2, ConcatProperties, EmptySeq, LenProperties
    <2>2. Head(s \o e) = (s \o e)[1] /\ Head(s) = s[1]
      BY <1>1, <1>2, <2>1
    <2>3. Head(s \o e) = Head(s)
      BY <2>1, <2>2
    <2>4. /\ Tail(s \o e) \in Seq(AnyAccess) /\ Len(Tail(s \o e)) = Len(s) + Len(e) - 1
          /\ \A i \in 1..(Len(s) + Len(e) - 1) : Tail(s \o e)[i] = (s \o e)[i + 1]
      BY <1>1, <2>1, HeadTailProperties
    <2>5. /\ Tail(s) \in Seq(AnyAccess) /\ Len(Tail(s)) = Len(s) - 1
          /\ \A i \in 1..(Len(s) - 1) : Tail(s)[i] = s[i + 1]
      BY <1>1, <1>2, <2>1, HeadTailProperties
    <2>6. /\ Tail(s) \o e \in Seq(AnyAccess) /\ Len(Tail(s) \o e) = Len(s) - 1 + Len(e)
          /\ \A i \in 1..(Len(s) - 1 + Len(e)) :
               (Tail(s) \o e)[i] = IF i <= Len(s) - 1 THEN Tail(s)[i] ELSE e[i - (Len(s) - 1)]
      BY <1>1, <2>1, <2>5, ConcatProperties
    <2>7. ASSUME NEW i \in 1..Len(Tail(s \o e))
          PROVE  Tail(s \o e)[i] = (Tail(s) \o e)[i]
      <3>1. i \in 1..(Len(s) + Len(e) - 1) /\ i + 1 \in 1..(Len(s) + Len(e))
        BY <2>1, <2>4
      <3>2. Tail(s \o e)[i] = IF i + 1 <= Len(s) THEN s[i + 1] ELSE e[i + 1 - Len(s)]
        BY <2>1, <2>4, <3>1
      <3>3. CASE i <= Len(s) - 1
        <4>1. (Tail(s) \o e)[i] = s[i + 1]
          BY <2>1, <2>5, <2>6, <3>1, <3>3
        <4>. QED  BY <2>1, <3>1, <3>2, <3>3, <4>1
      <3>4. CASE i > Len(s) - 1
        <4>1. (Tail(s) \o e)[i] = e[i - (Len(s) - 1)] /\ i - (Len(s) - 1) = i + 1 - Len(s)
          BY <2>1, <2>6, <3>1, <3>4
        <4>. QED  BY <2>1, <3>1, <3>2, <3>4, <4>1
      <3>. QED  BY <2>1, <3>1, <3>3, <3>4
    <2>8. Tail(s \o e) = Tail(s) \o e
      BY <2>1, <2>4, <2>6, <2>7, SeqEqual
    <2>. QED  BY <1>2, <2>3, <2>8
  <1>3. CASE s = <<>>
    <2>1. s \o e = e
      BY <1>1, <1>3, ConcatEmptySeq
    <2>2. e # <<>> /\ (e = <<LookAccess>> \/ e = <<LookFicAccess>>)
      BY <2>1 DEF Endings
    <2>3. Head(e) = e[1] /\ Tail(e) = <<>>
      BY <2>2, Single
    <2>. QED  BY <1>3, <2>1, <2>2, <2>3
  <1>. QED  BY <1>2, <1>3

LEMMA EmptyScript ==
  ASSUME NEW s \in Seq(Accesses), NEW e \in Endings, s \o e = <<>>
  PROVE  s = <<>> /\ e = <<>>
  BY EndingTypes, ConcatSimplifications

(* A call that at most sets the FIC and the MSC memory up.                 *)
SteadyCall(c) == \E s, e : c = s \o e /\ e \in Endings /\ Steady(s)

LEMMA SteadySeq ==
  ASSUME NEW s, Steady(s)
  PROVE  s \in Seq(Accesses) /\ SteadyCall(s)
  <1>1. [x \in Tracked |-> 0] \in RegMap
    BY DEF RegMap
  <1>2. s \in Seq(Accesses)
    BY <1>1, PageNames, ReachesTypes DEF Steady
  <1>. QED  BY <1>2, EndingTypes DEF SteadyCall, Endings

LEMMA ReadDataCalls ==
  /\ SteadyCall(ReadData)
  /\ \A reception \in {"none", "good", "poor"} :
       SteadyCall(GetAntennaLevel(reception) \o ReadData)
  <1>1. Steady(Page(DD)) /\ <<LookAccess>> \in Endings
    BY PassesPage, SteadyPasses, PageNames DEF Endings
  <1>2. SteadyCall(ReadData)
    BY <1>1, LooksAreEndings DEF ReadData, SteadyCall
  <1>3. ASSUME NEW reception \in {"none", "good", "poor"}
        PROVE  SteadyCall(GetAntennaLevel(reception) \o ReadData)
    <2>. DEFINE g == GetAntennaLevel(reception)
    <2>1. Steady(g)
      BY AntennaSteady
    <2>. HIDE DEF g
    <2>2. Steady(g \o Page(DD))
      BY <1>1, <2>1, SteadyJoin
    <2>3. g \in Seq(AnyAccess) /\ Page(DD) \in Seq(AnyAccess) /\ <<LookAccess>> \in Seq(AnyAccess)
      BY <1>1, <2>1, SteadySeq, EndingTypes
    <2>4. g \o ReadData = (g \o Page(DD)) \o <<LookAccess>>
      BY <2>3, ConcatAssociative, LooksAreEndings DEF ReadData
    <2>5. SteadyCall(g \o ReadData)
      BY <1>1, <2>2, <2>4 DEF SteadyCall
    <2>. QED  BY <2>5 DEF g
  <1>. QED  BY <1>2, <1>3

LEMMA ScanReadCall == \A locked \in BOOLEAN : SteadyCall(OnScanReadFic(locked))
  <1>. DEFINE g == GetLockStatus
              f == Page(FM) \o Page(DD)
  <1>1. Steady(g) /\ Steady(f) /\ <<LookFicAccess>> \in Endings
    <2>1. Passes(f, DD)
      BY PassesPage, PassesJoin, PageNames
    <2>2. Passes(g, DD)
      BY GetsPass
    <2>. QED  BY <2>1, <2>2, SteadyPasses DEF Endings
  <1>2. OnScanReadFic(TRUE) = g \o (f \o <<LookFicAccess>>)
    BY LooksAreEndings DEF OnScanReadFic
  <1>3. OnScanReadFic(FALSE) = g \o <<>>
    BY DEF OnScanReadFic
  <1>. HIDE DEF g, f
  <1>4. Steady(g \o f)
    BY <1>1, SteadyJoin
  <1>5. g \in Seq(AnyAccess) /\ f \in Seq(AnyAccess) /\ <<LookFicAccess>> \in Seq(AnyAccess)
    BY <1>1, SteadySeq, EndingTypes
  <1>6. g \o (f \o <<LookFicAccess>>) = (g \o f) \o <<LookFicAccess>>
    BY <1>5, ConcatAssociative
  <1>7. SteadyCall(OnScanReadFic(TRUE))
    BY <1>1, <1>2, <1>4, <1>6 DEF SteadyCall
  <1>8. SteadyCall(OnScanReadFic(FALSE))
    BY <1>1, <1>3 DEF SteadyCall, Endings
  <1>. QED  BY <1>7, <1>8

-----------------------------------------------------------------------------
Asks == {"none", "set", "get", "bulk", "raw", "look", "lookFic"}

TypeInv ==
  /\ page \in Pages
  /\ reg \in RegMap
  /\ pending \subseteq {"fic", "msc"}
  /\ script \in [Threads -> Scripts]
  /\ asking \in [Threads -> Asks]
  /\ powered \in BOOLEAN /\ tuning \in BOOLEAN
  /\ tuned \in [clock : -1..40, pll : -1..40]
  /\ opened \in -1..255

LEMMA TypeInit == Init => TypeInv
  <1>. SUFFICES ASSUME Init PROVE TypeInv
    OBVIOUS
  <1>1. page \in Pages /\ reg \in RegMap
    BY PageNames DEF Init, RegMap
  <1>2. script \in [Threads -> Scripts]
    BY NoneScript DEF Init
  <1>3. /\ asking \in [Threads -> Asks]
        /\ pending \subseteq {"fic", "msc"}
        /\ powered \in BOOLEAN /\ tuning \in BOOLEAN
        /\ tuned \in [clock : -1..40, pll : -1..40]
        /\ opened \in -1..255
    <2>1. asking \in [Threads -> Asks]
      BY DEF Init, Asks
    <2>2. tuned \in [clock : -1..40, pll : -1..40]
      BY DEF Init
    <2>3. opened \in -1..255
      BY DEF Init
    <2>4. pending \subseteq {"fic", "msc"} /\ powered \in BOOLEAN /\ tuning \in BOOLEAN
      BY Zenon DEF Init
    <2>. QED  BY <2>1, <2>2, <2>3, <2>4
  <1>. QED  BY <1>1, <1>2, <1>3 DEF TypeInv

LEMMA ScriptOf ==
  ASSUME NEW s \in Seq(Accesses), NEW e \in Endings
  PROVE  s \o e \in Scripts
  <1>. DEFINE c == s \o e
  <1>1. \E s2 \in Seq(Accesses), e2 \in Endings : c = s2 \o e2
    OBVIOUS
  <1>. HIDE DEF c
  <1>2. c \in Scripts
    BY <1>1, SMTT(40) DEF Scripts
  <1>. QED  BY <1>2 DEF c

(* What an access does to the chip's page and registers.                   *)
LEMMA RequestEffect ==
  ASSUME TypeInv, NEW t \in Threads, Request(t),
         NEW s \in Seq(Accesses), NEW e \in Endings, script[t] = s \o e
  PROVE  /\ IF s # <<>>
            THEN /\ Head(s) \in Accesses
                 /\ page' = After(Head(s), page) /\ reg' = Stored(Head(s), page, reg)
                 /\ script'[t] = Tail(s) \o e
                 /\ asking'[t] = Head(s).op
            ELSE /\ page' = page /\ reg' = reg
                 /\ script'[t] = <<>>
                 /\ asking'[t] \in {"look", "lookFic"}
         /\ pending' \subseteq {"fic", "msc"}
         /\ asking'[t] \in Asks \ {"none"}
  <1>1. /\ script[t] # <<>>
        /\ script'[t] = Tail(script[t])
        /\ asking'[t] = Head(script[t]).op
        /\ IF Head(script[t]).op = "set" THEN Write(Head(script[t]))
           ELSE UNCHANGED <<page, reg, pending>>
    BY DEF Request, TypeInv
  <1>2. pending \subseteq {"fic", "msc"}
    BY DEF TypeInv
  <1>3. pending' \subseteq {"fic", "msc"}
    BY <1>1, <1>2 DEF Write
  <1>4. CASE s # <<>>
    <2>. DEFINE a == Head(s)
    <2>1. Head(script[t]) = a /\ Tail(script[t]) = Tail(s) \o e
      BY <1>1, <1>4, ScriptStep
    <2>2. a \in Accesses
      BY <1>4, HeadTailProperties
    <2>. HIDE DEF a
    <2>3. a.op \in {"set", "get", "bulk", "raw"}
      BY <2>2 DEF Accesses
    <2>4. page' = After(a, page) /\ reg' = Stored(a, page, reg)
      <3>1. CASE a.op = "set" /\ a.reg = 3
        BY <1>1, <2>1, <3>1 DEF Write, After, Stored, Selects
      <3>2. CASE a.op = "set" /\ a.reg # 3
        BY <1>1, <2>1, <3>2 DEF Write, After, Stored, Selects
      <3>3. CASE a.op # "set"
        BY <1>1, <2>1, <3>3 DEF After, Stored, Selects
      <3>. QED  BY <3>1, <3>2, <3>3
    <2>5. asking'[t] \in Asks \ {"none"}
      BY <1>1, <2>1, <2>3 DEF Asks
    <2>. QED  BY <1>1, <1>3, <1>4, <2>1, <2>2, <2>4, <2>5 DEF a
  <1>5. CASE s = <<>>
    <2>1. e # <<>> /\ Head(script[t]) = e[1] /\ Tail(script[t]) = <<>>
      <3>1. s \o e # <<>>
        BY <1>1
      <3>2. IF s # <<>>
            THEN Head(s \o e) = Head(s) /\ Tail(s \o e) = Tail(s) \o e
            ELSE e # <<>> /\ Head(s \o e) = e[1] /\ Tail(s \o e) = <<>>
        BY <3>1, ScriptStep
      <3>3. e # <<>> /\ Head(s \o e) = e[1] /\ Tail(s \o e) = <<>>
        BY <3>2, <1>5
      <3>. QED  BY <3>3
    <2>2. e = <<LookAccess>> \/ e = <<LookFicAccess>>
      BY <2>1 DEF Endings
    <2>3. e[1].op \in {"look", "lookFic"}
      BY <2>2 DEF LookAccess, LookFicAccess
    <2>4. UNCHANGED <<page, reg, pending>>
      BY <1>1, <2>1, <2>3
    <2>5. asking'[t] \in Asks \ {"none"} /\ asking'[t] \in {"look", "lookFic"}
      BY <1>1, <2>1, <2>3 DEF Asks
    <2>. QED  BY <1>1, <1>3, <1>5, <2>1, <2>4, <2>5
  <1>. QED  BY <1>4, <1>5

(* What a thread does next when its answer has come.                       *)
LEMMA AnswerEffect ==
  ASSUME TypeInv, NEW t \in Threads, Answer(t)
  PROVE  /\ \/ script'[t] = script[t] /\ asking[t] \notin {"look", "lookFic"}
            \/ Steady(script'[t]) /\ asking[t] \in {"look", "lookFic"}
         /\ asking'[t] = "none"
         /\ \A u \in Threads \ {t} : script'[u] = script[u] /\ asking'[u] = asking[u]
         /\ script' \in [Threads -> Scripts] /\ asking' \in [Threads -> Asks]
  <1>. DEFINE next == IF asking[t] = "look" THEN Serve(Head(answers).status)
                      ELSE IF asking[t] = "lookFic"
                      THEN (IF Head(answers).status.fic THEN ReadFicData ELSE <<>>)
                      ELSE script[t]
  <1>1. script' = [script EXCEPT ![t] = next] /\ asking' = [asking EXCEPT ![t] = "none"]
    BY DEF Answer
  <1>2. script \in [Threads -> Scripts] /\ asking \in [Threads -> Asks]
    BY DEF TypeInv
  <1>3. asking[t] \in {"look", "lookFic"} => Steady(next)
    <2>1. Steady(ReadFicData) /\ Steady(<<>>)
      BY ReadDataPasses, SteadyPasses, SteadyNone
    <2>2. asking[t] = "look" => Steady(next)
      BY ServeSteady
    <2>3. asking[t] = "lookFic" => Steady(next)
      BY <2>1
    <2>. QED  BY <2>2, <2>3
  <1>4. asking[t] \notin {"look", "lookFic"} => next = script[t]
    OBVIOUS
  <1>. HIDE DEF next
  <1>5. next \in Scripts
    BY <1>2, <1>3, <1>4, SteadySeq, NoneScript
  <1>6. "none" \in Asks
    BY DEF Asks
  <1>7. script'[t] = next /\ asking'[t] = "none"
    BY <1>1, <1>2
  <1>8. \A u \in Threads \ {t} : script'[u] = script[u] /\ asking'[u] = asking[u]
    BY <1>1, <1>2
  <1>9. script' \in [Threads -> Scripts] /\ asking' \in [Threads -> Asks]
    BY <1>1, <1>2, <1>5, <1>6
  <1>. QED  BY <1>3, <1>4, <1>7, <1>8, <1>9

(* The scripts that the calls start.                                       *)
LEMMA CallScripts ==
  /\ \A tries \in {1, 2, 100} : PowerUp(tries) \in Seq(Accesses)
  /\ \A tries \in {1, 2}, polls \in {1, 10} : InitializeSync(tries, polls) \in Seq(Accesses)
  /\ \A c \in Channels, polls \in {1, 10}, locked \in BOOLEAN :
       SetFrequency(Frequency[c + 1], polls, locked) \o SoftReset \in Seq(Accesses)
  /\ \A s \in 0..63 : /\ ClearAndSetupMscMemory \o OpenSubChannel(s) \in Seq(Accesses)
                      /\ CloseSubchannel(s) \in Seq(Accesses)
  /\ \A c : SteadyCall(c) => c \in Scripts
  <1>. DEFINE m == [x \in Tracked |-> 0]
  <1>1. m \in RegMap /\ COMM \in Pages
    BY PageNames DEF RegMap
  <1>. HIDE DEF m
  <1>2. \A tries \in {1, 2, 100} : PowerUp(tries) \in Seq(Accesses)
    BY <1>1, PowerUpPasses, ReachesTypes DEF Passes
  <1>3. \A tries \in {1, 2}, polls \in {1, 10} : InitializeSync(tries, polls) \in Seq(Accesses)
    <2>. TAKE tries \in {1, 2}, polls \in {1, 10}
    <2>1. PICK q, n : Reaches(COMM, m, InitializeSync(tries, polls), q, n)
      BY <1>1, InitializeSyncRuns
    <2>. QED  BY <2>1, ReachesTypes
  <1>4. \A c \in Channels, polls \in {1, 10}, locked \in BOOLEAN :
          SetFrequency(Frequency[c + 1], polls, locked) \o SoftReset \in Seq(Accesses)
    <2>. TAKE c \in Channels, polls \in {1, 10}, locked \in BOOLEAN
    <2>1. PICK q, n : Reaches(COMM, m, SetFrequency(Frequency[c + 1], polls, locked) \o SoftReset,
                              q, n)
      BY <1>1, TuneRuns
    <2>. QED  BY <2>1, ReachesTypes
  <1>5. ASSUME NEW s \in 0..63
        PROVE  /\ ClearAndSetupMscMemory \o OpenSubChannel(s) \in Seq(Accesses)
               /\ CloseSubchannel(s) \in Seq(Accesses)
    <2>1. s \in Byte /\ 128 + s \in Byte
      BY DEF Byte
    <2>2. OpenSubChannel(s) \in Seq(Accesses) /\ CloseSubchannel(s) \in Seq(Accesses)
      BY <1>1, <2>1, SwitchRuns, ReachesTypes DEF OpenSubChannel, CloseSubchannel
    <2>3. ClearAndSetupMscMemory \in Seq(Accesses)
      BY <1>1, ClearAndSetupRuns, ReachesTypes
    <2>. QED  BY <2>2, <2>3, ConcatProperties
  <1>6. ASSUME NEW c, SteadyCall(c) PROVE c \in Scripts
    <2>1. PICK s, e : c = s \o e /\ e \in Endings /\ Steady(s)
      BY <1>6 DEF SteadyCall
    <2>2. s \in Seq(Accesses)
      BY <2>1, SteadySeq
    <2>. QED  BY <2>1, <2>2, SMTT(40) DEF Scripts
  <1>. QED  BY <1>2, <1>3, <1>4, <1>5, <1>6

LEMMA RunTypes ==
  ASSUME TypeInv, NEW t \in Threads, NEW c \in Scripts, Run(t, c)
  PROVE  /\ page' \in Pages /\ reg' \in RegMap /\ pending' \subseteq {"fic", "msc"}
         /\ script' \in [Threads -> Scripts] /\ asking' \in [Threads -> Asks]
  BY DEF TypeInv, Run

LEMMA TypeNext == TypeInv /\ [Next]_vars => TypeInv'
  <1>. SUFFICES ASSUME TypeInv, [Next]_vars PROVE TypeInv'
    OBVIOUS
  <1>. USE ChipAssumption
  <1>1. ASSUME NEW t \in Threads, Request(t) PROVE TypeInv'
    <2>1. script \in [Threads -> Scripts] /\ asking \in [Threads -> Asks]
      BY DEF TypeInv
    <2>2. PICK s \in Seq(Accesses), e \in Endings : script[t] = s \o e
      BY <2>1 DEF Scripts
    <2>3. /\ IF s # <<>>
             THEN /\ Head(s) \in Accesses
                  /\ page' = After(Head(s), page) /\ reg' = Stored(Head(s), page, reg)
                  /\ script'[t] = Tail(s) \o e
             ELSE page' = page /\ reg' = reg /\ script'[t] = <<>>
          /\ pending' \subseteq {"fic", "msc"}
          /\ asking'[t] \in Asks
      BY <1>1, <2>2, RequestEffect
    <2>4. page' \in Pages /\ reg' \in RegMap
      <3>1. CASE s = <<>>
        BY <2>3, <3>1 DEF TypeInv
      <3>2. CASE s # <<>>
        <4>. DEFINE a == Head(s)
        <4>1. a \in Accesses /\ page' = After(a, page) /\ reg' = Stored(a, page, reg)
          BY <2>3, <3>2
        <4>. HIDE DEF a
        <4>2. a.val \in 0..255 /\ (Selects(a) => a.val \in Pages)
          BY <4>1 DEF Accesses
        <4>3. page' \in Pages
          BY <4>1, <4>2 DEF After, TypeInv
        <4>4. reg' \in RegMap
          <5>1. reg \in RegMap /\ a.val \in -1..255
            BY <4>2 DEF TypeInv
          <5>. DEFINE y == <<page, a.reg>>
          <5>2. reg' = reg \/ reg' = [reg EXCEPT ![y] = a.val]
            BY <4>1 DEF Stored
          <5>. HIDE DEF y
          <5>3. [reg EXCEPT ![y] = a.val] \in RegMap
            BY <5>1 DEF RegMap
          <5>. QED  BY <5>1, <5>2, <5>3
        <4>. QED  BY <4>3, <4>4
      <3>. QED  BY <3>1, <3>2
    <2>5. script'[t] \in Scripts
      <3>1. CASE s = <<>>
        BY <2>3, <3>1, NoneScript
      <3>2. CASE s # <<>>
        <4>. DEFINE z == Tail(s)
        <4>1. z \in Seq(Accesses)
          BY <3>2, HeadTailProperties
        <4>. HIDE DEF z
        <4>2. z \o e \in Scripts
          BY <4>1, ScriptOf
        <4>. QED  BY <2>3, <3>2, <4>2 DEF z
      <3>. QED  BY <3>1, <3>2
    <2>6. script' \in [Threads -> Scripts] /\ asking' \in [Threads -> Asks]
      <3>1. /\ script' = [script EXCEPT ![t] = Tail(script[t])]
            /\ asking' = [asking EXCEPT ![t] = Head(script[t]).op]
        BY <1>1 DEF Request
      <3>2. /\ script' = [script EXCEPT ![t] = script'[t]]
            /\ asking' = [asking EXCEPT ![t] = asking'[t]]
        BY <2>1, <3>1
      <3>. QED  BY <2>1, <2>3, <2>5, <3>2
    <2>. QED  BY <1>1, <2>3, <2>4, <2>6 DEF TypeInv, Request
  <1>2. ASSUME NEW t \in Threads, Answer(t) PROVE TypeInv'
    <2>1. script' \in [Threads -> Scripts] /\ asking' \in [Threads -> Asks]
      BY <1>2, AnswerEffect
    <2>. QED  BY <1>2, <2>1 DEF Answer, TypeInv
  <1>3. ASSUME NEW i \in {"fic", "msc"}, Interrupt(i) PROVE TypeInv'
    BY <1>3 DEF Interrupt, TypeInv
  <1>4. ASSUME NEW tries \in {1, 2, 100}, NEW polls \in {1, 10}, Initialize(tries, polls)
        PROVE  TypeInv'
    <2>. DEFINE c == IF tries = 100 THEN PowerUp(100) ELSE InitializeSync(tries, polls)
    <2>1. c \in Scripts
      <3>1. tries # 100 => tries \in {1, 2}
        OBVIOUS
      <3>. QED  BY <3>1, CallScripts, NoneScript
    <2>2. Run("command", c) /\ powered' = (tries < 100) /\ tuning' = TRUE /\ UNCHANGED <<tuned, opened>>
      BY <1>4 DEF Initialize
    <2>. HIDE DEF c
    <2>3. "command" \in Threads
      BY DEF Threads
    <2>4. /\ page' \in Pages /\ reg' \in RegMap /\ pending' \subseteq {"fic", "msc"}
          /\ script' \in [Threads -> Scripts] /\ asking' \in [Threads -> Asks]
      BY <2>1, <2>2, <2>3, RunTypes
    <2>. QED  BY <2>2, <2>4 DEF TypeInv
  <1>5. ASSUME NEW c \in Tuned, NEW polls \in {1, 10}, NEW locked \in BOOLEAN,
               Tune(c, polls, locked)
        PROVE  TypeInv'
    <2>. DEFINE r == SetFrequency(Frequency[c + 1], polls, locked) \o SoftReset
    <2>1. c \in Channels
      BY DEF ChipAssumption
    <2>2. r \in Scripts
      BY <2>1, CallScripts, NoneScript
    <2>3. /\ Run("command", r)
          /\ tuned' = [clock |-> c, pll |-> IF locked THEN c ELSE tuned.pll]
          /\ tuning' = TRUE
          /\ UNCHANGED <<powered, opened>>
      BY <1>5 DEF Tune
    <2>. HIDE DEF r
    <2>4. "command" \in Threads
      BY DEF Threads
    <2>5. /\ page' \in Pages /\ reg' \in RegMap /\ pending' \subseteq {"fic", "msc"}
          /\ script' \in [Threads -> Scripts] /\ asking' \in [Threads -> Asks]
      BY <2>2, <2>3, <2>4, RunTypes
    <2>6. tuned' \in [clock : -1..40, pll : -1..40]
      <3>1. tuned.pll \in -1..40 /\ c \in -1..40
        BY <2>1 DEF Channels, TypeInv
      <3>. QED  BY <2>3, <3>1
    <2>. QED  BY <2>3, <2>5, <2>6 DEF TypeInv
  <1>6. ASSUME NEW t \in Threads, NEW c \in Scripts, Receive(t, c), opened' \in -1..255
        PROVE  TypeInv'
    <2>1. Run(t, c) /\ tuning' \in BOOLEAN /\ UNCHANGED <<powered, tuned>>
      BY <1>6 DEF Receive, TypeInv
    <2>2. /\ page' \in Pages /\ reg' \in RegMap /\ pending' \subseteq {"fic", "msc"}
          /\ script' \in [Threads -> Scripts] /\ asking' \in [Threads -> Asks]
      BY <2>1, RunTypes
    <2>. QED  BY <1>6, <2>1, <2>2 DEF TypeInv
  <1>7. ASSUME NEW s \in Subchannels, NEW t \in Threads, SetService(t, s) PROVE TypeInv'
    <2>1. s \in 0..63
      BY DEF ChipAssumption
    <2>2. ClearAndSetupMscMemory \o OpenSubChannel(s) \in Scripts
      BY <2>1, CallScripts, NoneScript
    <2>3. opened' \in -1..255
      BY <1>7, <2>1 DEF SetService
    <2>. QED  BY <1>6, <1>7, <2>2, <2>3 DEF SetService
  <1>8. ASSUME NEW s \in Subchannels, Close(s) PROVE TypeInv'
    <2>1. s \in 0..63 /\ "command" \in Threads
      BY DEF ChipAssumption, Threads
    <2>2. CloseSubchannel(s) \in Scripts
      BY <2>1, CallScripts, NoneScript
    <2>3. opened' \in -1..255
      BY <1>8, <2>1 DEF Close
    <2>. QED  BY <1>6, <1>8, <2>1, <2>2, <2>3 DEF Close
  <1>9. ASSUME NEW c, SteadyCall(c), Receive("command", c), UNCHANGED opened PROVE TypeInv'
    <2>1. c \in Scripts /\ "command" \in Threads
      BY <1>9, CallScripts DEF Threads
    <2>2. opened' \in -1..255
      BY <1>9 DEF TypeInv
    <2>. QED  BY <1>6, <1>9, <2>1, <2>2
  <1>10. ASSUME NEW reception \in {"none", "good", "poor"}, ReadAntenna(reception)
         PROVE  TypeInv'
    BY <1>9, <1>10, ReadDataCalls DEF ReadAntenna
  <1>11. ASSUME NEW locked \in BOOLEAN, ScanRead(locked) PROVE TypeInv'
    BY <1>9, <1>11, ScanReadCall DEF ScanRead
  <1>12. CASE Read
    BY <1>9, <1>12, ReadDataCalls DEF Read
  <1>13. CASE UNCHANGED vars
    BY <1>13 DEF vars, TypeInv
  <1>14. "fib" \in Threads /\ "command" \in Threads
    BY DEF Threads
  <1>. QED
    BY <1>1, <1>2, <1>3, <1>4, <1>5, <1>7, <1>8, <1>10, <1>11, <1>12, <1>13, <1>14, ZenonT(60)
       DEF Next, Step

(* The chip's page, registers and interrupts and what the threads ask for  *)
(* keep their types, with both threads using the chip as well.             *)
THEOREM ChipTypes == Spec => []TypeOK
  <1>1. TypeInv => TypeOK
    BY DEF TypeInv, TypeOK, Pages, RegMap, Asks
  <1>. QED  BY <1>1, TypeInit, TypeNext, PTL DEF Spec

-----------------------------------------------------------------------------
(* What the registers of reception hold when the chip is powered or not    *)
(* and the last switch of a subchannel was switch.                         *)
Due(n, on, switch) ==
  /\ on => n[<<DD, \h46>>] = \h16
  /\ n[<<DD, \h3A>>] = switch
  /\ n[<<DD, \h48>>] \in {-1, 5}

LEMMA DueUndisturbed ==
  ASSUME NEW m, NEW n, NEW on, NEW switch, Due(m, on, switch), Undisturbed(m, n)
  PROVE  Due(n, on, switch)
  <1>1. n[<<DD, \h3A>>] = m[<<DD, \h3A>>]
    <2>1. <<DD, \h3A>> \in Tracked
      BY TrackedPairs
    <2>2. <<DD, \h3A>> # <<DD, \h46>> /\ <<DD, \h3A>> # <<DD, \h48>>
      OBVIOUS
    <2>. QED  BY <2>1, <2>2 DEF Undisturbed
  <1>2. on => n[<<DD, \h46>>] = \h16
    BY DEF Due, Undisturbed
  <1>3. n[<<DD, \h48>>] \in {-1, 5}
    BY DEF Due, Undisturbed
  <1>. QED  BY <1>1, <1>2, <1>3 DEF Due

(* Switching a subchannel changes one register.                            *)
LEMMA DueSwitched ==
  ASSUME NEW m, NEW n, NEW on, NEW switch, NEW val,
         Due(m, on, switch), n[<<DD, \h3A>>] = val,
         \A x \in Tracked : x # <<DD, \h3A>> => n[x] = m[x]
  PROVE  Due(n, on, val)
  <1>1. n[<<DD, \h46>>] = m[<<DD, \h46>>] /\ n[<<DD, \h48>>] = m[<<DD, \h48>>]
    <2>1. <<DD, \h46>> \in Tracked /\ <<DD, \h48>> \in Tracked
      BY TrackedPairs
    <2>2. <<DD, \h46>> # <<DD, \h3A>> /\ <<DD, \h48>> # <<DD, \h3A>>
      OBVIOUS
    <2>. QED  BY <2>1, <2>2
  <1>. QED  BY <1>1 DEF Due

(* A tuning leaves these registers alone.                                  *)
LEMMA DueTuned ==
  ASSUME NEW m, NEW n, NEW on, NEW switch, NEW c, NEW locked,
         Due(m, on, switch), TunedTo(m, n, c, locked)
  PROVE  Due(n, on, switch)
  <1>1. PICK k \in RegMap :
          /\ Clocked(m, k, ClockType[c + 1])
          /\ \A x \in Tracked : x[1] # RF \/ x[2] >= \hE8 => n[x] = k[x]
    BY DEF TunedTo
  <1>2. \A r : <<DD, r>> \in Tracked => n[<<DD, r>>] = m[<<DD, r>>]
    <2>. SUFFICES ASSUME NEW r, <<DD, r>> \in Tracked PROVE n[<<DD, r>>] = m[<<DD, r>>]
      OBVIOUS
    <2>. DEFINE x == <<DD, r>>
    <2>1. x \in Tracked /\ x[1] # RF /\ x[1] = DD
      BY PageNames
    <2>. HIDE DEF x
    <2>2. n[x] = k[x] /\ k[x] = m[x]
      BY <1>1, <2>1 DEF Clocked
    <2>. QED  BY <2>2 DEF x
  <1>3. /\ n[<<DD, \h46>>] = m[<<DD, \h46>>] /\ n[<<DD, \h48>>] = m[<<DD, \h48>>]
        /\ n[<<DD, \h3A>>] = m[<<DD, \h3A>>]
    BY <1>2, TrackedPairs
  <1>. QED  BY <1>3 DEF Due

-----------------------------------------------------------------------------
(* At most one thread uses the chip, and what it has still to do sets the  *)
(* registers as they are due.  Before it acts on a status it has nothing   *)
(* else to do.                                                             *)
Running(t) ==
  /\ \A u \in Threads : u # t => Idle(u)
  /\ \E s, e, q, n :
       /\ s \in Seq(Accesses) /\ e \in Endings
       /\ script[t] = s \o e
       /\ Reaches(page, reg, s, q, n)
       /\ Due(n, powered, opened)
  /\ asking[t] \in {"look", "lookFic"} => script[t] = <<>>

(* The endpoint holds the answer a thread waits for and nothing else.      *)
Waiting(t) ==
  /\ asking[t] = "none" => answers = <<>>
  /\ asking[t] # "none" =>
       \E status : answers = <<[to |-> t, op |-> asking[t], status |-> status]>>

Alone == \E t \in Threads : Running(t) /\ Waiting(t)

ChipInv == TypeInv /\ Alone

LEMMA AloneInit == Init => Alone
  <1>. SUFFICES ASSUME Init PROVE Alone
    OBVIOUS
  <1>1. "command" \in Threads
    BY DEF Threads
  <1>2. \A u \in Threads : script[u] = <<>> /\ asking[u] = "none"
    BY DEF Init
  <1>3. page \in Pages /\ reg \in RegMap
    BY TypeInit DEF TypeInv
  <1>4. powered = FALSE /\ opened = -1 /\ answers = <<>>
    BY DEF Init
  <1>5. Due(reg, powered, opened)
    <2>1. reg[<<DD, \h3A>>] = -1 /\ reg[<<DD, \h48>>] = -1
      BY TrackedPairs DEF Init
    <2>2. reg[<<DD, \h48>>] \in {-1, 5}
      BY <2>1
    <2>. QED  BY <1>4, <2>1, <2>2 DEF Due
  <1>6. Reaches(page, reg, <<>>, page, reg)
    BY <1>3, ReachesNone
  <1>7. <<>> \in Seq(Accesses) /\ <<>> \in Endings /\ <<>> \o <<>> = <<>>
    BY EndingTypes DEF Endings
  <1>8. Running("command")
    BY <1>1, <1>2, <1>5, <1>6, <1>7 DEF Running, Idle
  <1>9. Waiting("command")
    BY <1>1, <1>2, <1>4 DEF Waiting
  <1>. QED  BY <1>1, <1>8, <1>9 DEF Alone

(* Between two routines the registers are as they are due.                 *)
LEMMA DueBetween ==
  ASSUME Alone, \A u \in Threads : Idle(u)
  PROVE  Due(reg, powered, opened) /\ answers = <<>>
  <1>1. PICK t \in Threads : Running(t) /\ Waiting(t)
    BY DEF Alone
  <1>2. script[t] = <<>> /\ asking[t] = "none"
    BY DEF Idle
  <1>3. PICK s, e, q, n :
          /\ s \in Seq(Accesses) /\ e \in Endings
          /\ script[t] = s \o e
          /\ Reaches(page, reg, s, q, n)
          /\ Due(n, powered, opened)
    BY <1>1 DEF Running
  <1>4. s = <<>>
    BY <1>2, <1>3, EmptyScript
  <1>5. n = reg
    BY <1>3, <1>4, ReachesEnd
  <1>. QED  BY <1>1, <1>2, <1>3, <1>5 DEF Waiting

(* A routine that is started and sets the registers as they are then due.  *)
LEMMA AloneRun ==
  ASSUME TypeInv, Alone, ~Sharing, NEW t \in Threads, NEW c, Run(t, c),
         NEW s, NEW e \in Endings, c = s \o e, NEW q, NEW n,
         Reaches(page, reg, s, q, n), Due(n, powered', opened')
  PROVE  Alone'
  <1>1. /\ \A u \in Threads : Idle(u)
        /\ script' = [script EXCEPT ![t] = c]
        /\ UNCHANGED <<page, reg, pending, answers, asking>>
    BY DEF Run
  <1>2. script \in [Threads -> Scripts]
    BY DEF TypeInv
  <1>3. script'[t] = c /\ \A u \in Threads : u # t => script'[u] = script[u]
    BY <1>1, <1>2
  <1>4. \A u \in Threads : u # t => Idle(u)'
    BY <1>1, <1>3 DEF Idle
  <1>5. asking'[t] = "none" /\ answers' = <<>>
    BY <1>1, DueBetween DEF Idle
  <1>6. s \in Seq(Accesses)
    BY ReachesTypes
  <1>7. /\ script'[t] = s \o e
        /\ Reaches(page', reg', s, q, n)
    BY <1>1, <1>3
  <1>8. Running(t)'
    BY <1>4, <1>5, <1>6, <1>7 DEF Running
  <1>9. Waiting(t)'
    BY <1>5 DEF Waiting
  <1>. QED  BY <1>8, <1>9 DEF Alone

LEMMA AloneRequest ==
  ASSUME TypeInv, Alone, NEW u \in Threads, Request(u)
  PROVE  Alone'
  <1>1. PICK t \in Threads : Running(t) /\ Waiting(t)
    BY DEF Alone
  <1>2. /\ script[u] # <<>> /\ asking[u] = "none"
        /\ script' = [script EXCEPT ![u] = Tail(@)]
        /\ \E status : answers' = Append(answers, [to |-> u, op |-> Head(script[u]).op,
                                                   status |-> status])
        /\ asking' = [asking EXCEPT ![u] = Head(script[u]).op]
        /\ UNCHANGED <<powered, tuned, opened>>
    BY DEF Request
  <1>3. u = t
    BY <1>1, <1>2 DEF Running, Idle
  <1>4. script \in [Threads -> Scripts] /\ asking \in [Threads -> Asks]
    BY DEF TypeInv
  <1>5. PICK s, e, q, n :
          /\ s \in Seq(Accesses) /\ e \in Endings
          /\ script[t] = s \o e
          /\ Reaches(page, reg, s, q, n)
          /\ Due(n, powered, opened)
    BY <1>1 DEF Running
  <1>6. /\ IF s # <<>>
           THEN /\ Head(s) \in Accesses
                /\ page' = After(Head(s), page) /\ reg' = Stored(Head(s), page, reg)
                /\ script'[t] = Tail(s) \o e
                /\ asking'[t] = Head(s).op
           ELSE /\ page' = page /\ reg' = reg
                /\ script'[t] = <<>>
                /\ asking'[t] \in {"look", "lookFic"}
        /\ asking'[t] \in Asks \ {"none"}
    BY <1>3, <1>5, RequestEffect
  <1>7. \A v \in Threads : v # t => script'[v] = script[v] /\ asking'[v] = asking[v]
    BY <1>2, <1>3, <1>4
  <1>8. \A v \in Threads : v # t => Idle(v)'
    BY <1>1, <1>7 DEF Running, Idle
  <1>9. Waiting(t)'
    <2>1. answers = <<>>
      BY <1>1, <1>2, <1>3 DEF Waiting
    <2>2. asking'[t] = Head(script[t]).op /\ asking'[t] # "none"
      BY <1>2, <1>3, <1>4, <1>6
    <2>3. PICK status : answers' = Append(<<>>, [to |-> t, op |-> asking'[t], status |-> status])
      BY <1>2, <1>3, <2>1, <2>2
    <2>4. answers' = <<[to |-> t, op |-> asking'[t], status |-> status]>>
      BY <2>3
    <2>. QED  BY <2>2, <2>4 DEF Waiting
  <1>10. Running(t)'
    <2>1. CASE s # <<>>
      <3>1. /\ Reaches(page', reg', Tail(s), q, n)
            /\ Head(s) \in Accesses
        BY <1>5, <1>6, <2>1, ReachesStep
      <3>2. script'[t] = Tail(s) \o e /\ Due(n, powered', opened')
        BY <1>2, <1>5, <1>6, <2>1
      <3>3. asking'[t] \notin {"look", "lookFic"}
        BY <1>6, <2>1, <3>1 DEF Accesses
      <3>. DEFINE z == Tail(s)
      <3>4. z \in Seq(Accesses)
        BY <3>1, ReachesTypes
      <3>. HIDE DEF z
      <3>5. Reaches(page', reg', z, q, n) /\ script'[t] = z \o e
        BY <3>1, <3>2 DEF z
      <3>. QED  BY <1>5, <1>8, <3>2, <3>3, <3>4, <3>5 DEF Running
    <2>2. CASE s = <<>>
      <3>1. Reaches(page', reg', <<>>, q, n)
        BY <1>5, <1>6, <2>2
      <3>2. script'[t] = <<>> /\ Due(n, powered', opened')
        BY <1>2, <1>5, <1>6, <2>2
      <3>3. <<>> \in Seq(Accesses) /\ <<>> \in Endings /\ <<>> \o <<>> = <<>>
        BY EndingTypes DEF Endings
      <3>. QED  BY <1>8, <3>1, <3>2, <3>3 DEF Running
    <2>. QED  BY <2>1, <2>2
  <1>. QED  BY <1>9, <1>10 DEF Alone

LEMMA AloneAnswer ==
  ASSUME TypeInv, Alone, NEW u \in Threads, Answer(u)
  PROVE  Alone'
  <1>1. PICK t \in Threads : Running(t) /\ Waiting(t)
    BY DEF Alone
  <1>2. /\ asking[u] # "none" /\ answers' = Tail(answers)
        /\ UNCHANGED <<page, reg, powered, opened>>
    BY DEF Answer
  <1>3. u = t
    BY <1>1, <1>2 DEF Running, Idle
  <1>4. PICK s, e, q, n :
          /\ s \in Seq(Accesses) /\ e \in Endings
          /\ script[t] = s \o e
          /\ Reaches(page, reg, s, q, n)
          /\ Due(n, powered, opened)
    BY <1>1 DEF Running
  <1>5. /\ \/ script'[t] = script[t] /\ asking[t] \notin {"look", "lookFic"}
           \/ Steady(script'[t]) /\ asking[t] \in {"look", "lookFic"}
        /\ asking'[t] = "none"
        /\ \A v \in Threads \ {t} : script'[v] = script[v] /\ asking'[v] = asking[v]
    BY <1>3, AnswerEffect
  <1>6. \A v \in Threads : v # t => Idle(v)'
    BY <1>1, <1>5 DEF Running, Idle
  <1>7. Waiting(t)'
    <2>1. PICK status : answers = <<[to |-> t, op |-> asking[t], status |-> status]>>
      BY <1>1, <1>2, <1>3 DEF Waiting
    <2>. DEFINE a == [to |-> t, op |-> asking[t], status |-> status]
    <2>. HIDE DEF a
    <2>2. answers = <<a>>
      BY <2>1 DEF a
    <2>3. answers' = <<>>
      BY <1>2, <2>2, Single
    <2>. QED  BY <1>5, <2>3 DEF Waiting
  <1>8. Running(t)'
    <2>1. CASE script'[t] = script[t]
      <3>1. script'[t] = s \o e /\ Reaches(page', reg', s, q, n)
        BY <1>2, <1>4, <2>1
      <3>2. Due(n, powered', opened')
        BY <1>2, <1>4
      <3>. QED  BY <1>4, <1>5, <1>6, <3>1, <3>2 DEF Running
    <2>2. CASE Steady(script'[t]) /\ asking[t] \in {"look", "lookFic"}
      <3>1. script[t] = <<>>
        BY <1>1, <2>2 DEF Running
      <3>2. s = <<>>
        BY <1>4, <3>1, EmptyScript
      <3>3. n = reg
        BY <1>4, <3>2, ReachesEnd
      <3>4. page \in Pages /\ reg \in RegMap
        BY <1>4, ReachesTypes
      <3>. DEFINE c == script'[t]
      <3>5. PICK q2, n2 : Reaches(page, reg, c, q2, n2) /\ Undisturbed(reg, n2)
        BY <2>2, <3>4 DEF Steady
      <3>6. Due(n2, powered, opened)
        BY <1>4, <3>3, <3>5, DueUndisturbed
      <3>7. c \in Seq(Accesses) /\ c = c \o <<>> /\ <<>> \in Endings
        BY <3>5, ReachesTypes, EndingTypes DEF Endings
      <3>. HIDE DEF c
      <3>8. script'[t] = c \o <<>>
        BY <3>7 DEF c
      <3>9. Reaches(page', reg', c, q2, n2) /\ Due(n2, powered', opened')
        BY <1>2, <3>5, <3>6
      <3>. QED  BY <1>5, <1>6, <3>7, <3>8, <3>9 DEF Running
    <2>. QED  BY <1>5, <2>1, <2>2
  <1>. QED  BY <1>7, <1>8 DEF Alone

LEMMA ChipNext == ASSUME ~Sharing PROVE ChipInv /\ [Next]_vars => ChipInv'
  <1>. SUFFICES ASSUME ChipInv, [Next]_vars PROVE Alone'
    BY TypeNext DEF ChipInv
  <1>. USE ChipAssumption
  <1>1. TypeInv /\ Alone /\ page \in Pages /\ reg \in RegMap
    BY DEF ChipInv, TypeInv
  <1>2. ASSUME NEW t \in Threads, Request(t) PROVE Alone'
    BY <1>1, <1>2, AloneRequest
  <1>3. ASSUME NEW t \in Threads, Answer(t) PROVE Alone'
    BY <1>1, <1>3, AloneAnswer
  <1>4. ASSUME UNCHANGED <<page, reg, answers, script, asking, powered, opened>>
        PROVE  Alone'
    BY <1>1, <1>4 DEF Alone, Running, Waiting, Idle
  <1>5. ASSUME NEW tries \in {1, 2, 100}, NEW polls \in {1, 10}, Initialize(tries, polls)
        PROVE  Alone'
    <2>. DEFINE c == IF tries = 100 THEN PowerUp(100) ELSE InitializeSync(tries, polls)
    <2>1. Run("command", c) /\ powered' = (tries < 100) /\ UNCHANGED opened
      BY <1>5 DEF Initialize
    <2>2. Due(reg, powered, opened)
      BY <1>1, <2>1, DueBetween DEF Run
    <2>3. \E q, n : Reaches(page, reg, c, q, n) /\ Due(n, powered', opened')
      <3>1. ASSUME tries = 100
            PROVE  \E q, n : Reaches(page, reg, c, q, n) /\ Due(n, powered', opened')
        <4>1. Reaches(page, reg, c, HOST, reg)
          BY <1>1, <3>1, PowerUpPasses DEF Passes
        <4>2. ~powered'
          BY <2>1, <3>1
        <4>3. Due(reg, powered', opened')
          BY <2>1, <2>2, <4>2 DEF Due
        <4>. QED  BY <4>1, <4>3
      <3>2. ASSUME tries # 100
            PROVE  \E q, n : Reaches(page, reg, c, q, n) /\ Due(n, powered', opened')
        <4>1. tries \in {1, 2} /\ c = InitializeSync(tries, polls)
          BY <3>2
        <4>. HIDE DEF c
        <4>2. PICK q, n : /\ Reaches(page, reg, c, q, n)
                          /\ n[<<DD, \h46>>] = \h16
                          /\ n[<<DD, \h3A>>] = reg[<<DD, \h3A>>]
                          /\ n[<<DD, \h48>>] = reg[<<DD, \h48>>]
          BY <1>1, <4>1, InitializeSyncRuns
        <4>3. Due(n, powered', opened')
          BY <2>1, <2>2, <4>2 DEF Due
        <4>. QED  BY <4>2, <4>3
      <3>. QED  BY <3>1, <3>2
    <2>. HIDE DEF c
    <2>4. PICK q, n : Reaches(page, reg, c, q, n) /\ Due(n, powered', opened')
      BY <2>3
    <2>5. c = c \o <<>> /\ <<>> \in Endings /\ "command" \in Threads
      BY <2>4, ReachesTypes, EndingTypes DEF Endings, Threads
    <2>. QED  BY <1>1, <2>1, <2>4, <2>5, AloneRun
  <1>6. ASSUME NEW k \in Tuned, NEW polls \in {1, 10}, NEW locked \in BOOLEAN,
               Tune(k, polls, locked)
        PROVE  Alone'
    <2>. DEFINE c == SetFrequency(Frequency[k + 1], polls, locked) \o SoftReset
    <2>1. k \in Channels
      BY DEF ChipAssumption
    <2>2. Run("command", c) /\ UNCHANGED <<powered, opened>>
      BY <1>6 DEF Tune
    <2>3. Due(reg, powered, opened)
      BY <1>1, <2>2, DueBetween DEF Run
    <2>4. PICK q, n : Reaches(page, reg, c, q, n) /\ TunedTo(reg, n, k, locked)
      BY <1>1, <2>1, TuneRuns
    <2>. HIDE DEF c
    <2>5. Due(n, powered', opened')
      <3>1. Due(n, powered, opened)
        BY <2>3, <2>4, DueTuned
      <3>. QED  BY <2>2, <3>1
    <2>6. c = c \o <<>> /\ <<>> \in Endings /\ "command" \in Threads
      BY <2>4, ReachesTypes, EndingTypes DEF Endings, Threads
    <2>. QED  BY <1>1, <2>2, <2>4, <2>5, <2>6, AloneRun
  <1>7. ASSUME NEW t \in Threads, NEW c, Receive(t, c), NEW s, NEW e \in Endings, c = s \o e,
               NEW q, NEW n, Reaches(page, reg, s, q, n), Due(n, powered, opened')
        PROVE  Alone'
    <2>1. Run(t, c) /\ UNCHANGED powered
      BY <1>7 DEF Receive
    <2>2. Due(n, powered', opened')
      BY <1>7, <2>1
    <2>. QED  BY <1>1, <1>7, <2>1, <2>2, AloneRun
  <1>8. ASSUME NEW t \in Threads, NEW c, Receive(t, c)
        PROVE  Due(reg, powered, opened)
    BY <1>1, <1>8, DueBetween DEF Receive, Run
  <1>9. ASSUME NEW k \in Subchannels, NEW t \in Threads, SetService(t, k)
        PROVE  Alone'
    <2>. DEFINE c == ClearAndSetupMscMemory \o OpenSubChannel(k)
    <2>1. 128 + k \in Byte
      BY DEF Byte
    <2>2. Receive(t, c) /\ opened' = 128 + k
      BY <1>9 DEF SetService
    <2>3. Due(reg, powered, opened)
      BY <1>8, <2>2
    <2>4. PICK m : Reaches(page, reg, ClearAndSetupMscMemory, DD, m) /\ Undisturbed(reg, m)
      BY <1>1, ClearAndSetupRuns
    <2>5. Due(m, powered, opened)
      BY <2>3, <2>4, DueUndisturbed
    <2>6. m \in RegMap /\ DD \in Pages
      BY <2>4, ReachesTypes
    <2>7. PICK n : /\ Reaches(DD, m, OpenSubChannel(k), DD, n)
                   /\ n[<<DD, \h3A>>] = 128 + k
                   /\ \A x \in Tracked : x # <<DD, \h3A>> => n[x] = m[x]
      BY <2>1, <2>6, SwitchRuns DEF OpenSubChannel
    <2>8. Due(n, powered, opened')
      <3>1. Due(n, powered, 128 + k)
        BY <2>5, <2>7, DueSwitched
      <3>. QED  BY <2>2, <3>1
    <2>9. Reaches(page, reg, c, DD, n)
      BY <2>4, <2>7, ReachesJoin
    <2>. HIDE DEF c
    <2>10. c = c \o <<>> /\ <<>> \in Endings
      BY <2>9, ReachesTypes, EndingTypes DEF Endings
    <2>. QED  BY <1>7, <2>2, <2>8, <2>9, <2>10
  <1>10. ASSUME NEW k \in Subchannels, Close(k) PROVE Alone'
    <2>. DEFINE c == CloseSubchannel(k)
    <2>1. k \in Byte /\ "command" \in Threads
      BY DEF Byte, Threads
    <2>2. Receive("command", c) /\ opened' = k
      BY <1>10 DEF Close
    <2>3. Due(reg, powered, opened)
      BY <1>8, <2>1, <2>2
    <2>4. PICK n : /\ Reaches(page, reg, c, DD, n)
                   /\ n[<<DD, \h3A>>] = k
                   /\ \A x \in Tracked : x # <<DD, \h3A>> => n[x] = reg[x]
      BY <1>1, <2>1, SwitchRuns DEF CloseSubchannel
    <2>5. Due(n, powered, opened')
      <3>1. Due(n, powered, k)
        BY <2>3, <2>4, DueSwitched
      <3>. QED  BY <2>2, <3>1
    <2>. HIDE DEF c
    <2>6. c = c \o <<>> /\ <<>> \in Endings
      BY <2>4, ReachesTypes, EndingTypes DEF Endings
    <2>. QED  BY <1>7, <2>1, <2>2, <2>4, <2>5, <2>6
  <1>11. ASSUME NEW c, SteadyCall(c), Receive("command", c), UNCHANGED opened
         PROVE  Alone'
    <2>1. "command" \in Threads
      BY DEF Threads
    <2>2. Due(reg, powered, opened)
      BY <1>8, <1>11, <2>1
    <2>3. PICK s, e : c = s \o e /\ e \in Endings /\ Steady(s)
      BY <1>11 DEF SteadyCall
    <2>4. PICK q, n : Reaches(page, reg, s, q, n) /\ Undisturbed(reg, n)
      BY <1>1, <2>3 DEF Steady
    <2>5. Due(n, powered, opened')
      <3>1. Due(n, powered, opened)
        BY <2>2, <2>4, DueUndisturbed
      <3>. QED  BY <1>11, <3>1
    <2>. QED  BY <1>7, <1>11, <2>1, <2>3, <2>4, <2>5
  <1>12. ASSUME NEW reception \in {"none", "good", "poor"}, ReadAntenna(reception)
         PROVE  Alone'
    BY <1>11, <1>12, ReadDataCalls DEF ReadAntenna
  <1>13. ASSUME NEW locked \in BOOLEAN, ScanRead(locked) PROVE Alone'
    BY <1>11, <1>13, ScanReadCall DEF ScanRead
  <1>14. ASSUME Read PROVE Alone'
    BY <1>11, <1>14, ReadDataCalls DEF Read
  <1>15. ASSUME NEW i \in {"fic", "msc"}, Interrupt(i) PROVE Alone'
    <2>1. UNCHANGED <<page, reg, answers, script, asking, powered, opened>>
      BY <1>15 DEF Interrupt
    <2>. QED  BY <1>4, <2>1
  <1>16. ASSUME UNCHANGED vars PROVE Alone'
    <2>1. UNCHANGED <<page, reg, answers, script, asking, powered, opened>>
      BY <1>16 DEF vars
    <2>. QED  BY <1>4, <2>1
  <1>17. "fib" \in Threads /\ "command" \in Threads
    BY DEF Threads
  <1>. QED
    BY <1>2, <1>3, <1>5, <1>6, <1>9, <1>10, <1>12, <1>13, <1>14, <1>15, <1>16, <1>17, ZenonT(60)
       DEF Next, Step

LEMMA ChipInvariant == ASSUME ~Sharing PROVE Spec => []ChipInv
  <1>1. Init => ChipInv
    BY TypeInit, AloneInit DEF ChipInv
  <1>2. ChipInv /\ [Next]_vars => ChipInv'
    BY ChipNext
  <1>. QED  BY <1>1, <1>2, PTL DEF Spec

LEMMA DueWhenQuiet == ChipInv /\ Quiet => Due(reg, powered, opened) /\ powered
  BY DueBetween DEF ChipInv, Quiet

(* Between two routines the FIC is set up, and the subchannel register and *)
(* the MSC memory are as the last setService or closeSubchannel left them: *)
(* no other routine writes to these registers through a page that another  *)
(* one has left selected, and none leaves them half way.                   *)
THEOREM ReceptionStays == ASSUME ~Sharing PROVE Spec => []ReceptionSetUp
  <1>1. ChipInv => ReceptionSetUp
    BY DueWhenQuiet DEF ReceptionSetUp, Due
  <1>. QED  BY <1>1, ChipInvariant, PTL

(* What a thread reads from the endpoint answers its own request: there is *)
(* never another request than the one whose answer is awaited.             *)
THEOREM AnswersAreOwn == ASSUME ~Sharing PROVE Spec => OwnAnswer
  <1>. DEFINE Own == \A t \in Threads :
                       asking[t] # "none" /\ asking'[t] = "none" =>
                         Head(answers).to = t /\ Head(answers).op = asking[t]
  <1>1. ChipInv /\ [Next]_vars => [Own]_vars
    <2>. SUFFICES ASSUME ChipInv, NEW t \in Threads, asking[t] # "none"
                  PROVE  Head(answers).to = t /\ Head(answers).op = asking[t]
      OBVIOUS
    <2>1. PICK u \in Threads : Running(u) /\ Waiting(u)
      BY DEF ChipInv, Alone
    <2>2. t = u
      BY <2>1 DEF Running, Idle
    <2>3. PICK status : answers = <<[to |-> t, op |-> asking[t], status |-> status]>>
      BY <2>1, <2>2 DEF Waiting
    <2>. DEFINE a == [to |-> t, op |-> asking[t], status |-> status]
    <2>4. a.to = t /\ a.op = asking[t]
      OBVIOUS
    <2>. HIDE DEF a
    <2>5. answers = <<a>>
      BY <2>3 DEF a
    <2>6. Head(answers) = a
      BY <2>5, Single
    <2>. QED  BY <2>4, <2>6
  <1>. QED  BY <1>1, ChipInvariant, PTL DEF Spec, OwnAnswer

-----------------------------------------------------------------------------
(* The rows of a channel's clock and of its PLL, when one was tuned.       *)
ClockRows(n, c) ==
  c # -1 =>
    /\ \A i \in 1..7 : n[<<RF, \hE8 + i - 1>>] = Synthesiser[ClockType[c + 1] + 1][i]
    /\ \A i \in 1..8 : n[<<FM, \h3C + i - 1>>] = Oscillator[ClockType[c + 1] + 1][i]
    /\ n[<<COMM, \h6A>>] = IF ClockType[c + 1] = 3 THEN \h31 ELSE 1

PllRows(n, c) ==
  c # -1 => \A i \in 1..4 : n[<<RF, \h23 + i - 1>>] = PllBytes(PllNF[c + 1])[i]

LEMMA RowsKept ==
  ASSUME NEW m, NEW n, NEW c, \A x \in Tracked : x[1] # DD => n[x] = m[x]
  PROVE  (ClockRows(m, c) => ClockRows(n, c)) /\ (PllRows(m, c) => PllRows(n, c))
  <1>1. \A i \in 1..7 : n[<<RF, \hE8 + i - 1>>] = m[<<RF, \hE8 + i - 1>>]
    <2>. TAKE i \in 1..7
    <2>. DEFINE x == <<RF, \hE8 + i - 1>>
    <2>1. x \in Tracked /\ x[1] # DD
      BY TrackedPairs, PageNames
    <2>. HIDE DEF x
    <2>2. n[x] = m[x]
      BY <2>1
    <2>. QED  BY <2>2 DEF x
  <1>2. \A i \in 1..8 : n[<<FM, \h3C + i - 1>>] = m[<<FM, \h3C + i - 1>>]
    <2>. TAKE i \in 1..8
    <2>. DEFINE x == <<FM, \h3C + i - 1>>
    <2>1. x \in Tracked /\ x[1] # DD
      BY TrackedPairs, PageNames
    <2>. HIDE DEF x
    <2>2. n[x] = m[x]
      BY <2>1
    <2>. QED  BY <2>2 DEF x
  <1>3. \A i \in 1..4 : n[<<RF, \h23 + i - 1>>] = m[<<RF, \h23 + i - 1>>]
    <2>. TAKE i \in 1..4
    <2>. DEFINE x == <<RF, \h23 + i - 1>>
    <2>1. x \in Tracked /\ x[1] # DD
      BY TrackedPairs, PageNames
    <2>. HIDE DEF x
    <2>2. n[x] = m[x]
      BY <2>1
    <2>. QED  BY <2>2 DEF x
  <1>4. n[<<COMM, \h6A>>] = m[<<COMM, \h6A>>]
    BY TrackedPairs, PageNames
  <1>5. ASSUME ClockRows(m, c) PROVE ClockRows(n, c)
    BY <1>1, <1>2, <1>4, <1>5 DEF ClockRows
  <1>6. ASSUME PllRows(m, c) PROVE PllRows(n, c)
    BY <1>3, <1>6 DEF PllRows
  <1>. QED  BY <1>5, <1>6

(* A tuning writes the rows of its channel.                                *)
LEMMA RowsTuned ==
  ASSUME NEW m, NEW n, NEW last, NEW c \in Channels, NEW locked \in BOOLEAN,
         PllRows(m, last), TunedTo(m, n, c, locked)
  PROVE  ClockRows(n, c) /\ PllRows(n, IF locked THEN c ELSE last)
  <1>1. PICK k \in RegMap :
          /\ Clocked(m, k, ClockType[c + 1])
          /\ \A i \in 1..4 : n[<<RF, \h23 + i - 1>>]
               = IF locked THEN PllBytes(PllNF[c + 1])[i] ELSE k[<<RF, \h23 + i - 1>>]
          /\ \A x \in Tracked : x[1] # RF \/ x[2] >= \hE8 => n[x] = k[x]
    BY DEF TunedTo
  <1>2. \A i \in 1..7 : n[<<RF, \hE8 + i - 1>>] = k[<<RF, \hE8 + i - 1>>]
    <2>. TAKE i \in 1..7
    <2>. DEFINE x == <<RF, \hE8 + i - 1>>
    <2>1. x \in Tracked /\ x[2] >= \hE8
      BY TrackedPairs
    <2>. HIDE DEF x
    <2>2. n[x] = k[x]
      BY <1>1, <2>1
    <2>. QED  BY <2>2 DEF x
  <1>3. \A i \in 1..8 : n[<<FM, \h3C + i - 1>>] = k[<<FM, \h3C + i - 1>>]
    <2>. TAKE i \in 1..8
    <2>. DEFINE x == <<FM, \h3C + i - 1>>
    <2>1. x \in Tracked /\ x[1] # RF
      BY TrackedPairs DEF FM, RF
    <2>. HIDE DEF x
    <2>2. n[x] = k[x]
      BY <1>1, <2>1
    <2>. QED  BY <2>2 DEF x
  <1>4. n[<<COMM, \h6A>>] = k[<<COMM, \h6A>>]
    <2>. DEFINE x == <<COMM, \h6A>>
    <2>1. x \in Tracked /\ x[1] # RF
      BY TrackedPairs DEF COMM, RF
    <2>. HIDE DEF x
    <2>2. n[x] = k[x]
      BY <1>1, <2>1
    <2>. QED  BY <2>2 DEF x
  <1>5. ClockRows(n, c)
    BY <1>1, <1>2, <1>3, <1>4 DEF ClockRows, Clocked
  <1>6. ASSUME locked PROVE PllRows(n, c)
    BY <1>1, <1>6 DEF PllRows
  <1>7. ASSUME ~locked PROVE PllRows(n, last)
    BY <1>1, <1>7, SMTT(40) DEF PllRows, Clocked
  <1>. QED  BY <1>5, <1>6, <1>7

(* Accesses that leave the tuning alone whatever page is selected: none of *)
(* the numbers they write to is a tracked one on a page of the tuning.     *)
Harmless ==
  {a \in [op : {"set", "get", "bulk", "look", "lookFic"}, reg : Nat, val : Nat] :
     a.op = "set" => a.reg \in {3, \h35, \h3A, \h46, \h48, \h62}}

LEMMA HarmlessKeeps ==
  ASSUME NEW a \in Harmless, NEW p, NEW m \in RegMap, NEW x \in Tracked, x[1] # DD
  PROVE  Stored(a, p, m)[x] = m[x]
  <1>1. \A r \in {\h35, \h3A, \h46, \h48, \h62} : <<p, r>> \in Tracked => p = DD
    BY SMT DEF Tracked, COMM, FM, DD, RF
  <1>2. ASSUME a.op = "set", a.reg # 3, <<p, a.reg>> \in Tracked
        PROVE  x # <<p, a.reg>>
    <2>1. a.reg \in {\h35, \h3A, \h46, \h48, \h62}
      BY <1>2 DEF Harmless
    <2>2. p = DD
      BY <1>1, <1>2, <2>1
    <2>. QED  BY <2>2
  <1>. DEFINE y == <<p, a.reg>>
  <1>. HIDE DEF y
  <1>3. x # y => [m EXCEPT ![y] = a.val][x] = m[x]
    BY DEF RegMap
  <1>. QED  BY <1>2, <1>3 DEF Stored, y

LEMMA HarmlessOne ==
  /\ <<>> \in Seq(Harmless)
  /\ \A p \in Pages : Page(p) \in Seq(Harmless)
  /\ \A r \in {\h35, \h3A, \h46, \h48, \h62}, v \in Nat : Set(r, v) \in Seq(Harmless)
  /\ \A r \in Nat : Get(r) \in Seq(Harmless) /\ Get(r)[1] \in Harmless
  /\ Bulk \in Seq(Harmless) /\ Look \in Seq(Harmless) /\ LookFic \in Seq(Harmless)
  <1>1. \A op \in {"set", "get", "bulk", "look", "lookFic"}, r, v \in Nat :
          (op = "set" => r \in {3, \h35, \h3A, \h46, \h48, \h62}) =>
            Access(op, r, v) \in Seq(Harmless) /\ Access(op, r, v)[1] \in Harmless
    <2>. SUFFICES ASSUME NEW op \in {"set", "get", "bulk", "look", "lookFic"},
                         NEW r \in Nat, NEW v \in Nat,
                         op = "set" => r \in {3, \h35, \h3A, \h46, \h48, \h62}
                  PROVE  /\ Access(op, r, v) \in Seq(Harmless)
                         /\ Access(op, r, v)[1] \in Harmless
      OBVIOUS
    <2>. DEFINE a == [op |-> op, reg |-> r, val |-> v]
    <2>1. a \in Harmless
      BY DEF Harmless
    <2>. HIDE DEF a
    <2>2. <<a>> \in Seq(Harmless) /\ <<a>>[1] = a
      BY <2>1, Single
    <2>. QED  BY <2>1, <2>2 DEF a, Access
  <1>2. \A p \in Pages : p \in Nat
    BY DEF Pages, COMM, FM, HOST, DD, FIC, MSC1, RF
  <1>3. \A p \in Pages : Page(p) \in Seq(Harmless)
    BY <1>1, <1>2 DEF Page
  <1>4. \A r \in {\h35, \h3A, \h46, \h48, \h62}, v \in Nat : Set(r, v) \in Seq(Harmless)
    <2>. TAKE r \in {\h35, \h3A, \h46, \h48, \h62}, v \in Nat
    <2>1. r \in Nat /\ r \in {3, \h35, \h3A, \h46, \h48, \h62}
      OBVIOUS
    <2>2. Access("set", r, v) \in Seq(Harmless)
      BY <1>1, <2>1
    <2>. QED  BY <2>2 DEF Set
  <1>5. \A r \in Nat : Get(r) \in Seq(Harmless) /\ Get(r)[1] \in Harmless
    BY <1>1 DEF Get
  <1>6. Bulk \in Seq(Harmless) /\ Look \in Seq(Harmless) /\ LookFic \in Seq(Harmless)
    BY <1>1 DEF Bulk, Look, LookFic
  <1>. QED  BY <1>3, <1>4, <1>5, <1>6

LEMMA HarmlessTwo == \A s, t \in Seq(Harmless) : s \o t \in Seq(Harmless)
  BY ConcatProperties

(* What the threads do but for the initialisation and the tuning.          *)
LEMMA HarmlessCalls ==
  /\ ReadFicData \in Seq(Harmless) /\ ReadData \in Seq(Harmless)
  /\ \A status : Serve(status) \in Seq(Harmless)
  /\ \A reception : GetAntennaLevel(reception) \o ReadData \in Seq(Harmless)
  /\ \A locked : OnScanReadFic(locked) \in Seq(Harmless)
  /\ \A k \in 0..63 : /\ ClearAndSetupMscMemory \o OpenSubChannel(k) \in Seq(Harmless)
                      /\ CloseSubchannel(k) \in Seq(Harmless)
  <1>1. /\ Page(DD) \in Seq(Harmless) /\ Page(FIC) \in Seq(Harmless)
        /\ Page(MSC1) \in Seq(Harmless) /\ Page(FM) \in Seq(Harmless)
        /\ Page(HOST) \in Seq(Harmless)
    BY HarmlessOne, PageNames
  <1>2. ReadFicData \in Seq(Harmless) /\ ReadMscData \in Seq(Harmless)
    <2>1. Set(\h35, 1) \in Seq(Harmless) /\ Set(\h35, 4) \in Seq(Harmless)
      BY HarmlessOne
    <2>. QED  BY <1>1, <2>1, HarmlessOne, HarmlessTwo DEF ReadFicData, ReadMscData
  <1>3. ClearAndSetupMscMemory \in Seq(Harmless) /\ ClearMscBuffer \in Seq(Harmless)
    <2>1. /\ Set(\h48, 0) \in Seq(Harmless) /\ Set(\h48, 5) \in Seq(Harmless)
          /\ Set(\h35, 4) \in Seq(Harmless)
      BY HarmlessOne, ZenonT(60)
    <2>. QED  BY <1>1, <2>1, HarmlessTwo DEF ClearAndSetupMscMemory, ClearMscBuffer
  <1>4. ReadData \in Seq(Harmless)
    BY <1>1, HarmlessOne, HarmlessTwo DEF ReadData
  <1>5. ASSUME NEW status PROVE Serve(status) \in Seq(Harmless)
    BY <1>2, <1>3, HarmlessOne, HarmlessTwo DEF Serve
  <1>6. ASSUME NEW reception PROVE GetAntennaLevel(reception) \o ReadData \in Seq(Harmless)
    <2>. DEFINE gs == <<\h88, \h89, \h8A, \h8B, \h8C, \h8D, \h8E, \h8F, \hD7>>
                poor == Page(DD) \o Set(\h46, \h1E) \o Set(\h35, 1) \o Set(\h46, \h16)
    <2>1. gs \in Seq(Nat)
      BY SMT
    <2>. HIDE DEF gs
    <2>2. Gets(gs) \in Seq(Harmless)
      <3>1. Len(gs) \in Nat /\ \A i \in 1..Len(gs) : gs[i] \in Nat
        BY <2>1, LenProperties, ElementOfSeq
      <3>2. \A i \in 1..Len(gs) : Get(gs[i])[1] \in Harmless
        BY <3>1, HarmlessOne
      <3>. DEFINE F == [i \in 1..Len(gs) |-> Get(gs[i])[1]]
      <3>3. F \in [1..Len(gs) -> Harmless]
        BY <3>2
      <3>. HIDE DEF F
      <3>4. F \in Seq(Harmless)
        BY <3>1, <3>3, FunctionIsSeq
      <3>. QED  BY <3>4 DEF F, Gets
    <2>3. poor \in Seq(Harmless)
      <3>1. /\ Set(\h46, \h1E) \in Seq(Harmless) /\ Set(\h35, 1) \in Seq(Harmless)
            /\ Set(\h46, \h16) \in Seq(Harmless)
        BY HarmlessOne
      <3>. QED  BY <1>1, <3>1, HarmlessTwo
    <2>4. Page(DD) \o Get(\h37) \in Seq(Harmless)
      BY <1>1, HarmlessOne, HarmlessTwo
    <2>. DEFINE g1 == Page(DD) \o Get(\h37)
                g2 == g1 \o (IF reception = "none" THEN <<>> ELSE Gets(gs))
                g3 == g2 \o (IF reception = "poor" THEN poor ELSE <<>>)
    <2>. HIDE DEF g1, g2, g3, poor
    <2>5. g2 \in Seq(Harmless)
      BY <2>2, <2>4, HarmlessOne, HarmlessTwo DEF g1, g2
    <2>6. g3 \in Seq(Harmless)
      BY <2>3, <2>5, HarmlessOne, HarmlessTwo DEF g3
    <2>7. GetAntennaLevel(reception) = g3
      BY DEF GetAntennaLevel, g1, g2, g3, gs, poor
    <2>. QED  BY <1>4, <2>6, <2>7, HarmlessTwo
  <1>7. ASSUME NEW locked PROVE OnScanReadFic(locked) \in Seq(Harmless)
    <2>1. GetLockStatus \in Seq(Harmless)
      <3>1. \A r \in Nat : Get(r) \in Seq(Harmless)
        BY HarmlessOne
      <3>2. Get(\h37) \in Seq(Harmless)
        BY <3>1
      <3>3. Get(\hFB) \in Seq(Harmless)
        BY <3>1
      <3>. QED  BY <1>1, <3>2, <3>3, HarmlessTwo DEF GetLockStatus
    <2>2. Page(FM) \o Page(DD) \o LookFic \in Seq(Harmless)
      BY <1>1, HarmlessOne, HarmlessTwo
    <2>. QED  BY <2>1, <2>2, HarmlessOne, HarmlessTwo DEF OnScanReadFic
  <1>8. ASSUME NEW k \in Nat PROVE Switch(k) \in Seq(Harmless)
    <2>1. /\ Set(\h35, \h70) \in Seq(Harmless) /\ Set(\h62, 0) \in Seq(Harmless)
          /\ Set(\h3A, k) \in Seq(Harmless)
      BY HarmlessOne, ZenonT(60)
    <2>. QED  BY <1>1, <2>1, HarmlessTwo DEF Switch
  <1>9. ASSUME NEW k \in 0..63
        PROVE  /\ ClearAndSetupMscMemory \o OpenSubChannel(k) \in Seq(Harmless)
               /\ CloseSubchannel(k) \in Seq(Harmless)
    <2>1. k \in Nat /\ 128 + k \in Nat
      OBVIOUS
    <2>. QED  BY <1>3, <1>8, <2>1, HarmlessTwo DEF OpenSubChannel, CloseSubchannel
  <1>. QED  BY <1>2, <1>4, <1>5, <1>6, <1>7, <1>9

-----------------------------------------------------------------------------
(* Either the command thread initialises or tunes the chip, alone, and has *)
(* still to write rows of the channel, or the rows are there and nobody    *)
(* touches them.                                                           *)
TuningAlone ==
  /\ tuning /\ Idle("fib")
  /\ asking["command"] \notin {"look", "lookFic"}
  /\ \E q, n : /\ Reaches(page, reg, script["command"], q, n)
               /\ ClockRows(n, tuned.clock) /\ PllRows(n, tuned.pll)

RowsThere ==
  /\ \A t \in Threads : script[t] \in Seq(Harmless)
  /\ ClockRows(reg, tuned.clock) /\ PllRows(reg, tuned.pll)

(* Nothing is tuned, and no parser runs, before the chip is powered up.    *)
Unpowered == ~powered => tuned.clock = -1 /\ tuned.pll = -1 /\ Idle("fib")

RowsInv == Unpowered /\ (TuningAlone \/ RowsThere)

LEMMA RowsIdle == RowsInv /\ Idle("command") => RowsThere
  <1>. SUFFICES ASSUME TuningAlone, Idle("command") PROVE RowsThere
    BY DEF RowsInv
  <1>1. \A t \in Threads : script[t] = <<>>
    BY DEF TuningAlone, Idle, Threads
  <1>2. PICK q, n : /\ Reaches(page, reg, script["command"], q, n)
                    /\ ClockRows(n, tuned.clock) /\ PllRows(n, tuned.pll)
    BY DEF TuningAlone
  <1>3. n = reg
    BY <1>2, ReachesEnd DEF Idle
  <1>. QED  BY <1>1, <1>2, <1>3, HarmlessOne DEF RowsThere

LEMMA RowsRequest ==
  ASSUME TypeInv, RowsInv, NEW t \in Threads, Request(t)
  PROVE  RowsInv'
  <1>1. /\ script[t] # <<>> /\ asking[t] = "none"
        /\ script' = [script EXCEPT ![t] = Tail(@)]
        /\ asking' = [asking EXCEPT ![t] = Head(script[t]).op]
        /\ IF Head(script[t]).op = "set" THEN Write(Head(script[t]))
           ELSE UNCHANGED <<page, reg, pending>>
        /\ UNCHANGED <<powered, tuned, tuning>>
    BY DEF Request
  <1>2. script \in [Threads -> Scripts] /\ asking \in [Threads -> Asks] /\ reg \in RegMap
    BY DEF TypeInv
  <1>3. /\ script'[t] = Tail(script[t])
        /\ \A u \in Threads : u # t => script'[u] = script[u] /\ asking'[u] = asking[u]
    BY <1>1, <1>2
  <1>4. "fib" \in Threads /\ "command" \in Threads
    BY DEF Threads
  <1>5. Unpowered'
    <2>1. Idle("fib") => t # "fib"
      BY <1>1 DEF Idle
    <2>2. Idle("fib") => Idle("fib")'
      BY <1>3, <1>4, <2>1 DEF Idle
    <2>. QED  BY <1>1, <2>2 DEF RowsInv, Unpowered
  <1>6. CASE TuningAlone
    <2>1. t = "command"
      BY <1>1, <1>6 DEF TuningAlone, Idle, Threads
    <2>. DEFINE s == script[t]
    <2>2. PICK q, n : /\ Reaches(page, reg, s, q, n)
                      /\ ClockRows(n, tuned.clock) /\ PllRows(n, tuned.pll)
      BY <1>6, <2>1 DEF TuningAlone
    <2>3. s \in Seq(Accesses) /\ s = s \o <<>> /\ <<>> \in Endings /\ s # <<>>
      BY <1>1, <2>2, ReachesTypes, EndingTypes DEF Endings
    <2>4. page' = After(Head(s), page) /\ reg' = Stored(Head(s), page, reg)
      <3>. HIDE DEF s
      <3>1. script[t] = s \o <<>>
        BY <2>3 DEF s
      <3>. QED  BY <2>3, <3>1, RequestEffect
    <2>5. Head(s) \in Accesses /\ Reaches(page', reg', Tail(s), q, n)
      <3>. HIDE DEF s
      <3>. QED  BY <2>2, <2>3, <2>4, ReachesStep
    <2>6. script'["command"] = Tail(s)
      BY <1>3, <2>1
    <2>7. asking'["command"] \notin {"look", "lookFic"}
      <3>1. asking'["command"] = Head(s).op
        BY <1>1, <1>2, <2>1
      <3>. QED  BY <2>5, <3>1 DEF Accesses
    <2>8. Idle("fib")'
      BY <1>3, <1>4, <1>6, <2>1 DEF TuningAlone, Idle
    <2>9. TuningAlone'
      BY <1>1, <1>6, <2>2, <2>5, <2>6, <2>7, <2>8 DEF TuningAlone
    <2>. QED  BY <1>5, <2>9 DEF RowsInv
  <1>7. CASE RowsThere
    <2>. DEFINE a == Head(script[t])
    <2>1. a \in Harmless /\ Tail(script[t]) \in Seq(Harmless)
      BY <1>1, <1>7, HeadTailProperties DEF RowsThere
    <2>2. reg' = Stored(a, page, reg)
      <3>. HIDE DEF a
      <3>1. CASE a.op = "set"
        BY <1>1, <3>1 DEF Write, Stored, a
      <3>2. CASE a.op # "set"
        BY <1>1, <3>2 DEF Stored, a
      <3>. QED  BY <3>1, <3>2
    <2>. HIDE DEF a
    <2>3. \A x \in Tracked : x[1] # DD => reg'[x] = reg[x]
      BY <1>2, <2>1, <2>2, HarmlessKeeps
    <2>4. ClockRows(reg', tuned'.clock) /\ PllRows(reg', tuned'.pll)
      BY <1>1, <1>7, <2>3, RowsKept DEF RowsThere
    <2>5. \A u \in Threads : script'[u] \in Seq(Harmless)
      BY <1>3, <1>7, <2>1 DEF RowsThere
    <2>6. RowsThere'
      BY <2>4, <2>5 DEF RowsThere
    <2>. QED  BY <1>5, <2>6 DEF RowsInv
  <1>. QED  BY <1>6, <1>7 DEF RowsInv

LEMMA RowsAnswer ==
  ASSUME TypeInv, RowsInv, NEW t \in Threads, Answer(t)
  PROVE  RowsInv'
  <1>. DEFINE next == IF asking[t] = "look" THEN Serve(Head(answers).status)
                      ELSE IF asking[t] = "lookFic"
                      THEN (IF Head(answers).status.fic THEN ReadFicData ELSE <<>>)
                      ELSE script[t]
  <1>1. /\ asking[t] # "none"
        /\ script' = [script EXCEPT ![t] = next] /\ asking' = [asking EXCEPT ![t] = "none"]
        /\ UNCHANGED <<page, reg, powered, tuning, tuned>>
    BY DEF Answer
  <1>2. script \in [Threads -> Scripts] /\ asking \in [Threads -> Asks]
    BY DEF TypeInv
  <1>3. script[t] \in Seq(Harmless) => next \in Seq(Harmless)
    BY HarmlessCalls, HarmlessOne
  <1>4. asking[t] \notin {"look", "lookFic"} => next = script[t]
    OBVIOUS
  <1>. HIDE DEF next
  <1>5. /\ script'[t] = next /\ asking'[t] = "none"
        /\ \A u \in Threads : u # t => script'[u] = script[u] /\ asking'[u] = asking[u]
    BY <1>1, <1>2
  <1>6. "fib" \in Threads /\ "command" \in Threads
    BY DEF Threads
  <1>7. Idle("fib") => t # "fib" /\ Idle("fib")'
    BY <1>1, <1>5, <1>6 DEF Idle
  <1>8. Unpowered'
    BY <1>1, <1>7 DEF RowsInv, Unpowered
  <1>9. CASE TuningAlone
    <2>1. t = "command"
      BY <1>7, <1>9 DEF TuningAlone, Threads
    <2>2. script'["command"] = script["command"] /\ asking'["command"] = "none"
      BY <1>4, <1>5, <1>9, <2>1 DEF TuningAlone
    <2>3. TuningAlone'
      BY <1>1, <1>7, <1>9, <2>2 DEF TuningAlone
    <2>. QED  BY <1>8, <2>3 DEF RowsInv
  <1>10. CASE RowsThere
    <2>1. \A u \in Threads : script'[u] \in Seq(Harmless)
      BY <1>3, <1>5, <1>10 DEF RowsThere
    <2>2. RowsThere'
      BY <1>1, <1>10, <2>1 DEF RowsThere
    <2>. QED  BY <1>8, <2>2 DEF RowsInv
  <1>. QED  BY <1>9, <1>10 DEF RowsInv

LEMMA RowsNext == TypeInv /\ RowsInv /\ [Next]_vars => RowsInv'
  <1>. SUFFICES ASSUME TypeInv, RowsInv, [Next]_vars PROVE RowsInv'
    OBVIOUS
  <1>. USE ChipAssumption
  <1>1. script \in [Threads -> Scripts] /\ page \in Pages /\ reg \in RegMap
    BY DEF TypeInv
  <1>2. "fib" \in Threads /\ "command" \in Threads
    BY DEF Threads
  <1>3. ASSUME NEW t \in Threads, NEW c, Run(t, c)
        PROVE  /\ script'[t] = c /\ \A u \in Threads : u # t => script'[u] = script[u]
               /\ Idle(t) /\ UNCHANGED <<page, reg, asking>>
    BY <1>1, <1>3 DEF Run
  <1>4. ASSUME Idle("fib"), NEW c, Run("command", c), tuning', Unpowered', NEW q, NEW n,
               Reaches(page, reg, c, q, n), ClockRows(n, tuned'.clock), PllRows(n, tuned'.pll)
        PROVE  RowsInv'
    <2>1. /\ script'["command"] = c /\ script'["fib"] = script["fib"]
          /\ Idle("command") /\ UNCHANGED <<page, reg, asking>>
      BY <1>2, <1>3, <1>4
    <2>2. Idle("fib")' /\ asking'["command"] \notin {"look", "lookFic"}
      BY <1>4, <2>1 DEF Idle
    <2>3. Reaches(page', reg', script'["command"], q, n)
      BY <1>4, <2>1
    <2>4. TuningAlone'
      BY <1>4, <2>2, <2>3 DEF TuningAlone
    <2>. QED  BY <1>4, <2>4 DEF RowsInv
  <1>5. ASSUME NEW tries \in {1, 2, 100}, NEW polls \in {1, 10}, Initialize(tries, polls)
        PROVE  RowsInv'
    <2>. DEFINE c == IF tries = 100 THEN PowerUp(100) ELSE InitializeSync(tries, polls)
    <2>1. ~powered /\ Run("command", c) /\ tuning' /\ UNCHANGED tuned
      BY <1>5 DEF Initialize
    <2>2. tuned'.clock = -1 /\ tuned'.pll = -1 /\ Idle("fib")
      BY <2>1 DEF RowsInv, Unpowered
    <2>3. \E q, n : Reaches(page, reg, c, q, n)
      <3>1. tries # 100 => tries \in {1, 2}
        OBVIOUS
      <3>. QED  BY <1>1, <3>1, PowerUpPasses, InitializeSyncRuns DEF Passes
    <2>. HIDE DEF c
    <2>4. PICK q, n : Reaches(page, reg, c, q, n)
      BY <2>3
    <2>5. ClockRows(n, tuned'.clock) /\ PllRows(n, tuned'.pll)
      BY <2>2 DEF ClockRows, PllRows
    <2>6. Unpowered'
      <3>1. script'["fib"] = script["fib"] /\ UNCHANGED asking
        BY <1>2, <1>3, <2>1
      <3>. QED  BY <2>2, <3>1 DEF Unpowered, Idle
    <2>. QED  BY <1>4, <2>1, <2>2, <2>4, <2>5, <2>6
  <1>6. ASSUME NEW k \in Tuned, NEW polls \in {1, 10}, NEW locked \in BOOLEAN,
               Tune(k, polls, locked)
        PROVE  RowsInv'
    <2>. DEFINE c == SetFrequency(Frequency[k + 1], polls, locked) \o SoftReset
                row == [clock |-> k, pll |-> IF locked THEN k ELSE tuned.pll]
    <2>1. k \in Channels
      BY DEF ChipAssumption
    <2>2. /\ powered /\ powered' = powered /\ Idle("fib") /\ Run("command", c)
          /\ tuned' = row /\ tuning'
      BY <1>6 DEF Tune
    <2>3. PllRows(reg, tuned.pll)
      BY <1>2, <1>3, <2>2, RowsIdle DEF RowsThere
    <2>4. PICK q, n : Reaches(page, reg, c, q, n) /\ TunedTo(reg, n, k, locked)
      BY <1>1, <2>1, TuneRuns
    <2>5. row.clock = k /\ row.pll = IF locked THEN k ELSE tuned.pll
      OBVIOUS
    <2>. HIDE DEF c, row
    <2>6. ClockRows(n, k) /\ PllRows(n, IF locked THEN k ELSE tuned.pll)
      BY <2>1, <2>3, <2>4, RowsTuned
    <2>7. ClockRows(n, tuned'.clock) /\ PllRows(n, tuned'.pll)
      BY <2>2, <2>5, <2>6
    <2>8. Unpowered'
      BY <2>2 DEF Unpowered
    <2>. QED  BY <1>4, <2>2, <2>4, <2>7, <2>8
  <1>7. ASSUME NEW t \in Threads, NEW c \in Seq(Harmless), Receive(t, c),
               t = "fib" => tuned.pll # -1
        PROVE  RowsInv'
    <2>1. Run(t, c) /\ UNCHANGED <<powered, tuned>>
      BY <1>7 DEF Receive
    <2>2. /\ script'[t] = c /\ \A u \in Threads : u # t => script'[u] = script[u]
          /\ Idle(t) /\ UNCHANGED <<page, reg, asking>>
      BY <1>3, <2>1
    <2>3. t = "fib" \/ t = "command"
      BY DEF Threads
    <2>4. RowsThere
      <3>1. TuningAlone => Idle("command")
        BY <1>7, <2>2, <2>3 DEF TuningAlone, Receive
      <3>. QED  BY <3>1, RowsIdle DEF RowsInv
    <2>5. \A u \in Threads : script'[u] \in Seq(Harmless)
      BY <2>2, <2>4 DEF RowsThere
    <2>6. RowsThere'
      BY <2>1, <2>2, <2>4, <2>5 DEF RowsThere
    <2>7. Unpowered'
      <3>1. CASE t = "fib"
        BY <1>7, <2>1, <3>1 DEF RowsInv, Unpowered
      <3>2. CASE t = "command"
        <4>1. script'["fib"] = script["fib"]
          BY <1>2, <2>2, <3>2
        <4>. QED  BY <2>1, <2>2, <4>1 DEF RowsInv, Unpowered, Idle
      <3>. QED  BY <2>3, <3>1, <3>2
    <2>. QED  BY <2>6, <2>7 DEF RowsInv
  <1>8. ASSUME NEW k \in Subchannels, NEW t \in Threads, SetService(t, k) PROVE RowsInv'
    <2>. DEFINE c == ClearAndSetupMscMemory \o OpenSubChannel(k)
    <2>1. k \in 0..63
      BY DEF ChipAssumption
    <2>2. c \in Seq(Harmless)
      BY <2>1, HarmlessCalls
    <2>3. Receive(t, c) /\ tuned.pll # -1
      BY <1>8 DEF SetService
    <2>. HIDE DEF c
    <2>. QED  BY <1>7, <2>2, <2>3
  <1>9. ASSUME NEW c \in Seq(Harmless), Receive("command", c) PROVE RowsInv'
    BY <1>2, <1>7, <1>9
  <1>10. ASSUME NEW k \in Subchannels, Close(k) PROVE RowsInv'
    <2>1. k \in 0..63
      BY DEF ChipAssumption
    <2>. QED  BY <1>9, <1>10, <2>1, HarmlessCalls DEF Close
  <1>11. ASSUME NEW reception, ReadAntenna(reception) PROVE RowsInv'
    BY <1>9, <1>11, HarmlessCalls DEF ReadAntenna
  <1>12. ASSUME NEW locked, ScanRead(locked) PROVE RowsInv'
    BY <1>9, <1>12, HarmlessCalls DEF ScanRead
  <1>13. ASSUME Read PROVE RowsInv'
    BY <1>9, <1>13, HarmlessCalls DEF Read
  <1>14. ASSUME UNCHANGED <<page, reg, script, asking, powered, tuning, tuned>> PROVE RowsInv'
    BY <1>14 DEF RowsInv, Unpowered, TuningAlone, RowsThere, Idle
  <1>15. ASSUME NEW i, Interrupt(i) PROVE RowsInv'
    BY <1>14, <1>15 DEF Interrupt
  <1>16. ASSUME UNCHANGED vars PROVE RowsInv'
    BY <1>14, <1>16 DEF vars
  <1>17. ASSUME NEW t \in Threads, Step(t) PROVE RowsInv'
    BY <1>17, RowsRequest, RowsAnswer DEF Step
  <1>. QED
    BY <1>2, <1>5, <1>6, <1>8, <1>10, <1>11, <1>12, <1>13, <1>15, <1>16, <1>17, ZenonT(60) DEF Next

LEMMA RowsInvariant == Spec => [](TypeInv /\ RowsInv)
  <1>1. Init => RowsInv
    <2>. SUFFICES ASSUME Init PROVE RowsInv
      OBVIOUS
    <2>1. /\ tuned.clock = -1 /\ tuned.pll = -1
          /\ \A t \in Threads : script[t] = <<>> /\ asking[t] = "none"
      BY DEF Init
    <2>2. RowsThere
      BY <2>1, HarmlessOne DEF RowsThere, ClockRows, PllRows
    <2>3. Idle("fib")
      BY <2>1 DEF Idle, Threads
    <2>. QED  BY <2>1, <2>2, <2>3 DEF RowsInv, Unpowered
  <1>. QED  BY <1>1, TypeInit, TypeNext, RowsNext, PTL DEF Spec

(* Between two routines the clock, the oscillator and the PLL are those of *)
(* the channel tuned last, also when the parser's thread uses the chip at  *)
(* the same time: a page selected by the other thread leads the writes     *)
(* astray, but to no register of the tuning.  setFrequency's arithmetic    *)
(* finds the row of each of the 41 channels.                               *)
THEOREM RowsOfTheChannel == Spec => []TunedRegisters
  <1>1. ASSUME TypeInv, RowsInv, Quiet
        PROVE  /\ tuned.clock # -1 =>
                    /\ Holds(RF, \hE8, Synthesiser[ClockType[tuned.clock + 1] + 1])
                    /\ Holds(FM, \h3C, Oscillator[ClockType[tuned.clock + 1] + 1])
                    /\ (reg[<<COMM, \h6A>>] = \h31) <=> (ClockType[tuned.clock + 1] = 3)
               /\ tuned.pll # -1 => Holds(RF, \h23, PllBytes(PllNF[tuned.pll + 1]))
    <2>1. ClockRows(reg, tuned.clock) /\ PllRows(reg, tuned.pll)
      BY <1>1, RowsIdle DEF RowsThere, Quiet, Threads
    <2>2. /\ tuned.clock # -1 => tuned.clock \in Channels
          /\ tuned.pll # -1 => tuned.pll \in Channels
      BY <1>1 DEF TypeInv, Channels
    <2>3. ASSUME tuned.clock # -1
          PROVE  /\ Holds(RF, \hE8, Synthesiser[ClockType[tuned.clock + 1] + 1])
                 /\ Holds(FM, \h3C, Oscillator[ClockType[tuned.clock + 1] + 1])
                 /\ (reg[<<COMM, \h6A>>] = \h31) <=> (ClockType[tuned.clock + 1] = 3)
      <3>. DEFINE syn == Synthesiser[ClockType[tuned.clock + 1] + 1]
                  osc == Oscillator[ClockType[tuned.clock + 1] + 1]
      <3>1. ClockType[tuned.clock + 1] \in 0..3
        BY <2>2, <2>3, Tables
      <3>2. /\ syn \in Seq(Byte) /\ Len(syn) = 7
            /\ osc \in Seq(Byte) /\ Len(osc) = 8
        BY <3>1, Tables
      <3>3. /\ \A i \in 1..7 : reg[<<RF, \hE8 + i - 1>>] = syn[i]
            /\ \A i \in 1..8 : reg[<<FM, \h3C + i - 1>>] = osc[i]
            /\ reg[<<COMM, \h6A>>] = IF ClockType[tuned.clock + 1] = 3 THEN \h31 ELSE 1
        BY <2>1, <2>3 DEF ClockRows
      <3>. HIDE DEF syn, osc
      <3>4. DOMAIN syn = 1..7 /\ DOMAIN osc = 1..8
        BY <3>2, LenProperties
      <3>5. Holds(RF, \hE8, syn) /\ Holds(FM, \h3C, osc)
        BY <3>3, <3>4 DEF Holds
      <3>6. (reg[<<COMM, \h6A>>] = \h31) <=> (ClockType[tuned.clock + 1] = 3)
        BY <3>3
      <3>. QED  BY <3>5, <3>6 DEF syn, osc
    <2>4. ASSUME tuned.pll # -1
          PROVE  Holds(RF, \h23, PllBytes(PllNF[tuned.pll + 1]))
      <3>. DEFINE pll == PllBytes(PllNF[tuned.pll + 1])
      <3>1. PllNF[tuned.pll + 1] \in Nat
        BY <2>2, <2>4, Tables
      <3>2. pll \in Seq(Byte) /\ Len(pll) = 4
        BY <3>1, PllBytesSeq
      <3>3. \A i \in 1..4 : reg[<<RF, \h23 + i - 1>>] = pll[i]
        BY <2>1, <2>4 DEF PllRows
      <3>. HIDE DEF pll
      <3>4. DOMAIN pll = 1..4
        BY <3>2, LenProperties
      <3>5. Holds(RF, \h23, pll)
        BY <3>3, <3>4 DEF Holds
      <3>. QED  BY <3>5 DEF pll
    <2>. QED  BY <2>3, <2>4
  <1>2. \A c \in Channels : Row(Frequency[c + 1]) = c
    BY Tables
  <1>3. TypeInv /\ RowsInv => TunedRegisters
    BY <1>1, <1>2 DEF TunedRegisters
  <1>. QED  BY <1>3, RowsInvariant, PTL
===============================================================================
