---------------------------- MODULE FibParserProofs ----------------------------
(***************************************************************************)
(* That processFib cuts a FIB into the FIGs it was made of, for any FIGs    *)
(* and any number of FIBs: none is left out, each is decoded from its own   *)
(* bytes as its own kind, and what is said of a FIG alone holds of it in    *)
(* any company.                                                            *)
(***************************************************************************)
EXTENDS FibParser, SequenceTheorems, WellFoundedInduction, TLAPS

LessThan == {p \in Nat \X Nat : p[1] < p[2]}

LEMMA LessThanFounded == IsWellFoundedOn(LessThan, Nat)
BY NatLessThanWellFounded, Zenon DEF OpToRel, LessThan

(* What holds at 0 and goes on from each number to the next.                *)
LEMMA Ascends ==
  ASSUME NEW n \in Nat, NEW T, 0 \in T, \A k \in 1..n : k - 1 \in T => k \in T
  PROVE  \A k \in 0..n : k \in T
<1> DEFINE wrong == (0..n) \ T
<1>1. wrong \in SUBSET Nat
  OBVIOUS
<1>2. ASSUME wrong # {} PROVE FALSE
  <2>1. PICK x \in wrong : \A y \in wrong : ~(<<y, x>> \in LessThan)
    <3> HIDE DEF wrong
    <3> QED
      BY <1>1, <1>2, LessThanFounded, WFMin
  <2>2. x \in 0..n /\ x \notin T
    BY <2>1
  <2>3. x \in 1..n
    <3>1. x # 0
      BY <2>2
    <3> QED
      BY <2>2, <3>1
  <2>4. x - 1 \notin T
    BY <2>2, <2>3
  <2>5. x - 1 \in wrong /\ x - 1 \in Nat /\ x \in Nat /\ x - 1 < x
    BY <2>3, <2>4
  <2> QED
    BY <2>1, <2>5 DEF LessThan
<1> QED
  BY <1>2

-----------------------------------------------------------------------------
(* BodySize is the last of a table of sums.                                 *)

-----------------------------------------------------------------------------
(* The bytes of the first FIGs of a FIB.                                    *)
Flattened(f, seqs, n) ==
  f = [i \in 1..n |-> IF i = 1 THEN seqs[i] ELSE f[i-1] \o seqs[i]]

LEMMA FlattenedExists ==
  ASSUME NEW seqs, NEW n \in Nat
  PROVE  \E f : Flattened(f, seqs, n)
<1> DEFINE T == {k \in 0..n : \E f : Flattened(f, seqs, k)}
<1>1. 0 \in T
  <2> DEFINE f == [i \in 1..0 |-> 0]
  <2>1. f = [i \in 1..0 |-> IF i = 1 THEN seqs[i] ELSE f[i-1] \o seqs[i]]
    OBVIOUS
  <2>2. Flattened(f, seqs, 0)
    BY <2>1 DEF Flattened
  <2> QED
    BY <2>2
<1>2. ASSUME NEW k \in 1..n, k - 1 \in T PROVE k \in T
  <2>1. PICK f : Flattened(f, seqs, k - 1)
    BY <1>2
  <2> DEFINE g == [i \in 1..k |-> IF i < k THEN f[i] ELSE IF i = 1 THEN seqs[i] ELSE f[i-1] \o seqs[i]]
             h == [i \in 1..k |-> IF i = 1 THEN seqs[i] ELSE g[i-1] \o seqs[i]]
  <2>2. \A i \in 1..(k-1) : f[i] = IF i = 1 THEN seqs[i] ELSE f[i-1] \o seqs[i]
    BY <2>1 DEF Flattened
  <2>3. ASSUME NEW i \in 1..k PROVE g[i] = h[i]
    <3>1. i # 1 => i - 1 \in 1..k /\ i - 1 < k
      OBVIOUS
    <3>2. i # 1 => g[i-1] = f[i-1]
      BY <3>1
    <3>3. i < k => i \in 1..(k-1)
      OBVIOUS
    <3> QED
      BY <2>2, <3>2, <3>3
  <2>4. DOMAIN g = DOMAIN h /\ g = [i \in DOMAIN g |-> g[i]] /\ h = [i \in DOMAIN h |-> h[i]]
    OBVIOUS
  <2>5. g = h
    BY <2>3, <2>4, ZenonT(60)
  <2>6. Flattened(g, seqs, k)
    BY <2>5 DEF Flattened
  <2> QED
    BY <2>6
<1> HIDE DEF T
<1>3. n \in T
  BY <1>1, <1>2, Ascends
<1> QED
  BY <1>3 DEF T

Coding(figs) == [k \in DOMAIN figs |-> CodedFigs[figs[k]]]

Upto(figs, i) ==
  IF i = 0 THEN <<>> ELSE (CHOOSE f : Flattened(f, Coding(figs), Len(figs)))[i]

LEMMA UptoGrows ==
  ASSUME NEW figs \in Seq(Figs)
  PROVE  /\ Upto(figs, 0) = <<>>
         /\ \A i \in 1..Len(figs) :
              Upto(figs, i) = IF i = 1 THEN CodedFigs[figs[i]]
                                       ELSE Upto(figs, i - 1) \o CodedFigs[figs[i]]
         /\ FigBytes(figs) = Upto(figs, Len(figs))
<1> DEFINE c == Coding(figs)
           n == Len(figs)
           f == CHOOSE f : Flattened(f, c, n)
<1>1. n \in Nat /\ Len(c) = n /\ DOMAIN figs = 1..n /\ \A k \in 1..n : c[k] = CodedFigs[figs[k]]
  BY DEF Coding
<1>2. FigBytes(figs) = IF Len(c) = 0 THEN c ELSE f[n]
  <2>1. FigBytes(figs) = FlattenSeq(c)
    BY DEF FigBytes, Coding
  <2>2. FlattenSeq(c) = IF Len(c) = 0 THEN c
                        ELSE (CHOOSE g : g = [i \in 1..Len(c) |-> IF i = 1 THEN c[i] ELSE g[i-1] \o c[i]])[Len(c)]
    BY DEF FlattenSeq
  <2> QED
    BY <1>1, <2>1, <2>2 DEF Flattened
<1>3. n = 0 => c = <<>>
  BY <1>1 DEF Coding
<1> HIDE DEF c, n
<1>4. Flattened(f, c, n)
  BY <1>1, FlattenedExists
<1> HIDE DEF f
<1>5. \A i \in 1..n : f[i] = IF i = 1 THEN c[i] ELSE f[i-1] \o c[i]
  BY <1>4 DEF Flattened
<1>6. \A i \in 0..n : Upto(figs, i) = IF i = 0 THEN <<>> ELSE f[i]
  BY DEF Upto, f, c, n
<1>7. ASSUME NEW i \in 1..n
      PROVE  Upto(figs, i) = IF i = 1 THEN CodedFigs[figs[i]]
                                      ELSE Upto(figs, i - 1) \o CodedFigs[figs[i]]
  <2>1. i \in 0..n /\ i # 0 /\ i - 1 \in 0..n /\ (i # 1 => i - 1 # 0)
    BY <1>1
  <2> QED
    BY <1>1, <1>5, <1>6, <2>1
<1>8. FigBytes(figs) = Upto(figs, n) /\ Upto(figs, 0) = <<>>
  <2>1. n \in 0..n /\ 0 \in 0..n
    BY <1>1
  <2> QED
    BY <1>1, <1>2, <1>3, <1>6, <2>1
<1> QED
  BY <1>7, <1>8 DEF n

Bytes == 0..255

LEMMA CodedFig ==
  ASSUME NEW f \in Figs
  PROVE  LET d    == Coded(f)
             type == f.kind \div 100
         IN  /\ CodedFigs[f] \in Seq(Bytes) /\ d \in Seq(Bytes)
             /\ Len(d) \in 1..29 /\ Len(CodedFigs[f]) = Len(d) + 1
             /\ CodedFigs[f][1] \div 32 = type /\ CodedFigs[f][1] % 32 = Len(d) /\ type \in 0..6
             /\ \A k \in 1..Len(d) : CodedFigs[f][k+1] = d[k]
             /\ f.kind = Kind(type, d[1] % (IF type = 0 THEN 32 ELSE 8))
<1> DEFINE d == Coded(f)
           type == f.kind \div 100
           head == 32 * type + Len(d)
<1>1. /\ type \in 0..6 /\ d \in Seq(Bytes) /\ Len(d) \in 1..29
      /\ f.kind = Kind(type, d[1] % (IF type = 0 THEN 32 ELSE 8))
  BY SenderAssumption DEF IsFigSent, Bytes
<1>2. CodedFigs[f] = <<head>> \o d
  BY DEF CodedFigs
<1> HIDE DEF d, type
<1>3. head \in 0..255 /\ head \div 32 = type /\ head % 32 = Len(d)
  <2> DEFINE l == Len(d)
  <2>1. type \in 0..6 /\ l \in 1..29
    BY <1>1
  <2> HIDE DEF l
  <2>2. type \in {0, 1, 2, 3, 4, 5, 6}
    BY <2>1
  <2>3. (32 * type + l) \in 0..255
    BY <2>1, <2>2
  <2>4. (32 * type + l) \div 32 = type
    BY <2>1, <2>2
  <2>5. (32 * type + l) % 32 = l
    BY <2>1, <2>2
  <2> QED
    BY <2>3, <2>4, <2>5 DEF l
<1> HIDE DEF head
<1>4. <<head>> \in Seq(Bytes) /\ Len(<<head>>) = 1 /\ <<head>>[1] = head
  BY <1>3 DEF Bytes
<1>5. /\ CodedFigs[f] \in Seq(Bytes) /\ Len(CodedFigs[f]) = 1 + Len(d)
      /\ \A k \in 1..(1 + Len(d)) : CodedFigs[f][k] = IF k <= 1 THEN <<head>>[k] ELSE d[k-1]
  BY <1>1, <1>2, <1>4, ConcatProperties
<1>6. CodedFigs[f][1] = head /\ \A k \in 1..Len(d) : CodedFigs[f][k+1] = d[k]
  <2>1. 1 \in 1..(1 + Len(d)) /\ 1 <= 1
    BY <1>1
  <2>2. \A k \in 1..Len(d) : k + 1 \in 1..(1 + Len(d)) /\ ~(k + 1 <= 1) /\ (k + 1) - 1 = k
    BY <1>1
  <2> QED
    BY <1>4, <1>5, <2>1, <2>2
<1>7. /\ CodedFigs[f][1] \div 32 = type /\ CodedFigs[f][1] % 32 = Len(d)
      /\ Len(CodedFigs[f]) = Len(d) + 1
  BY <1>1, <1>3, <1>5, <1>6
<1> QED
  BY <1>1, <1>5, <1>6, <1>7 DEF d, type

LEMMA UptoBytes ==
  ASSUME NEW figs \in Seq(Figs)
  PROVE  \A i \in 0..Len(figs) : Upto(figs, i) \in Seq(Bytes)
<1> DEFINE n == Len(figs)
           T == {i \in 0..n : Upto(figs, i) \in Seq(Bytes)}
<1>1. n \in Nat
  OBVIOUS
<1>2. 0 \in T
  <2>1. Upto(figs, 0) = <<>>
    BY UptoGrows
  <2>2. <<>> \in Seq(Bytes)
    OBVIOUS
  <2>3. Upto(figs, 0) \in Seq(Bytes)
    BY <2>1, <2>2
  <2>4. 0 \in 0..n
    BY <1>1
  <2> HIDE DEF n
  <2> QED
    BY <2>3, <2>4
<1>3. ASSUME NEW i \in 1..n, i - 1 \in T PROVE i \in T
  <2>1. figs[i] \in Figs
    BY ElementOfSeq
  <2>2. CodedFigs[figs[i]] \in Seq(Bytes)
    BY <2>1, CodedFig
  <2>3. Upto(figs, i) = IF i = 1 THEN CodedFigs[figs[i]] ELSE Upto(figs, i - 1) \o CodedFigs[figs[i]]
    BY UptoGrows
  <2>4. Upto(figs, i - 1) \in Seq(Bytes)
    BY <1>3
  <2>5. Upto(figs, i - 1) \o CodedFigs[figs[i]] \in Seq(Bytes)
    BY <2>2, <2>4, ConcatProperties
  <2>6. Upto(figs, i) \in Seq(Bytes)
    BY <2>2, <2>3, <2>5
  <2>7. i \in 0..n
    BY <1>1
  <2> HIDE DEF n
  <2> QED
    BY <2>6, <2>7
<1> HIDE DEF T, n
<1>4. \A i \in 0..n : i \in T
  BY <1>1, <1>2, <1>3, Ascends
<1> QED
  BY <1>4 DEF T, n

LEMMA UptoStep ==
  ASSUME NEW figs \in Seq(Figs), NEW i \in 1..Len(figs)
  PROVE  LET u == Upto(figs, i - 1)
             v == Upto(figs, i)
             c == CodedFigs[figs[i]]
         IN  /\ u \in Seq(Bytes) /\ v \in Seq(Bytes) /\ Len(v) = Len(u) + Len(c)
             /\ \A k \in 1..Len(u) : v[k] = u[k]
             /\ \A k \in 1..Len(c) : v[Len(u) + k] = c[k]
<1> DEFINE u == Upto(figs, i - 1)
           v == Upto(figs, i)
           c == CodedFigs[figs[i]]
<1>1. u \in Seq(Bytes) /\ v \in Seq(Bytes) /\ c \in Seq(Bytes)
  <2>1. figs[i] \in Figs /\ i \in 0..Len(figs) /\ i - 1 \in 0..Len(figs)
    BY ElementOfSeq
  <2> QED
    BY <2>1, UptoBytes, CodedFig
<1>2. v = u \o c
  <2>1. v = IF i = 1 THEN c ELSE u \o c
    BY UptoGrows
  <2>2. i = 1 => u = <<>>
    <3>1. i = 1 => i - 1 = 0
      OBVIOUS
    <3>2. Upto(figs, 0) = <<>>
      BY UptoGrows
    <3> QED
      BY <3>1, <3>2
  <2> HIDE DEF u, v, c
  <2>3. <<>> \o c = c
    BY <1>1, ConcatEmptySeq
  <2> QED
    BY <2>1, <2>2, <2>3
<1> HIDE DEF u, v, c
<1>3. /\ Len(v) = Len(u) + Len(c) /\ Len(u) \in Nat /\ Len(c) \in Nat
      /\ \A k \in 1..(Len(u) + Len(c)) : v[k] = IF k <= Len(u) THEN u[k] ELSE c[k - Len(u)]
  BY <1>1, <1>2, ConcatProperties
<1>4. \A k \in 1..Len(u) : v[k] = u[k]
  BY <1>3
<1>5. ASSUME NEW k \in 1..Len(c) PROVE v[Len(u) + k] = c[k]
  <2>1. /\ Len(u) + k \in 1..(Len(u) + Len(c)) /\ ~(Len(u) + k <= Len(u))
        /\ (Len(u) + k) - Len(u) = k
    BY <1>3
  <2> QED
    BY <1>3, <2>1
<1> QED
  BY <1>1, <1>3, <1>4, <1>5 DEF u, v, c

(* The bytes of some FIGs are a beginning of those of more.                 *)
LEMMA UptoPrefix ==
  ASSUME NEW figs \in Seq(Figs), NEW i \in 0..Len(figs)
  PROVE  /\ Len(Upto(figs, i)) \in Nat /\ Len(FigBytes(figs)) \in Nat
         /\ Len(Upto(figs, i)) <= Len(FigBytes(figs))
         /\ \A k \in 1..Len(Upto(figs, i)) : FigBytes(figs)[k] = Upto(figs, i)[k]
<1> DEFINE n == Len(figs)
           u == Upto(figs, i)
           So(j) == j >= i => /\ Len(u) <= Len(Upto(figs, j))
                              /\ \A k \in 1..Len(u) : Upto(figs, j)[k] = u[k]
           T == {j \in 0..n : So(j)}
<1>1. n \in Nat /\ i \in Nat /\ \A j \in 0..n : Len(Upto(figs, j)) \in Nat
  BY UptoBytes
<1>2. So(i)
  BY <1>1
<1>3. ASSUME NEW j \in 1..n, So(j - 1) PROVE So(j)
  <2>1. CASE j <= i
    BY <1>1, <1>2, <2>1
  <2>2. CASE ~(j <= i)
    <3> DEFINE v == Upto(figs, j - 1)
               w == Upto(figs, j)
               c == CodedFigs[figs[j]]
    <3>1. Len(w) = Len(v) + Len(c) /\ \A k \in 1..Len(v) : w[k] = v[k]
      BY UptoStep
    <3>2. Len(c) \in Nat
      <4>1. figs[j] \in Figs
        BY ElementOfSeq
      <4> QED
        BY <4>1, CodedFig
    <3>3. Len(v) \in Nat /\ Len(u) \in Nat /\ j - 1 >= i
      <4>1. j - 1 \in 0..n
        BY <1>1
      <4> QED
        BY <1>1, <2>2, <4>1
    <3>4. Len(u) <= Len(v) /\ \A k \in 1..Len(u) : v[k] = u[k]
      BY <1>3, <3>3
    <3> HIDE DEF u, v, w, c
    <3>5. Len(u) <= Len(w) /\ \A k \in 1..Len(u) : w[k] = u[k]
      BY <3>1, <3>2, <3>3, <3>4, SMTT(40)
    <3> QED
      BY <3>5 DEF w
  <2> QED
    BY <2>1, <2>2
<1>4. So(0)
  <2>1. 0 >= i => i = 0
    BY <1>1
  <2> QED
    BY <1>2, <2>1
<1> HIDE DEF So
<1>5. 0 \in T /\ \A j \in 1..n : j - 1 \in T => j \in T
  BY <1>1, <1>3, <1>4
<1> HIDE DEF T
<1>6. \A j \in 0..n : j \in T
  BY <1>1, <1>5, Ascends
<1>7. So(n) /\ n >= i
  <2>1. n \in T
    BY <1>1, <1>6
  <2> QED
    BY <1>1, <2>1 DEF T
<1>8. FigBytes(figs) = Upto(figs, n)
  BY UptoGrows
<1> QED
  BY <1>1, <1>7, <1>8 DEF So

-----------------------------------------------------------------------------
(* What a FIG may come to be held as when it stands alone: its own bytes    *)
(* decide, and uninitialised memory.                                       *)
Readings(f) ==
  IF f.kind \in Kinds THEN {Decoded(f.kind, Coded(f), g) : g \in Junk} ELSE {<<>>}

AllReadings == UNION {Readings(f) : f \in Figs}

(* The FIGs read so far, r, d and p being what is kept of them.              *)
ReadRight(all, r, d, p) ==
  /\ all \in Seq(Figs) /\ r \in Seq(AllReadings) /\ d \in Seq(BOOLEAN)
  /\ Len(r) <= Len(all) /\ Len(d) = Len(r)
  /\ \A k \in 1..Len(r) : r[k] \in Readings(all[k])
  /\ \A x : x \in p <=> \E k \in 1..Len(r) : all[k].kind \in Compared /\ x = <<all[k].kind, r[k]>>
  /\ \A k \in 1..Len(r) :
       d[k] <=> /\ all[k].kind \in Compared
                /\ \E j \in 1..(k-1) : all[j].kind = all[k].kind /\ r[j] = r[k]

LEMMA ParseKeeps ==
  ASSUME ReadRight(sent, read, done, parsed), Len(read) < Len(sent),
         NEW f, f = sent[Len(read) + 1], Parse(f.kind, Coded(f))
  PROVE  ReadRight(sent, read', done', parsed') /\ Len(read') = Len(read) + 1
<1> DEFINE n == Len(read)
           m == n + 1
<1>1. /\ sent \in Seq(Figs) /\ read \in Seq(AllReadings) /\ done \in Seq(BOOLEAN)
      /\ n \in Nat /\ Len(done) = n /\ Len(sent) \in Nat /\ n < Len(sent)
      /\ \A k \in 1..n : read[k] \in Readings(sent[k])
      /\ \A x : x \in parsed <=> \E k \in 1..n : sent[k].kind \in Compared /\ x = <<sent[k].kind, read[k]>>
  BY DEF ReadRight
<1>2. \A k \in 1..n :
        done[k] <=> /\ sent[k].kind \in Compared
                    /\ \E j \in 1..(k-1) : sent[j].kind = sent[k].kind /\ read[j] = read[k]
  BY Zenon DEF ReadRight
<1>3. f \in Figs /\ sent[m] = f /\ m \in 1..Len(sent)
  <2>1. m \in 1..Len(sent)
    BY <1>1
  <2> QED
    BY <1>1, <2>1, ElementOfSeq
<1>4. PICK v \in Readings(f), told \in BOOLEAN :
        /\ read' = Append(read, v) /\ done' = Append(done, told)
        /\ parsed' = IF f.kind \in Compared THEN parsed \union {<<f.kind, v>>} ELSE parsed
        /\ told <=> f.kind \in Compared /\ <<f.kind, v>> \in parsed
  <2>1. CASE f.kind \notin Kinds
    <3>1. read' = Append(read, <<>>) /\ done' = Append(done, FALSE) /\ parsed' = parsed
      BY <2>1 DEF Parse
    <3>2. <<>> \in Readings(f)
      BY <2>1 DEF Readings
    <3>3. f.kind \notin Compared
      BY <2>1 DEF Kinds, Compared
    <3> QED
      BY <3>1, <3>2, <3>3
  <2>2. CASE f.kind \in Kinds
    <3>1. PICK g \in Junk :
            LET fig == <<f.kind, Decoded(f.kind, Coded(f), g)>>
            IN  /\ read' = Append(read, fig[2])
                /\ done' = Append(done, f.kind \in Compared /\ Seen(fig))
                /\ parsed' = IF f.kind \in Compared THEN parsed \union {fig} ELSE parsed
      BY <2>2, Zenon DEF Parse
    <3> DEFINE v == Decoded(f.kind, Coded(f), g)
               told == f.kind \in Compared /\ <<f.kind, v>> \in parsed
    <3>2. v \in Readings(f)
      BY <2>2 DEF Readings
    <3> HIDE DEF v
    <3>3. <<f.kind, v>>[2] = v
      OBVIOUS
    <3>4. /\ read' = Append(read, v) /\ done' = Append(done, told)
          /\ parsed' = IF f.kind \in Compared THEN parsed \union {<<f.kind, v>>} ELSE parsed
      BY <3>1, <3>3, Zenon DEF Seen, v
    <3>5. told \in BOOLEAN
      OBVIOUS
    <3> QED
      BY <3>2, <3>4, <3>5, Zenon
  <2> QED
    BY <2>1, <2>2
<1>5. v \in AllReadings
  BY <1>3 DEF AllReadings
<1> HIDE DEF n
<1>6. /\ read' \in Seq(AllReadings) /\ Len(read') = m
      /\ \A k \in 1..n : read'[k] = read[k]
      /\ read'[m] = v
  BY <1>1, <1>4, <1>5, AppendProperties DEF n
<1>7. /\ done' \in Seq(BOOLEAN) /\ Len(done') = m
      /\ \A k \in 1..n : done'[k] = done[k]
      /\ done'[m] = told
  BY <1>1, <1>4, AppendProperties
<1>8. \A k \in 1..m : k \in 1..n \/ k = m
  BY <1>1
<1>9. \A k \in 1..m : read'[k] \in Readings(sent[k])
  BY <1>1, <1>3, <1>4, <1>6, <1>8
<1>10. \A x : x \in parsed' <=> \E k \in 1..m : sent[k].kind \in Compared /\ x = <<sent[k].kind, read'[k]>>
  <2> SUFFICES ASSUME NEW x
               PROVE  x \in parsed' <=> \E k \in 1..m : sent[k].kind \in Compared /\ x = <<sent[k].kind, read'[k]>>
    OBVIOUS
  <2>1. x \in parsed' <=> x \in parsed \/ (f.kind \in Compared /\ x = <<f.kind, v>>)
    BY <1>4
  <2>2. x \in parsed <=> \E k \in 1..n : sent[k].kind \in Compared /\ x = <<sent[k].kind, read[k]>>
    BY <1>1
  <2>3. \A k \in 1..n : k \in 1..m
    BY <1>1
  <2>4. m \in 1..m
    BY <1>1
  <2> HIDE DEF m
  <2> QED
    BY <1>3, <1>6, <1>8, <2>1, <2>2, <2>3, <2>4
<1>11. \A k \in 1..m :
         done'[k] <=> /\ sent[k].kind \in Compared
                      /\ \E j \in 1..(k-1) : sent[j].kind = sent[k].kind /\ read'[j] = read'[k]
  <2>1. ASSUME NEW k \in 1..n
        PROVE  done'[k] <=> /\ sent[k].kind \in Compared
                            /\ \E j \in 1..(k-1) : sent[j].kind = sent[k].kind /\ read'[j] = read'[k]
    <3>1. \A j \in 1..(k-1) : j \in 1..n
      BY <1>1
    <3>2. \A j \in 1..(k-1) : read'[j] = read[j] /\ read'[k] = read[k]
      BY <1>6, <3>1
    <3>3. done'[k] = done[k]
      BY <1>7
    <3>4. (\E j \in 1..(k-1) : sent[j].kind = sent[k].kind /\ read'[j] = read'[k])
            <=> \E j \in 1..(k-1) : sent[j].kind = sent[k].kind /\ read[j] = read[k]
      BY <3>2
    <3> QED
      BY <1>2, <3>3, <3>4, Zenon
  <2>2. done'[m] <=> /\ sent[m].kind \in Compared
                     /\ \E j \in 1..(m-1) : sent[j].kind = sent[m].kind /\ read'[j] = read'[m]
    <3>1. told <=> f.kind \in Compared /\ \E k \in 1..n : sent[k].kind \in Compared /\ <<f.kind, v>> = <<sent[k].kind, read[k]>>
      BY <1>1, <1>4, Zenon
    <3>2. m - 1 = n
      BY <1>1
    <3>3. \A k \in 1..n : <<f.kind, v>> = <<sent[k].kind, read[k]>> <=> sent[k].kind = f.kind /\ read'[k] = v
      BY <1>6
    <3>4. (f.kind \in Compared /\ \E k \in 1..n : sent[k].kind \in Compared /\ <<f.kind, v>> = <<sent[k].kind, read[k]>>)
            <=> (f.kind \in Compared /\ \E k \in 1..n : sent[k].kind = f.kind /\ read'[k] = v)
      BY <3>3
    <3> HIDE DEF m
    <3> QED
      BY <1>3, <1>6, <1>7, <3>1, <3>2, <3>4, Zenon
  <2> QED
    BY <1>8, <2>1, <2>2
<1>12. m <= Len(sent) /\ Len(read') = m /\ Len(done') = m
  BY <1>1, <1>6, <1>7
<1> HIDE DEF m
<1>13. /\ \A k \in 1..Len(read') : read'[k] \in Readings(sent[k])
       /\ \A x : x \in parsed' <=> \E k \in 1..Len(read') : sent[k].kind \in Compared /\ x = <<sent[k].kind, read'[k]>>
  BY <1>9, <1>10, <1>12, Zenon
<1>14. \A k \in 1..Len(read') :
         done'[k] <=> /\ sent[k].kind \in Compared
                      /\ \E j \in 1..(k-1) : sent[j].kind = sent[k].kind /\ read'[j] = read'[k]
  BY <1>11, <1>12, Zenon
<1>15. Len(read') <= Len(sent) /\ Len(done') = Len(read')
  BY <1>12
<1>16. ReadRight(sent, read', done', parsed')
  BY <1>1, <1>6, <1>7, <1>13, <1>14, <1>15, Zenon DEF ReadRight
<1>17. Len(read') = Len(read) + 1
  BY <1>12 DEF m, n
<1> QED
  BY <1>16, <1>17

-----------------------------------------------------------------------------
(* The bytes of a FIB: its FIGs, and something to end it unless it is full. *)
LEMMA FibBytes ==
  ASSUME NEW figs \in Seq(Figs), Len(FigBytes(figs)) <= 30
  PROVE  LET b == FigBytes(figs)
             s == FibOf(figs)
         IN  /\ Len(b) \in Nat /\ Len(s) = 32 /\ s \in Seq(Bytes)
             /\ \A k \in 1..Len(b) : s[k] = b[k]
             /\ Len(b) < 30 => s[Len(b) + 1] = 255
<1> DEFINE b == FigBytes(figs)
           s == FibOf(figs)
           n == Len(b)
<1>1. b \in Seq(Bytes) /\ n \in Nat
  <2>1. b = Upto(figs, Len(figs))
    BY UptoGrows
  <2>2. Len(figs) \in 0..Len(figs)
    OBVIOUS
  <2>3. Upto(figs, Len(figs)) \in Seq(Bytes)
    BY <2>2, UptoBytes
  <2> HIDE DEF b
  <2> QED
    BY <2>1, <2>3
<1>2. s = [k \in 1..32 |-> IF k <= n THEN b[k] ELSE IF k = n + 1 /\ k <= 30 THEN 255 ELSE 0]
  BY DEF FibOf
<1> HIDE DEF b, s
<1>3. \A k \in 1..n : b[k] \in Bytes
  BY <1>1, ElementOfSeq
<1> HIDE DEF n
<1>4. /\ \A k \in 1..32 : s[k] = IF k <= n THEN b[k] ELSE IF k = n + 1 /\ k <= 30 THEN 255 ELSE 0
      /\ DOMAIN s = 1..32
  BY <1>2
<1>5. \A k \in 1..32 : s[k] \in Bytes
  <2> SUFFICES ASSUME NEW k \in 1..32 PROVE s[k] \in Bytes
    OBVIOUS
  <2>1. CASE k <= n
    <3>1. k \in 1..n
      BY <1>1, <2>1
    <3> QED
      BY <1>3, <1>4, <2>1, <3>1
  <2>2. CASE ~(k <= n)
    <3>1. s[k] = 255 \/ s[k] = 0
      BY <1>4, <2>2
    <3> QED
      BY <3>1 DEF Bytes
  <2> QED
    BY <2>1, <2>2
<1>6. s \in [1..32 -> Bytes]
  BY <1>2, <1>5
<1>7. s \in Seq(Bytes) /\ Len(s) = 32
  <2> DEFINE t == 32
  <2>1. t \in Nat /\ s \in [1..t -> Bytes]
    BY <1>6
  <2> HIDE DEF t, s
  <2>2. s \in Seq(Bytes)
    BY ONLY <2>1
  <2>3. Len(s) = t
    BY <2>1, <2>2, LenProperties
  <2> QED
    BY <2>2, <2>3 DEF t
<1>8. n <= 30 /\ n \in Nat
  BY <1>1 DEF n, b
<1>9. \A k \in 1..n : s[k] = b[k]
  <2>1. \A k \in 1..n : k \in 1..32 /\ k <= n
    BY <1>8
  <2> QED
    BY <1>4, <2>1
<1>10. n < 30 => s[n + 1] = 255
  <2> DEFINE k == n + 1
  <2>1. n < 30 => k \in 1..32 /\ ~(k <= n) /\ k = n + 1 /\ k <= 30
    BY <1>8
  <2> HIDE DEF k
  <2>2. n < 30 => s[k] = 255
    BY <1>4, <2>1, ZenonT(60)
  <2> QED
    BY <2>2 DEF k
<1> QED
  BY <1>1, <1>7, <1>9, <1>10 DEF n, b, s

LEMMA Rests ==
  ASSUME NEW S, NEW s \in Seq(S), NEW n \in 0..Len(s)
  PROVE  /\ After(s, n) \in Seq(S) /\ Len(After(s, n)) = Len(s) - n
         /\ \A k \in 1..(Len(s) - n) : After(s, n)[k] = s[n + k]
<1> DEFINE t == After(s, n)
<1>1. n \in Nat /\ Len(s) \in Nat /\ n + 1 \in 1..(Len(s) + 1) /\ Len(s) \in 0..Len(s)
  OBVIOUS
<1>2. t = [k \in 1..(Len(s) - n) |-> s[n + k]]
  BY <1>1 DEF After
<1>3. Len(s) - n \in Nat /\ \A k \in 1..(Len(s) - n) : n + k \in 1..Len(s)
  BY <1>1
<1>4. \A k \in 1..(Len(s) - n) : s[n + k] \in S
  BY <1>3, ElementOfSeq
<1> HIDE DEF t
<1>5. t \in [1..(Len(s) - n) -> S]
  BY <1>2, <1>4
<1>6. t \in Seq(S) /\ Len(t) = Len(s) - n
  BY <1>3, <1>5
<1> QED
  BY <1>2, <1>6 DEF t

(* The rest of a FIB behind its first FIGs.                                 *)
At(figs, i) == After(FibOf(figs), Len(Upto(figs, i)))

(* Behind the last FIG is what is no FIG.                                   *)
LEMMA AtEnd ==
  ASSUME NEW figs \in Seq(Figs), Len(FigBytes(figs)) <= 30
  PROVE  LET rest == At(figs, Len(figs))
         IN  /\ rest \in Seq(Bytes) /\ Len(rest) >= 2
             /\ Len(rest) > 2 => rest[1] = 255
<1> DEFINE n == Len(FigBytes(figs))
           s == FibOf(figs)
           rest == After(s, n)
<1>1. At(figs, Len(figs)) = rest
  BY UptoGrows DEF At
<1>2. n \in Nat /\ n <= 30 /\ s \in Seq(Bytes) /\ Len(s) = 32 /\ (n < 30 => s[n + 1] = 255)
  BY FibBytes
<1> HIDE DEF s, n
<1>2a. s \in Seq(Bytes) /\ n \in 0..Len(s)
  BY <1>2
<1>3. rest \in Seq(Bytes) /\ Len(rest) = 32 - n /\ \A k \in 1..(32 - n) : rest[k] = s[n + k]
  <2>2. /\ rest \in Seq(Bytes) /\ Len(rest) = Len(s) - n
        /\ \A k \in 1..(Len(s) - n) : rest[k] = s[n + k]
    BY ONLY <1>2a, Rests
  <2> HIDE DEF rest
  <2> QED
    BY <1>2, <2>2
<1> HIDE DEF rest
<1>4. Len(rest) > 2 => rest[1] = 255
  BY <1>2, <1>3
<1> QED
  BY <1>1, <1>2, <1>3, <1>4

(* Before it, the next FIG with its type and length in front.               *)
LEMMA AtFig ==
  ASSUME NEW figs \in Seq(Figs), Len(FigBytes(figs)) <= 30, NEW i \in 1..Len(figs)
  PROVE  LET rest == At(figs, i - 1)
             f    == figs[i]
             len  == Len(Coded(f))
         IN  /\ rest \in Seq(Bytes) /\ Len(rest) > 2
             /\ rest[1] \div 32 = f.kind \div 100 /\ rest[1] % 32 = len
             /\ SubSeq(rest, 2, len + 1) = Coded(f)
             /\ After(rest, len + 1) = At(figs, i)
<1> DEFINE s == FibOf(figs)
           u == Upto(figs, i - 1)
           v == Upto(figs, i)
           n == Len(u)
           f == figs[i]
           c == CodedFigs[f]
           d == Coded(f)
           len == Len(d)
           rest == After(s, n)
<1>1. /\ f \in Figs /\ d \in Seq(Bytes) /\ len \in 1..29 /\ Len(c) = len + 1
      /\ c[1] \div 32 = f.kind \div 100 /\ c[1] % 32 = len
      /\ \A k \in 1..len : c[k+1] = d[k]
  <2>1. f \in Figs
    BY ElementOfSeq
  <2> QED
    BY <2>1, CodedFig
<1>2. n \in Nat /\ Len(v) = n + (len + 1) /\ \A k \in 1..(len + 1) : v[n + k] = c[k]
  <2>1. u \in Seq(Bytes) /\ Len(v) = n + Len(c) /\ \A k \in 1..Len(c) : v[n + k] = c[k]
    BY UptoStep
  <2> HIDE DEF u, v, c, len, d, f
  <2> QED
    BY <1>1, <2>1
<1>3. /\ Len(v) <= Len(FigBytes(figs))
      /\ \A k \in 1..Len(v) : FigBytes(figs)[k] = v[k]
  <2>1. i \in 0..Len(figs)
    OBVIOUS
  <2> QED
    BY <2>1, UptoPrefix
<1>4. /\ Len(FigBytes(figs)) \in Nat /\ s \in Seq(Bytes) /\ Len(s) = 32
      /\ \A k \in 1..Len(FigBytes(figs)) : s[k] = FigBytes(figs)[k]
  BY FibBytes
<1>5. Len(FigBytes(figs)) <= 30
  OBVIOUS
<1>6. At(figs, i - 1) = rest /\ At(figs, i) = After(s, n + (len + 1))
  BY <1>2 DEF At
<1> HIDE DEF s, u, v, f, c, d, len, n
<1>7. \A k \in 1..(len + 1) : s[n + k] = c[k]
  <2>1. \A k \in 1..(len + 1) : n + k \in 1..Len(v) /\ n + k \in 1..Len(FigBytes(figs))
    BY <1>1, <1>2, <1>3, <1>4
  <2> QED
    BY <1>2, <1>3, <1>4, <2>1, SMTT(40)
<1>8. n \in Nat /\ len \in 1..29 /\ n + (len + 1) <= 30
  BY <1>1, <1>2, <1>3, <1>4, <1>5
<1>4a. Len(s) = 32
  BY <1>4
<1>4b. s \in Seq(Bytes)
  BY <1>4
<1>9. rest \in Seq(Bytes) /\ Len(rest) = 32 - n /\ \A k \in 1..(32 - n) : rest[k] = s[n + k]
  <2>1. n \in 0..Len(s)
    BY <1>4a, <1>8
  <2>2. /\ rest \in Seq(Bytes) /\ Len(rest) = Len(s) - n
        /\ \A k \in 1..(Len(s) - n) : rest[k] = s[n + k]
    BY ONLY <1>4b, <2>1, Rests
  <2> HIDE DEF rest
  <2> QED
    BY <1>4, <2>2
<1> HIDE DEF rest
<1>10. \A k \in 1..(len + 1) : rest[k] = c[k]
  BY <1>7, <1>8, <1>9
<1>11. SubSeq(rest, 2, len + 1) = d
  <2> DEFINE t == SubSeq(rest, 2, len + 1)
  <2>1. t = [k \in 1..len |-> rest[k + 1]]
    <3>1. 2 \in 1..(Len(rest) + 1) /\ len + 1 \in 1..Len(rest)
      BY <1>8, <1>9
    <3>2. t = [k \in 1..(((len + 1) - 2) + 1) |-> rest[(2 + k) - 1]]
      BY <1>9, <3>1
    <3>3. ((len + 1) - 2) + 1 = len
      BY <1>8
    <3>4. \A k \in 1..len : (2 + k) - 1 = k + 1
      BY <1>8
    <3> QED
      BY <3>2, <3>3, <3>4
  <2>2. d = [k \in 1..len |-> d[k]]
    BY <1>1 DEF len
  <2>3. \A k \in 1..len : rest[k + 1] = d[k]
    <3>1. \A k \in 1..len : k + 1 \in 1..(len + 1)
      BY <1>8
    <3> QED
      BY <1>1, <1>10, <3>1
  <2> QED
    BY <2>1, <2>2, <2>3
<1>12. After(rest, len + 1) = After(s, n + (len + 1))
  <2> DEFINE l == len + 1
             m == n + l
             p == After(rest, l)
             q == After(s, m)
  <2>1. /\ p \in Seq(Bytes) /\ Len(p) = Len(rest) - l
        /\ \A k \in 1..(Len(rest) - l) : p[k] = rest[l + k]
    <3>1. l \in 0..Len(rest)
      <4>1. Len(rest) = 32 - n
        BY <1>9
      <4> QED
        BY ONLY <1>8, <4>1
    <3>2. rest \in Seq(Bytes)
      BY <1>9
    <3> HIDE DEF l
    <3> QED
      BY ONLY <3>1, <3>2, Rests
  <2>2. /\ q \in Seq(Bytes) /\ Len(q) = Len(s) - m
        /\ \A k \in 1..(Len(s) - m) : q[k] = s[m + k]
    <3>1. m \in 0..Len(s)
      BY <1>4a, <1>8
    <3> HIDE DEF m
    <3> QED
      BY ONLY <1>4b, <3>1, Rests
  <2> HIDE DEF p, q
  <2>3. Len(p) = Len(q)
    <3>1. Len(rest) = 32 - n /\ Len(p) = Len(rest) - l /\ Len(q) = Len(s) - m
      BY <1>9, <2>1, <2>2
    <3> QED
      BY ONLY <1>4a, <1>8, <3>1
  <2>4. ASSUME NEW k \in 1..Len(p) PROVE p[k] = q[k]
    <3>1. /\ k \in 1..(Len(rest) - l) /\ k \in 1..(Len(s) - m)
          /\ l + k \in 1..(32 - n) /\ n + (l + k) = m + k
      <4>1. Len(rest) = 32 - n /\ Len(p) = Len(rest) - l /\ k \in 1..Len(p)
        BY <1>9, <2>1
      <4> QED
        BY ONLY <1>4a, <1>8, <4>1
    <3>2. p[k] = rest[l + k] /\ q[k] = s[m + k]
      BY <2>1, <2>2, <3>1
    <3>3. rest[l + k] = s[n + (l + k)]
      BY <1>9, <3>1
    <3> HIDE DEF l, m
    <3> QED
      BY <3>1, <3>2, <3>3
  <2>5. p = q
    BY <2>1, <2>2, <2>3, <2>4, SeqEqual
  <2> QED
    BY <2>5 DEF p, q
<1>13. Len(rest) > 2 /\ rest[1] = c[1]
  BY <1>8, <1>9, <1>10, SMTT(40)
<1> QED
  BY <1>1, <1>6, <1>9, <1>11, <1>12, <1>13 DEF f, d, len

-----------------------------------------------------------------------------
(* The FIGs of a FIB are those of the history from a place on.              *)
Holds(all, figs, at) ==
  /\ figs \in Seq(Figs) /\ at \in Nat /\ Len(FigBytes(figs)) <= 30
  /\ at + Len(figs) <= Len(all)
  /\ \A j \in 1..Len(figs) : all[at + j] = figs[j]

(* The FIB in work, f, is empty or stands before the FIG behind the r that   *)
(* have been read; n is where the queue goes on.                            *)
Within(f, all, r, n, figs, i, at) ==
  /\ Holds(all, figs, at) /\ i \in 0..Len(figs)
  /\ r = at + i /\ n = at + Len(figs) /\ f = At(figs, i)

InWork(f, all, r, n) ==
  \/ f = <<>> /\ r = n
  \/ \E figs \in Seq(Figs), i \in Nat, at \in Nat : Within(f, all, r, n, figs, i, at)

(* The queue's FIBs are those of the rest of the history, one after the     *)
(* other: cut is where each ends.                                          *)
Waiting(q, all, pend, cut) ==
  /\ cut \in [0..Len(q) -> Nat] /\ cut[Len(q)] = Len(all)
  /\ \A k \in 1..Len(q) : /\ Holds(all, pend[k], cut[k-1])
                          /\ cut[k] = cut[k-1] + Len(pend[k])
                          /\ q[k] = FibOf(pend[k])

PlaceInv ==
  /\ queue \in Seq(Seq(Bytes))
  /\ \E pend, cut : Waiting(queue, sent, pend, cut) /\ InWork(fib, sent, Len(read), cut[0])

FibInv == ReadRight(sent, read, done, parsed) /\ PlaceInv

(* More FIGs behind them change nothing about those there are.              *)
LEMMA MoreSent ==
  ASSUME NEW all \in Seq(Figs), NEW more \in Seq(Figs)
  PROVE  LET new == all \o more
         IN  /\ new \in Seq(Figs) /\ Len(new) = Len(all) + Len(more)
             /\ \A k \in 1..Len(all) : new[k] = all[k]
             /\ \A k \in 1..Len(more) : new[Len(all) + k] = more[k]
             /\ \A figs, at : Holds(all, figs, at) => Holds(new, figs, at)
             /\ \A r, d, p : ReadRight(all, r, d, p) => ReadRight(new, r, d, p)
<1> DEFINE new == all \o more
           n == Len(all)
<1>1. /\ new \in Seq(Figs) /\ Len(new) = n + Len(more) /\ n \in Nat /\ Len(more) \in Nat
      /\ \A k \in 1..(n + Len(more)) : new[k] = IF k <= n THEN all[k] ELSE more[k - n]
  BY ConcatProperties
<1> HIDE DEF new, n
<1>2. \A k \in 1..n : new[k] = all[k]
  BY <1>1
<1>3. \A k \in 1..Len(more) : new[n + k] = more[k]
  <2>1. \A k \in 1..Len(more) : n + k \in 1..(n + Len(more)) /\ ~(n + k <= n) /\ (n + k) - n = k
    BY <1>1
  <2> QED
    BY <1>1, <2>1
<1>4. ASSUME NEW figs, NEW at, Holds(all, figs, at) PROVE Holds(new, figs, at)
  <2>1. /\ figs \in Seq(Figs) /\ at \in Nat /\ Len(FigBytes(figs)) <= 30
        /\ at + Len(figs) <= n /\ \A j \in 1..Len(figs) : all[at + j] = figs[j]
        /\ Len(figs) \in Nat
    BY <1>4 DEF Holds, n
  <2>2. \A j \in 1..Len(figs) : at + j \in 1..n
    BY <1>1, <2>1
  <2>3. at + Len(figs) <= Len(new)
    BY <1>1, <2>1
  <2>4. \A j \in 1..Len(figs) : new[at + j] = figs[j]
    BY <1>2, <2>1, <2>2
  <2> QED
    BY <2>1, <2>3, <2>4 DEF Holds
<1>5. ASSUME NEW r, NEW d, NEW p, ReadRight(all, r, d, p) PROVE ReadRight(new, r, d, p)
  <2>1. /\ r \in Seq(AllReadings) /\ d \in Seq(BOOLEAN) /\ Len(r) <= n /\ Len(d) = Len(r)
        /\ Len(r) \in Nat
        /\ \A k \in 1..Len(r) : r[k] \in Readings(all[k])
    BY <1>5 DEF ReadRight, n
  <2>2. \A k \in 1..Len(r) : new[k] = all[k]
    BY <1>1, <1>2, <2>1
  <2>3. \A k \in 1..Len(r) : \A j \in 1..(k-1) : new[j] = all[j]
    BY <2>1, <2>2
  <2>4. Len(r) <= Len(new)
    BY <1>1, <2>1
  <2>5. \A k \in 1..Len(r) : r[k] \in Readings(new[k])
    BY <2>1, <2>2
  <2>6. \A x : x \in p <=> \E k \in 1..Len(r) : new[k].kind \in Compared /\ x = <<new[k].kind, r[k]>>
    <3>1. \A x : x \in p <=> \E k \in 1..Len(r) : all[k].kind \in Compared /\ x = <<all[k].kind, r[k]>>
      BY <1>5, Zenon DEF ReadRight
    <3> QED
      BY <2>2, <3>1, Zenon
  <2>7. ASSUME NEW k \in 1..Len(r)
        PROVE  d[k] <=> /\ new[k].kind \in Compared
                        /\ \E j \in 1..(k-1) : new[j].kind = new[k].kind /\ r[j] = r[k]
    <3>1. d[k] <=> /\ all[k].kind \in Compared
                   /\ \E j \in 1..(k-1) : all[j].kind = all[k].kind /\ r[j] = r[k]
      BY <1>5, Zenon DEF ReadRight
    <3> QED
      BY <2>2, <2>3, <3>1, Zenon
  <2> QED
    BY <1>1, <2>1, <2>4, <2>5, <2>6, <2>7, Zenon DEF ReadRight
<1> QED
  BY <1>1, <1>2, <1>3, <1>4, <1>5 DEF new, n

LEMMA FibInit ==
  ASSUME Init
  PROVE  FibInv
<1>1. queue = <<>> /\ fib = <<>> /\ parsed = {} /\ read = <<>> /\ done = <<>> /\ sent = <<>>
  BY DEF Init
<1>2. ReadRight(sent, read, done, parsed)
  <2>1. /\ sent \in Seq(Figs) /\ read \in Seq(AllReadings) /\ done \in Seq(BOOLEAN)
        /\ Len(read) = 0 /\ Len(sent) = 0 /\ Len(done) = 0
    BY <1>1
  <2>2. \A k \in 1..Len(read) : FALSE
    BY <2>1
  <2>3. \A x : x \notin parsed
    BY <1>1
  <2> QED
    BY <2>1, <2>2, <2>3 DEF ReadRight
<1>3. PlaceInv
  <2> DEFINE cut == [k \in 0..0 |-> 0]
  <2>1. queue \in Seq(Seq(Bytes)) /\ Len(queue) = 0 /\ Len(sent) = 0 /\ Len(read) = 0
    BY <1>1
  <2>2. cut \in [0..0 -> Nat] /\ cut[0] = 0
    OBVIOUS
  <2> HIDE DEF cut
  <2>3. Waiting(queue, sent, <<>>, cut)
    BY <2>1, <2>2 DEF Waiting
  <2>4. InWork(fib, sent, Len(read), cut[0])
    BY <1>1, <2>1, <2>2 DEF InWork
  <2> QED
    BY <2>1, <2>3, <2>4 DEF PlaceInv
<1> QED
  BY <1>2, <1>3 DEF FibInv

(* A FIB goes to the end of the queue.                                      *)
LEMMA CallKeeps ==
  ASSUME FibInv, NEW figs \in Seq(Figs), Len(FigBytes(figs)) <= 30, NEW crcOk \in BOOLEAN,
         Call(figs, crcOk)
  PROVE  FibInv'
<1>1. read' = read /\ done' = done /\ parsed' = parsed /\ fib' = fib
  BY DEF Call
<1>2. CASE ~crcOk
  <2>1. queue' = queue /\ sent' = sent
    BY <1>2 DEF Call
  <2> QED
    BY <1>1, <2>1 DEF FibInv, PlaceInv
<1>3. CASE crcOk
  <2>1. queue' = Append(queue, FibOf(figs)) /\ sent' = sent \o figs
    BY <1>3 DEF Call
  <2>2. queue \in Seq(Seq(Bytes)) /\ sent \in Seq(Figs)
    BY DEF FibInv, PlaceInv, ReadRight
  <2>3. /\ sent' \in Seq(Figs) /\ Len(sent') = Len(sent) + Len(figs)
        /\ \A k \in 1..Len(figs) : sent'[Len(sent) + k] = figs[k]
        /\ \A x, at : Holds(sent, x, at) => Holds(sent', x, at)
        /\ \A r, d, p : ReadRight(sent, r, d, p) => ReadRight(sent', r, d, p)
    BY <2>1, <2>2, MoreSent
  <2>4. ReadRight(sent', read', done', parsed')
    BY <1>1, <2>3 DEF FibInv
  <2>5. PICK pend, cut : Waiting(queue, sent, pend, cut) /\ InWork(fib, sent, Len(read), cut[0])
    BY DEF FibInv, PlaceInv
  <2> DEFINE n == Len(queue)
             m == n + 1
             all == sent'
             len == Len(all)
             pendN == [k \in 1..m |-> IF k = m THEN figs ELSE pend[k]]
             cutN == [k \in 0..m |-> IF k = m THEN len ELSE cut[k]]
  <2>6. FibOf(figs) \in Seq(Bytes)
    BY FibBytes
  <2>7. /\ queue' \in Seq(Seq(Bytes)) /\ Len(queue') = m /\ n \in Nat
        /\ \A k \in 1..n : queue'[k] = queue[k]
        /\ queue'[m] = FibOf(figs)
    BY <2>1, <2>2, <2>6, AppendProperties
  <2>8. /\ cut \in [0..n -> Nat] /\ cut[n] = Len(sent)
        /\ \A k \in 1..n : /\ Holds(sent, pend[k], cut[k-1])
                           /\ cut[k] = cut[k-1] + Len(pend[k])
                           /\ queue[k] = FibOf(pend[k])
    BY <2>5 DEF Waiting
  <2>9. Holds(all, figs, Len(sent))
    <3>1. Len(sent) \in Nat
      BY <2>2
    <3>2. Len(sent) + Len(figs) <= Len(sent')
      BY <2>3, <3>1
    <3> QED
      BY <2>3, <3>1, <3>2 DEF Holds
  <2>10. /\ len \in Nat /\ len = Len(sent) + Len(figs)
    BY <2>3
  <2> HIDE DEF n, all, len
  <2>11. \A k \in 0..n : cutN[k] = cut[k] /\ cutN[k] \in Nat
    <3>1. \A k \in 0..n : k \in 0..m /\ k # m
      BY <2>7
    <3> HIDE DEF m
    <3> QED
      BY <2>8, <3>1
  <2>12. cutN[m] = len
    <3>1. m \in 0..m
      BY <2>7
    <3> HIDE DEF m
    <3> QED
      BY <3>1
  <2>13. cutN \in [0..m -> Nat]
    <3>1. \A k \in 0..m : k \in 0..n \/ k = m
      BY <2>7
    <3>2. \A k \in 0..m : cutN[k] \in Nat
      BY <2>10, <2>11, <2>12, <3>1
    <3> HIDE DEF m
    <3> QED
      BY <3>2
  <2>14. pendN[m] = figs /\ \A k \in 1..n : pendN[k] = pend[k]
    <3>1. m \in 1..m /\ \A k \in 1..n : k \in 1..m /\ k # m
      BY <2>7
    <3> HIDE DEF m
    <3> QED
      BY <3>1
  <2>15. m - 1 = n /\ m \in Nat /\ n \in 0..n /\ 0 \in 0..n
    BY <2>7
  <2>16. \A k \in 1..m : k \in 1..n \/ k = m
    BY <2>7
  <2>17. \A k \in 1..n : k - 1 \in 0..n /\ k \in 0..n
    BY <2>7
  <2> HIDE DEF m, pendN, cutN
  <2>18. \A k \in 1..n : /\ Holds(all, pendN[k], cutN[k-1])
                         /\ cutN[k] = cutN[k-1] + Len(pendN[k])
                         /\ queue'[k] = FibOf(pendN[k])
    BY <2>3, <2>7, <2>8, <2>11, <2>14, <2>17 DEF all
  <2>19. /\ Holds(all, pendN[m], cutN[m-1])
         /\ cutN[m] = cutN[m-1] + Len(pendN[m])
         /\ queue'[m] = FibOf(pendN[m])
    BY <2>7, <2>8, <2>9, <2>10, <2>11, <2>12, <2>14, <2>15
  <2>20. Waiting(queue', sent', pendN, cutN)
    <3>1. \A k \in 1..m : /\ Holds(all, pendN[k], cutN[k-1])
                          /\ cutN[k] = cutN[k-1] + Len(pendN[k])
                          /\ queue'[k] = FibOf(pendN[k])
      BY <2>16, <2>18, <2>19
    <3> QED
      BY <2>7, <2>12, <2>13, <3>1 DEF Waiting, all, len
  <2>21. InWork(fib', sent', Len(read'), cutN[0])
    <3>1. cutN[0] = cut[0]
      BY <2>11, <2>15
    <3>2. InWork(fib, sent, Len(read), cut[0])
      BY <2>5
    <3> QED
      BY <1>1, <2>3, <3>1, <3>2, Zenon DEF InWork, Within
  <2> QED
    BY <2>4, <2>7, <2>20, <2>21 DEF FibInv, PlaceInv
<1> QED
  BY <1>2, <1>3

(* A FIB in work is never empty: the CRC is left of it.                      *)
LEMMA NotUsedUp ==
  ASSUME NEW figs \in Seq(Figs), NEW i \in 0..Len(figs), Len(FigBytes(figs)) <= 30
  PROVE  At(figs, i) # <<>>
<1>1. CASE i = Len(figs)
  BY <1>1, AtEnd
<1>2. CASE i # Len(figs)
  <2> DEFINE k == i + 1
  <2>1. k \in 1..Len(figs) /\ k - 1 = i
    BY <1>2
  <2> HIDE DEF k
  <2>2. Len(At(figs, k - 1)) > 2 /\ At(figs, k - 1) \in Seq(Bytes)
    BY <2>1, AtFig
  <2> QED
    BY <2>1, <2>2
<1> QED
  BY <1>1, <1>2

(* processFib takes the first FIB of the queue.                             *)
LEMMA TakeKeeps ==
  ASSUME FibInv, TakeFib
  PROVE  FibInv'
<1>1. /\ fib = <<>> /\ queue # <<>> /\ fib' = Head(queue) /\ queue' = Tail(queue)
      /\ parsed' = parsed /\ read' = read /\ done' = done /\ sent' = sent
  BY DEF TakeFib
<1>2. queue \in Seq(Seq(Bytes)) /\ Len(read) \in Nat
  BY DEF FibInv, PlaceInv, ReadRight
<1>3. PICK pend, cut : Waiting(queue, sent, pend, cut) /\ InWork(fib, sent, Len(read), cut[0])
  BY DEF FibInv, PlaceInv
<1> DEFINE n == Len(queue)
           m == n - 1
           pendN == [k \in 1..m |-> pend[k + 1]]
           cutN == [k \in 0..m |-> cut[k + 1]]
<1>4. /\ queue' \in Seq(Seq(Bytes)) /\ Len(queue') = m /\ n \in Nat /\ n >= 1
      /\ \A k \in 1..m : queue'[k] = queue[k + 1]
      /\ fib' = queue[1]
  BY <1>1, <1>2, HeadTailProperties
<1>5. /\ cut \in [0..n -> Nat] /\ cut[n] = Len(sent)
      /\ \A k \in 1..n : /\ Holds(sent, pend[k], cut[k-1])
                         /\ cut[k] = cut[k-1] + Len(pend[k])
                         /\ queue[k] = FibOf(pend[k])
  BY <1>3 DEF Waiting
<1> HIDE DEF n
<1>6. m \in Nat /\ m + 1 = n /\ 1 \in 1..n /\ 1 - 1 = 0 /\ 0 + 1 = 1 /\ 0 \in 0..m /\ m \in 0..m
  BY <1>4
<1>7. \A k \in 0..m : k + 1 \in 0..n
  BY <1>4
<1>8. \A k \in 1..m : /\ k \in 0..m /\ k - 1 \in 0..m /\ k + 1 \in 1..n
                      /\ (k + 1) - 1 = k /\ (k - 1) + 1 = k
  BY <1>4
<1> HIDE DEF m
<1>9. /\ cutN \in [0..m -> Nat] /\ \A k \in 0..m : cutN[k] = cut[k + 1]
      /\ \A k \in 1..m : pendN[k] = pend[k + 1]
  BY <1>5, <1>7
<1> HIDE DEF cutN, pendN
<1>10. cutN[m] = Len(sent) /\ cutN[0] = cut[1]
  BY <1>5, <1>6, <1>9
<1>11. \A k \in 1..m : /\ Holds(sent, pendN[k], cutN[k-1])
                       /\ cutN[k] = cutN[k-1] + Len(pendN[k])
                       /\ queue'[k] = FibOf(pendN[k])
  <2> SUFFICES ASSUME NEW k \in 1..m
               PROVE  /\ Holds(sent, pendN[k], cutN[k-1])
                      /\ cutN[k] = cutN[k-1] + Len(pendN[k])
                      /\ queue'[k] = FibOf(pendN[k])
    OBVIOUS
  <2> DEFINE j == k + 1
  <2>1. j \in 1..n /\ j - 1 = k /\ cutN[k] = cut[j] /\ cutN[k-1] = cut[k] /\ pendN[k] = pend[j]
    BY <1>8, <1>9
  <2>2. queue'[k] = queue[j]
    BY <1>4
  <2> HIDE DEF j
  <2> QED
    BY <1>5, <2>1, <2>2
<1>12. Waiting(queue', sent', pendN, cutN)
  BY <1>1, <1>4, <1>9, <1>10, <1>11 DEF Waiting
<1> DEFINE figs == pend[1]
           at == cut[0]
<1>13. /\ Holds(sent, figs, at) /\ cut[1] = at + Len(figs) /\ queue[1] = FibOf(figs)
  BY <1>5, <1>6
<1> HIDE DEF figs, at
<1>14. figs \in Seq(Figs) /\ at \in Nat /\ Len(FigBytes(figs)) <= 30
  BY <1>13 DEF Holds
<1>15. Len(read) = at
  <2>1. \A x \in Seq(Figs) : \A i \in 0..Len(x) : Len(FigBytes(x)) <= 30 => At(x, i) # <<>>
    BY NotUsedUp
  <2>2. ~ \E x \in Seq(Figs), i \in Nat, y \in Nat : Within(fib, sent, Len(read), at, x, i, y)
    BY <1>1, <2>1 DEF Within, Holds
  <2>3. InWork(fib, sent, Len(read), at)
    BY <1>3 DEF at
  <2> QED
    BY <2>2, <2>3, Zenon DEF InWork
<1>16. fib' = At(figs, 0)
  <2>1. Upto(figs, 0) = <<>>
    BY <1>14, UptoGrows
  <2>2. fib' = FibOf(figs)
    BY <1>4, <1>13
  <2> DEFINE s == FibOf(figs)
             t == After(s, 0)
  <2>3. s \in Seq(Bytes) /\ Len(s) = 32
    BY <1>14, FibBytes
  <2>4. At(figs, 0) = t
    BY <2>1 DEF At
  <2> HIDE DEF s
  <2>5. 0 \in 0..Len(s)
    BY <2>3
  <2>6. /\ t \in Seq(Bytes) /\ Len(t) = Len(s) - 0
        /\ \A k \in 1..(Len(s) - 0) : t[k] = s[0 + k]
    BY ONLY <2>3, <2>5, Rests, ZenonT(60)
  <2> HIDE DEF t
  <2>7. Len(t) = Len(s) /\ \A k \in 1..Len(s) : t[k] = s[k]
    BY <2>3, <2>6
  <2>8. t = s
    BY <2>3, <2>6, <2>7, SeqEqual
  <2> QED
    BY <2>2, <2>4, <2>8 DEF s
<1>17. Within(fib', sent', Len(read'), cutN[0], figs, 0, at)
  <2>1. Len(figs) \in Nat
    BY <1>14
  <2>2. 0 \in 0..Len(figs) /\ at = at + 0
    BY <1>14, <2>1
  <2>3. cutN[0] = at + Len(figs)
    BY <1>10, <1>13
  <2> QED
    BY <1>1, <1>13, <1>15, <1>16, <2>2, <2>3 DEF Within
<1>18. InWork(fib', sent', Len(read'), cutN[0])
  BY <1>14, <1>17 DEF InWork
<1>19. ReadRight(sent', read', done', parsed')
  BY <1>1 DEF FibInv
<1> QED
  BY <1>4, <1>12, <1>18, <1>19 DEF FibInv, PlaceInv

(* Where the parser stands, in front of a FIG or behind the last.           *)
LEMMA Standing ==
  ASSUME FibInv, Len(fib) >= 2
  PROVE  \E pend, cut, figs, i, at :
           /\ Waiting(queue, sent, pend, cut) /\ Within(fib, sent, Len(read), cut[0], figs, i, at)
<1>1. PICK pend, cut : Waiting(queue, sent, pend, cut) /\ InWork(fib, sent, Len(read), cut[0])
  BY DEF FibInv, PlaceInv
<1>2. fib # <<>>
  BY DEF FibInv
<1> QED
  BY <1>1, <1>2, Zenon DEF InWork

LEMMA ProcessKeeps ==
  ASSUME FibInv, ProcessFig
  PROVE  FibInv'
<1>1. Len(fib) > 2 /\ queue' = queue /\ sent' = sent
  BY DEF ProcessFig
<1>2. PICK pend, cut, figs, i, at :
           /\ Waiting(queue, sent, pend, cut) /\ Within(fib, sent, Len(read), cut[0], figs, i, at)
  BY <1>1, Standing
<1>3. /\ figs \in Seq(Figs) /\ at \in Nat /\ Len(FigBytes(figs)) <= 30
      /\ at + Len(figs) <= Len(sent)
      /\ \A j \in 1..Len(figs) : sent[at + j] = figs[j]
      /\ i \in 0..Len(figs) /\ Len(read) = at + i /\ cut[0] = at + Len(figs) /\ fib = At(figs, i)
      /\ Len(figs) \in Nat
  BY <1>2 DEF Within, Holds
<1> DEFINE type == fib[1] \div 32
           len  == fib[1] % 32
           data == SubSeq(fib, 2, len + 1)
           kind == Kind(type, data[1] % (IF type = 0 THEN 32 ELSE 8))
<1>4. CASE i = Len(figs)
  <2>1. fib[1] = 255
    BY <1>1, <1>3, <1>4, AtEnd
  <2>2. type = 7
    BY <2>1
  <2>3. ~IsFig(type, len)
    BY <2>2 DEF IsFig
  <2> HIDE DEF type, len, data, kind
  <2>4. fib' = <<>> /\ parsed' = parsed /\ read' = read /\ done' = done
    BY <2>3, Zenon DEF ProcessFig, type, len
  <2>5. InWork(fib', sent', Len(read'), cut[0])
    BY <1>3, <1>4, <2>4 DEF InWork
  <2> QED
    BY <1>1, <1>2, <2>4, <2>5 DEF FibInv, PlaceInv
<1>5. CASE i # Len(figs)
  <2> DEFINE k == i + 1
  <2>1. k \in 1..Len(figs) /\ k - 1 = i /\ k \in Nat
    BY <1>3, <1>5
  <2>2. Len(read) + 1 = at + k /\ Len(read) < Len(sent)
    BY <1>3, <2>1
  <2> HIDE DEF k
  <2> DEFINE f == figs[k]
             size == Len(Coded(f))
  <2>3. /\ type = f.kind \div 100 /\ len = size
        /\ SubSeq(fib, 2, size + 1) = Coded(f)
        /\ After(fib, size + 1) = At(figs, k)
    BY <1>3, <2>1, AtFig, ZenonT(60)
  <2>4. /\ f \in Figs /\ type \in 0..6 /\ size \in 1..29
        /\ f.kind = Kind(f.kind \div 100, Coded(f)[1] % (IF f.kind \div 100 = 0 THEN 32 ELSE 8))
    <3>1. f \in Figs
      BY <1>3, <2>1, ElementOfSeq
    <3> HIDE DEF f
    <3>2. /\ size \in 1..29 /\ f.kind \div 100 \in 0..6
          /\ f.kind = Kind(f.kind \div 100, Coded(f)[1] % (IF f.kind \div 100 = 0 THEN 32 ELSE 8))
      BY <3>1, CodedFig
    <3> QED
      BY <2>3, <3>1, <3>2 DEF f
  <2>5. IsFig(type, len)
    <3>1. type \in 0..6 /\ len \in 1..29
      BY <2>3, <2>4
    <3> HIDE DEF type, len
    <3> QED
      BY ONLY <3>1 DEF IsFig
  <2>6. data = Coded(f)
    BY <2>3
  <2>7. kind = f.kind
    BY <2>3, <2>4, <2>6
  <2> HIDE DEF type, len, data, kind, f, size
  <2>8. fib' = After(fib, len + 1) /\ Parse(kind, data)
    BY <2>5, Zenon DEF ProcessFig, type, len, data, kind
  <2>9. Parse(f.kind, Coded(f))
    BY <2>6, <2>7, <2>8
  <2>10. f = sent[Len(read) + 1]
    <3>1. sent[at + k] = figs[k]
      BY <1>3, <2>1
    <3> QED
      BY <2>2, <3>1 DEF f
  <2>11. ReadRight(sent, read', done', parsed') /\ Len(read') = Len(read) + 1
    <3>1. ReadRight(sent, read, done, parsed)
      BY DEF FibInv
    <3> QED
      BY <2>2, <2>9, <2>10, <3>1, ParseKeeps
  <2>12. Within(fib', sent', Len(read'), cut[0], figs, k, at)
    <3>1. k \in 0..Len(figs)
      BY <1>3, <2>1
    <3>2. Holds(sent', figs, at)
      BY <1>1, <1>2 DEF Within
    <3>3. fib' = At(figs, k)
      BY <2>3, <2>8
    <3>4. Len(read') = at + k
      BY <2>2, <2>11
    <3> QED
      BY <1>3, <3>1, <3>2, <3>3, <3>4 DEF Within
  <2>13. InWork(fib', sent', Len(read'), cut[0])
    BY <1>3, <2>1, <2>12 DEF InWork
  <2> QED
    BY <1>1, <1>2, <2>11, <2>13 DEF FibInv, PlaceInv
<1> QED
  BY <1>4, <1>5

(* Nothing but the CRC is left only when all FIGs have been read.           *)
LEMMA UsedUpKeeps ==
  ASSUME FibInv, FibUsedUp
  PROVE  FibInv'
<1>1. /\ Len(fib) = 2 /\ fib' = <<>> /\ queue' = queue /\ sent' = sent
      /\ parsed' = parsed /\ read' = read /\ done' = done
  BY DEF FibUsedUp
<1>2. PICK pend, cut, figs, i, at :
           /\ Waiting(queue, sent, pend, cut) /\ Within(fib, sent, Len(read), cut[0], figs, i, at)
  BY <1>1, Standing
<1>3. /\ figs \in Seq(Figs) /\ at \in Nat /\ Len(FigBytes(figs)) <= 30
      /\ i \in 0..Len(figs) /\ Len(read) = at + i /\ cut[0] = at + Len(figs) /\ fib = At(figs, i)
  BY <1>2 DEF Within, Holds
<1>4. i = Len(figs)
  <2>1. ASSUME i # Len(figs) PROVE FALSE
    <3> DEFINE k == i + 1
    <3>1. k \in 1..Len(figs) /\ k - 1 = i
      BY <1>3, <2>1
    <3> HIDE DEF k
    <3>2. Len(At(figs, k - 1)) > 2
      BY <1>3, <3>1, AtFig
    <3>3. At(figs, k - 1) = fib
      BY <1>3, <3>1
    <3>4. Len(fib) > 2
      BY ONLY <3>2, <3>3
    <3>5. Len(fib) = 2
      BY <1>1
    <3> QED
      BY ONLY <3>4, <3>5
  <2> QED
    BY <2>1
<1>5. InWork(fib', sent', Len(read'), cut[0])
  BY <1>1, <1>3, <1>4 DEF InWork
<1> QED
  BY <1>1, <1>2, <1>5 DEF FibInv, PlaceInv

LEMMA FibNext ==
  ASSUME FibInv, [Next]_vars
  PROVE  FibInv'
<1>1. CASE Receive
  <2>1. PICK n \in 1 .. (MaxFigs - Len(sent)) : \E figs \in [1..n -> Figs] :
             /\ Len(FigBytes(figs)) <= 30
             /\ \E crcOk \in BOOLEAN : Call(figs, crcOk)
    BY <1>1 DEF Receive
  <2>2. PICK figs \in [1..n -> Figs] :
             /\ Len(FigBytes(figs)) <= 30
             /\ \E crcOk \in BOOLEAN : Call(figs, crcOk)
    BY <2>1
  <2>3. n \in Nat
    <3>1. MaxFigs - Len(sent) \in Int
      BY SenderAssumption DEF FibInv, ReadRight
    <3> QED
      BY <3>1
  <2>4. figs \in Seq(Figs)
    BY <2>3
  <2> QED
    BY <2>2, <2>4, CallKeeps
<1>2. CASE TakeFib
  BY <1>2, TakeKeeps
<1>3. CASE ProcessFig
  BY <1>3, ProcessKeeps
<1>4. CASE FibUsedUp
  BY <1>4, UsedUpKeeps
<1>5. CASE UNCHANGED vars
  BY <1>5 DEF vars, FibInv, PlaceInv
<1> QED
  BY <1>1, <1>2, <1>3, <1>4, <1>5 DEF Next

LEMMA FibInvariant == Spec => []FibInv
<1>1. Init => FibInv
  BY FibInit
<1>2. FibInv /\ [Next]_vars => FibInv'
  BY FibNext
<1> QED
  BY <1>1, <1>2, PTL DEF Spec

-----------------------------------------------------------------------------
(* No FIG of a FIB that arrived intact is left out: once the queue is empty  *)
(* and the FIB in work used up, all have been read.                         *)
THEOREM NoneLeftOut == Spec => []AllRead
<1>1. FibInv => AllRead
  <2> SUFFICES ASSUME FibInv, queue = <<>>, fib = <<>> PROVE Len(read) = Len(sent)
    BY DEF AllRead
  <2>1. PICK pend, cut : Waiting(queue, sent, pend, cut) /\ InWork(fib, sent, Len(read), cut[0])
    BY DEF FibInv, PlaceInv
  <2>2. cut[0] = Len(sent)
    <3>1. Len(queue) = 0 /\ cut[Len(queue)] = Len(sent)
      BY <2>1 DEF Waiting
    <3> QED
      BY <3>1
  <2>3. CASE Len(read) = cut[0]
    BY <2>2, <2>3
  <2>4. CASE \E figs \in Seq(Figs), i \in Nat, at \in Nat : Within(fib, sent, Len(read), cut[0], figs, i, at)
    <3>1. PICK figs \in Seq(Figs), i \in Nat, at \in Nat : Within(fib, sent, Len(read), cut[0], figs, i, at)
      BY <2>4
    <3>2. i \in 0..Len(figs) /\ fib = At(figs, i) /\ Len(FigBytes(figs)) <= 30
      BY <3>1 DEF Within, Holds
    <3>3. fib # <<>>
      BY <3>2, NotUsedUp
    <3> QED
      BY <3>3
  <2> QED
    BY <2>1, <2>3, <2>4, Zenon DEF InWork
<1> QED
  BY <1>1, FibInvariant, PTL

(* What decoding owes a FIG that stands alone: it is held as it was meant,   *)
(* or it is one of the misread.                                            *)
AloneAsMeant ==
  \A f \in Figs : \A v \in Readings(f) : (Held(f, v) = Meant(f)) <=> ~Misread(f)

(* And two FIGs of a kind that is compared: they come to be held as the     *)
(* same exactly if they carry the same entries.                            *)
AloneTold ==
  \A f, h \in Figs :
    f.kind \in Compared /\ h.kind = f.kind /\ ~Undetermined(f)
      => \A v \in Readings(f), u \in Readings(h) : u = v <=> h.entries = f.entries

(* A FIG that is held as it was meant when it is decoded alone is so in any  *)
(* company: whatever FIGs stand before and behind it in its FIB, and        *)
(* whatever FIBs came before.                                              *)
THEOREM AsMeantInCompany == ASSUME AloneAsMeant PROVE Spec => []ReadAsMeant
<1>1. FibInv => ReadAsMeant
  <2> SUFFICES ASSUME FibInv, NEW k \in DOMAIN read
               PROVE  (Held(sent[k], read[k]) = Meant(sent[k])) <=> ~Misread(sent[k])
    BY DEF ReadAsMeant
  <2>1. /\ sent \in Seq(Figs) /\ read \in Seq(AllReadings) /\ Len(read) <= Len(sent)
        /\ \A j \in 1..Len(read) : read[j] \in Readings(sent[j])
    BY DEF FibInv, ReadRight
  <2>2. k \in 1..Len(read) /\ k \in 1..Len(sent)
    BY <2>1
  <2>3. sent[k] \in Figs /\ read[k] \in Readings(sent[k])
    BY <2>1, <2>2, ElementOfSeq
  <2> QED
    BY <2>3, Zenon DEF AloneAsMeant
<1> QED
  BY <1>1, FibInvariant, PTL

(* A FIG is told to be a repeated one exactly if it came before, however     *)
(* long ago and whatever came between, provided that decoding tells the     *)
(* FIGs that are sent apart.                                               *)
THEOREM RepeatsAreTold == ASSUME AloneTold PROVE Spec => []RepeatRecognized
<1>1. FibInv => RepeatRecognized
  <2> SUFFICES ASSUME FibInv, NEW k \in DOMAIN done,
                      sent[k].kind \in Compared, ~Undetermined(sent[k])
               PROVE  done[k] <=> \E j \in 1..k-1 : /\ sent[j].kind = sent[k].kind
                                                    /\ sent[j].entries = sent[k].entries
    BY Zenon DEF RepeatRecognized
  <2>1. /\ sent \in Seq(Figs) /\ read \in Seq(AllReadings) /\ Len(read) <= Len(sent)
        /\ done \in Seq(BOOLEAN) /\ Len(done) = Len(read)
        /\ \A j \in 1..Len(read) : read[j] \in Readings(sent[j])
    BY DEF FibInv, ReadRight
  <2>2. k \in 1..Len(read) /\ k \in 1..Len(sent)
    BY <2>1
  <2>3. done[k] <=> /\ sent[k].kind \in Compared
                    /\ \E j \in 1..(k-1) : sent[j].kind = sent[k].kind /\ read[j] = read[k]
    BY <2>2, Zenon DEF FibInv, ReadRight
  <2>4. sent[k] \in Figs /\ read[k] \in Readings(sent[k])
    BY <2>1, <2>2, ElementOfSeq
  <2>5. \A j \in 1..(k-1) : sent[j] \in Figs /\ read[j] \in Readings(sent[j])
    <3>1. \A j \in 1..(k-1) : j \in 1..Len(read) /\ j \in 1..Len(sent)
      BY <2>1, <2>2
    <3> QED
      BY <2>1, <3>1, ElementOfSeq
  <2>6. \A j \in 1..(k-1) : sent[j].kind = sent[k].kind
          => (read[j] = read[k] <=> sent[j].entries = sent[k].entries)
    <3> SUFFICES ASSUME NEW j \in 1..(k-1), sent[j].kind = sent[k].kind
                 PROVE  read[j] = read[k] <=> sent[j].entries = sent[k].entries
      OBVIOUS
    <3> DEFINE f == sent[k]
               h == sent[j]
               v == read[k]
               u == read[j]
    <3>1. f \in Figs /\ h \in Figs /\ v \in Readings(f) /\ u \in Readings(h)
      BY <2>4, <2>5
    <3>2. f.kind \in Compared /\ h.kind = f.kind /\ ~Undetermined(f)
      OBVIOUS
    <3> HIDE DEF f, h, v, u
    <3>3. u = v <=> h.entries = f.entries
      BY <3>1, <3>2, Zenon DEF AloneTold
    <3> QED
      BY <3>3 DEF f, h, v, u
  <2> QED
    BY <2>3, <2>6, Zenon
<1> QED
  BY <1>1, FibInvariant, PTL
=============================================================================
