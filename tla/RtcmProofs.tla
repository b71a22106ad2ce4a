------------------------------ MODULE RtcmProofs ------------------------------
(***************************************************************************)
(* That the RTCM messages which arrive are pushed whole, in order and none  *)
(* late, for every base, every set of payloads and every way of cutting the *)
(* stream into data frames: if no length carries into an odd high part.     *)
(***************************************************************************)
EXTENDS RtcmStream, SequenceTheorems, TLAPS

(* RtcmFrame::length is right for these payloads; rtcm_carry shows what the *)
(* others do.                                                               *)
NoCarry ==
  \A d \in Payloads : (Len(d) % Base) + Overhead < Base \/ (Len(d) \div Base) % 2 = 0

Messages == {Message(d) : d \in Payloads}

(* The bytes b are the members of s behind the first p, one behind the     *)
(* other; at[i] is where the i-th ends.                                    *)
Cut(b, s, p) ==
  \E at \in [p..Len(s) -> 0..Len(b)] :
    /\ at[p] = 0 /\ at[Len(s)] = Len(b)
    /\ \A i, j \in p..Len(s) : i <= j => at[i] <= at[j]
    /\ \A i \in (p + 1)..Len(s) :
         /\ at[i] = at[i - 1] + Len(s[i])
         /\ \A k \in 1..Len(s[i]) : b[at[i - 1] + k] = s[i][k]

(* The inductive invariant: what was sent and is not pushed is in the      *)
(* buffer and behind it at the sender, from a message's first byte on.     *)
RtcmInv ==
  /\ split \in BOOLEAN /\ cutting \in BOOLEAN
  /\ unsent \in Seq(Byte) /\ buffer \in Seq(Byte)
  /\ left \in Nat
  /\ sent \in Seq(Messages) /\ pushed \in Seq(Messages)
  /\ Len(pushed) <= Len(sent)
  /\ pushed = SubSeq(sent, 1, Len(pushed))
  /\ Cut(buffer \o unsent, sent, Len(pushed))
  /\ ~cutting /\ Len(pushed) < Len(sent) => Len(buffer) < Len(sent[Len(pushed) + 1])

-----------------------------------------------------------------------------
(* The members of a sequence put together, and of one cut in two.          *)
LEMMA Joined ==
  ASSUME NEW S, NEW a \in Seq(S), NEW b \in Seq(S)
  PROVE  /\ a \o b \in Seq(S) /\ Len(a \o b) = Len(a) + Len(b)
         /\ \A k \in 1..Len(a) : (a \o b)[k] = a[k]
         /\ \A k \in 1..Len(b) : (a \o b)[Len(a) + k] = b[k]
<1>1. Len(a) \in Nat /\ Len(b) \in Nat
  BY LenProperties
<1>2. /\ a \o b \in Seq(S) /\ Len(a \o b) = Len(a) + Len(b)
      /\ \A i \in 1..(Len(a) + Len(b)) :
           (a \o b)[i] = IF i <= Len(a) THEN a[i] ELSE b[i - Len(a)]
  BY ConcatProperties
<1>3. \A k \in 1..Len(a) : k \in 1..(Len(a) + Len(b)) /\ k <= Len(a)
  BY <1>1
<1>4. \A k \in 1..Len(b) : /\ Len(a) + k \in 1..(Len(a) + Len(b))
                           /\ ~(Len(a) + k <= Len(a)) /\ (Len(a) + k) - Len(a) = k
  BY <1>1
<1>5. \A k \in 1..Len(a) : (a \o b)[k] = a[k]
  BY <1>2, <1>3
<1>6. \A k \in 1..Len(b) : (a \o b)[Len(a) + k] = b[k]
  <2>. TAKE k \in 1..Len(b)
  <2> DEFINE i == Len(a) + k
  <2>1. i \in 1..(Len(a) + Len(b)) /\ ~(i <= Len(a)) /\ i - Len(a) = k
    BY <1>4
  <2> HIDE DEF i
  <2>2. (a \o b)[i] = b[k]
    BY <1>2, <2>1
  <2>. QED
    BY <2>2 DEF i
<1> QED
  BY <1>2, <1>5, <1>6

LEMMA SameMembers ==
  ASSUME NEW S, NEW a \in Seq(S), NEW b \in Seq(S), Len(a) = Len(b),
         \A k \in 1..Len(a) : a[k] = b[k]
  PROVE  a = b
<1>1. a \in [1..Len(a) -> S] /\ b \in [1..Len(b) -> S]
  BY LenProperties
<1>2. b \in [1..Len(a) -> S]
  BY <1>1
<1> QED
  BY <1>1, <1>2

LEMMA CutInTwo ==
  ASSUME NEW S, NEW a \in Seq(S), NEW n \in 0..Len(a)
  PROVE  /\ SubSeq(a, 1, n) \in Seq(S) /\ Len(SubSeq(a, 1, n)) = n
         /\ \A k \in 1..n : SubSeq(a, 1, n)[k] = a[k]
         /\ SubSeq(a, n + 1, Len(a)) \in Seq(S)
         /\ Len(SubSeq(a, n + 1, Len(a))) = Len(a) - n
         /\ \A k \in 1..(Len(a) - n) : SubSeq(a, n + 1, Len(a))[k] = a[n + k]
<1>1. Len(a) \in Nat /\ n \in Nat /\ n <= Len(a)
  BY LenProperties
<1>2. \A i \in 1..Len(a) : a[i] \in S
  BY ElementOfSeq
<1>3. \A i \in 1..n : a[i] \in S
  BY <1>1, <1>2
<1>4. /\ SubSeq(a, 1, n) \in Seq(S)
      /\ Len(SubSeq(a, 1, n)) = (IF 1 <= n THEN n - 1 + 1 ELSE 0)
      /\ \A k \in 1..(n - 1 + 1) : SubSeq(a, 1, n)[k] = a[1 + k - 1]
  BY <1>1, <1>3, SubSeqProperties
<1>5. \A k \in 1..n : k \in 1..(n - 1 + 1) /\ 1 + k - 1 = k
  BY <1>1
<1>6. \A k \in 1..n : SubSeq(a, 1, n)[k] = a[k]
  BY <1>4, <1>5
<1>7. Len(SubSeq(a, 1, n)) = n
  BY <1>1, <1>4
<1> DEFINE m == n + 1
           l == Len(a)
<1>8. m \in Int /\ l \in Int /\ \A i \in m..l : i \in 1..Len(a)
  BY <1>1
<1>9. \A i \in m..l : a[i] \in S
  BY <1>2, <1>8
<1> HIDE DEF m, l
<1>10. /\ SubSeq(a, m, l) \in Seq(S)
       /\ Len(SubSeq(a, m, l)) = (IF m <= l THEN l - m + 1 ELSE 0)
       /\ \A k \in 1..(l - m + 1) : SubSeq(a, m, l)[k] = a[m + k - 1]
  BY <1>8, <1>9, SubSeqProperties
<1>11. Len(SubSeq(a, m, l)) = l - n
  BY <1>1, <1>10 DEF m, l
<1>12. \A k \in 1..(l - n) : k \in 1..(l - m + 1) /\ m + k - 1 = n + k
  BY <1>1 DEF m, l
<1>13. \A k \in 1..(l - n) : SubSeq(a, m, l)[k] = a[n + k]
  BY <1>10, <1>12
<1> QED
  BY <1>4, <1>6, <1>7, <1>10, <1>11, <1>13 DEF m, l

(* A message is as long as its length field says, if that does not carry.  *)
LEMMA MessageFacts ==
  ASSUME NEW d \in Payloads
  PROVE  /\ Message(d) \in Seq(Byte)
         /\ Len(Message(d)) = Len(d) + Overhead
         /\ Message(d)[1] = Preamble
         /\ Message(d)[2] = Len(d) \div Base
         /\ Message(d)[3] = Len(d) % Base
         /\ Len(d) \in Nat /\ Len(d) \div Base \in 0..3 /\ Len(d) % Base \in Byte
         /\ Len(d) = ((Len(d) \div Base) * Base) + (Len(d) % Base)
<1>1. Base \in Nat /\ Base > 6 /\ Preamble \in Byte /\ d \in Seq(Byte) /\ Len(d) < 4 * Base
  BY RtcmAssumption DEF RtcmAssumption, Overhead
<1>2. Len(d) \in Nat
  BY <1>1, LenProperties
<1> DEFINE n == Len(d)
<1>3. \A m \in Nat : m < 4 * Base =>
        /\ m \div Base \in 0..3 /\ m % Base \in 0..(Base - 1)
        /\ m = ((m \div Base) * Base) + (m % Base)
  BY <1>1
<1>4. /\ n \div Base \in 0..3 /\ n % Base \in Byte
      /\ n = ((n \div Base) * Base) + (n % Base)
  BY <1>1, <1>2, <1>3 DEF Byte
<1>5. n \div Base \in Byte
  BY <1>1, <1>4 DEF Byte
<1> DEFINE hdr == <<Preamble, n \div Base, n % Base>>
           crc == <<0, 0, 0>>
<1>6. hdr \in Seq(Byte) /\ Len(hdr) = 3 /\ hdr[1] = Preamble /\ hdr[2] = n \div Base /\ hdr[3] = n % Base
  BY <1>1, <1>4, <1>5
<1>7. crc \in Seq(Byte) /\ Len(crc) = 3
  BY <1>1 DEF Byte
<1>8. Message(d) = (hdr \o d) \o crc
  BY DEF Message
<1> HIDE DEF hdr, crc
<1>9. /\ hdr \o d \in Seq(Byte) /\ Len(hdr \o d) = n + 3
      /\ \A k \in 1..3 : (hdr \o d)[k] = hdr[k]
  <2>1. /\ hdr \o d \in Seq(Byte) /\ Len(hdr \o d) = Len(hdr) + Len(d)
        /\ \A k \in 1..Len(hdr) : (hdr \o d)[k] = hdr[k]
    BY <1>1, <1>6, Joined, ZenonT(60)
  <2>. QED
    BY <1>2, <1>6, <2>1
<1>10. /\ Message(d) \in Seq(Byte) /\ Len(Message(d)) = n + 6
       /\ \A k \in 1..3 : Message(d)[k] = hdr[k]
  <2> DEFINE e == hdr \o d
  <2>1. e \in Seq(Byte) /\ Len(e) = n + 3 /\ \A k \in 1..3 : e[k] = hdr[k]
    BY <1>9
  <2> HIDE DEF e
  <2>5. /\ e \o crc \in Seq(Byte) /\ Len(e \o crc) = Len(e) + Len(crc)
        /\ \A k \in 1..Len(e) : (e \o crc)[k] = e[k]
    <3>1. e \in Seq(Byte) /\ crc \in Seq(Byte)
      BY <1>7, <2>1
    <3>. QED
      BY <3>1, Joined
  <2>2. Len(e \o crc) = n + 6
    BY <1>2, <1>7, <2>1, <2>5
  <2>3. \A k \in 1..3 : k \in 1..Len(e)
    BY <1>2, <2>1
  <2>4. \A k \in 1..3 : (e \o crc)[k] = hdr[k]
    BY <2>1, <2>5, <2>3
  <2>. QED
    BY <1>8, <2>2, <2>5, <2>4 DEF e
<1> QED
  BY <1>2, <1>4, <1>6, <1>10 DEF Overhead

LEMMA LengthRight ==
  ASSUME NoCarry, NEW d \in Payloads, NEW b,
         b[2] = Message(d)[2], b[3] = Message(d)[3]
  PROVE  Length(b) = Len(Message(d))
<1> DEFINE hi == Len(d) \div Base
           low == Len(d) % Base
<1>1. /\ b[2] = hi /\ b[3] = low
      /\ Len(Message(d)) = Len(d) + 6
      /\ hi \in 0..3 /\ low \in 0..(Base - 1) /\ Len(d) = hi * Base + low /\ Len(d) \in Nat
  BY MessageFacts DEF Byte, Overhead
<1>2. low + 6 < Base \/ hi % 2 = 0
  BY DEF NoCarry, Overhead
<1>3. Base \in Nat
  BY RtcmAssumption DEF RtcmAssumption
<1> HIDE DEF hi, low
<1>4. hi % 4 = hi
  BY <1>1
<1>5. Length(b) = Combine(hi, low + 6)
  BY <1>1, <1>4 DEF Length, Overhead
<1>6. hi % 2 = 1 => low + 6 < Base
  BY <1>2
<1>7. Combine(hi, low + 6) = hi * Base + (low + 6)
  BY <1>6 DEF Combine
<1>8. hi * Base \in Nat
  BY <1>1, <1>3
<1> QED
  BY <1>1, <1>5, <1>7, <1>8, <1>3

-----------------------------------------------------------------------------
LEMMA CutEnd ==
  ASSUME NEW b \in Seq(Byte), NEW s \in Seq(Messages), Cut(b, s, Len(s))
  PROVE  b = <<>>
<1>1. Len(b) = 0
  BY DEF Cut
<1> QED
  BY <1>1, EmptySeq

LEMMA Behind ==
  ASSUME NEW u \in Int, NEW n \in Nat, NEW x \in Nat, NEW y \in Nat, NEW k \in 1..x,
         u >= n, u + x <= y
  PROVE  (u - n) + k \in 1..(y - n) /\ n + ((u - n) + k) = u + k
OBVIOUS

(* The first message is at the head, and without it the others remain. *)
LEMMA CutFirst ==
  ASSUME NEW b \in Seq(Byte), NEW s \in Seq(Messages), NEW p \in Nat, p < Len(s),
         Cut(b, s, p), NEW n \in Nat, n = Len(s[p + 1])
  PROVE  /\ n <= Len(b)
         /\ \A k \in 1..n : b[k] = s[p + 1][k]
         /\ Cut(SubSeq(b, n + 1, Len(b)), s, p + 1)
<1>1. PICK at \in [p..Len(s) -> 0..Len(b)] :
        /\ at[p] = 0 /\ at[Len(s)] = Len(b)
        /\ \A i, j \in p..Len(s) : i <= j => at[i] <= at[j]
        /\ \A i \in (p + 1)..Len(s) :
             /\ at[i] = at[i - 1] + Len(s[i])
             /\ \A k \in 1..Len(s[i]) : b[at[i - 1] + k] = s[i][k]
  BY DEF Cut
<1> DEFINE q == p + 1
           l == Len(s)
           c == SubSeq(b, n + 1, Len(b))
<1>2. l \in Nat /\ Len(b) \in Nat
  BY LenProperties
<1>3. q \in Nat /\ q = p + 1 /\ q - 1 = p /\ q <= l
  BY <1>2
<1>4. s[p + 1] = s[q] /\ n = Len(s[q])
  OBVIOUS
<1> HIDE DEF q, l
<1>5. /\ at \in [p..l -> 0..Len(b)] /\ at[p] = 0 /\ at[l] = Len(b)
      /\ \A i, j \in p..l : i <= j => at[i] <= at[j]
      /\ \A i \in q..l : /\ at[i] = at[i - 1] + Len(s[i])
                        /\ \A k \in 1..Len(s[i]) : b[at[i - 1] + k] = s[i][k]
  BY <1>1 DEF q, l
<1>6. q \in q..l /\ q \in p..l /\ l \in p..l
  BY <1>2, <1>3
<1>7. at[q] = at[q - 1] + Len(s[q]) /\ \A k \in 1..Len(s[q]) : b[at[q - 1] + k] = s[q][k]
  BY <1>5, <1>6
<1>8. at[q] = n
  BY <1>3, <1>4, <1>5, <1>7
<1>9. n <= Len(b)
  <2>1. at[q] \in 0..Len(b)
    BY <1>5, <1>6
  <2>. QED
    BY <1>2, <1>8, <2>1
<1>10. \A k \in 1..n : b[k] = s[q][k]
  <2>1. \A k \in 1..n : b[0 + k] = s[q][k]
    BY <1>3, <1>4, <1>5, <1>7
  <2>2. \A k \in 1..n : 0 + k = k
    OBVIOUS
  <2>. QED
    BY <2>1, <2>2
<1>11. /\ c \in Seq(Byte) /\ Len(c) = Len(b) - n
       /\ \A k \in 1..(Len(b) - n) : c[k] = b[n + k]
  <2>1. n \in 0..Len(b)
    BY <1>2, <1>9
  <2>. QED
    BY <2>1, CutInTwo
<1> HIDE DEF c
<1> DEFINE to == [i \in q..l |-> at[i] - n]
<1>12. ASSUME NEW i \in q..l
       PROVE  at[i] \in 0..Len(b) /\ at[i] >= n /\ i \in p..l /\ to[i] = at[i] - n
  <2>1. i \in p..l /\ q <= i
    BY <1>2, <1>3
  <2>2. at[q] <= at[i]
    BY <1>5, <1>6, <2>1
  <2>3. at[i] \in 0..Len(b)
    BY <1>5, <2>1
  <2>4. to[i] = at[i] - n
    OBVIOUS
  <2>5. at[i] >= n
    BY <1>8, <2>2, <2>3
  <2>. QED
    BY <2>1, <2>3, <2>4, <2>5
<1>13. to \in [q..l -> 0..Len(c)]
  <2>1. ASSUME NEW i \in q..l
        PROVE  at[i] - n \in 0..Len(c)
    BY <1>2, <1>11, <1>12, SMTT(40)
  <2>. QED
    BY <2>1
<1>14. to[q] = 0 /\ to[l] = Len(c)
  <2>1. l \in q..l
    BY <1>2, <1>3
  <2>2. to[q] = at[q] - n /\ to[l] = at[l] - n
    BY <1>6, <1>12, <2>1
  <2> HIDE DEF to
  <2>. QED
    BY <1>2, <1>5, <1>8, <1>11, <2>2
<1>15. \A i, j \in q..l : i <= j => to[i] <= to[j]
  <2>. TAKE i, j \in q..l
  <2>1. at[i] \in 0..Len(b) /\ at[j] \in 0..Len(b) /\ i \in p..l /\ j \in p..l
        /\ to[i] = at[i] - n /\ to[j] = at[j] - n
    BY <1>12
  <2>2. i <= j => at[i] <= at[j]
    BY <1>5, <2>1
  <2>. QED
    BY <1>2, <2>1, <2>2
<1>16. ASSUME NEW i \in (q + 1)..l
       PROVE  /\ to[i] = to[i - 1] + Len(s[i])
              /\ \A k \in 1..Len(s[i]) : c[to[i - 1] + k] = s[i][k]
  <2> DEFINE h == i - 1
             u == at[h]
  <2>1. i \in q..l /\ h \in q..l
    BY <1>2, <1>3
  <2> HIDE DEF h
  <2>2. at[i] = u + Len(s[i]) /\ \A k \in 1..Len(s[i]) : b[u + k] = s[i][k]
    BY <1>5, <2>1 DEF h
  <2>3. u \in 0..Len(b) /\ u >= n /\ to[h] = u - n /\ at[i] \in 0..Len(b) /\ to[i] = at[i] - n
    BY <1>12, <2>1
  <2>4. Len(s[i]) \in Nat
    <3>1. i \in 1..l
      BY <1>2, <1>3, <2>1
    <3>2. s[i] \in Messages
      BY <3>1, ElementOfSeq DEF l
    <3>. QED
      BY <3>2, MessageFacts, LenProperties DEF Messages
  <2> HIDE DEF u, to
  <2>5. to[i] = to[h] + Len(s[i])
    BY <1>2, <2>2, <2>3, <2>4
  <2>6. ASSUME NEW k \in 1..Len(s[i])
        PROVE  c[to[h] + k] = s[i][k]
    <3> DEFINE x == to[h] + k
    <3>1. x \in 1..(Len(b) - n) /\ n + x = u + k
      <4> DEFINE l1 == Len(s[i])
                 l2 == Len(b)
      <4>1. l1 \in Nat /\ l2 \in Nat /\ k \in 1..l1 /\ n \in Nat
        BY <1>2, <2>4
      <4>2. u \in Int /\ u >= n /\ to[h] = u - n
        BY <1>2, <2>3
      <4>3. at[i] = u + l1 /\ at[i] <= l2
        BY <1>2, <2>2, <2>3
      <4> HIDE DEF l1, l2
      <4>4. u + l1 <= l2
        BY <4>3
      <4>5. (u - n) + k \in 1..(l2 - n) /\ n + ((u - n) + k) = u + k
        BY <4>1, <4>2, <4>4, Behind
      <4>. QED
        BY <4>2, <4>5 DEF l2
    <3> HIDE DEF x
    <3>2. c[x] = b[u + k]
      BY <1>11, <3>1
    <3>. QED
      BY <2>2, <3>2 DEF x
  <2>. QED
    BY <2>5, <2>6 DEF h
<1>17. Cut(c, s, q)
  <2> HIDE DEF to
  <2>. QED
    BY <1>13, <1>14, <1>15, <1>16 DEF Cut, l
<1> QED
  BY <1>9, <1>10, <1>17 DEF q, c

(* A message joins behind the others. *)
LEMMA CutGrow ==
  ASSUME NEW b \in Seq(Byte), NEW s \in Seq(Messages), NEW p \in Nat, p <= Len(s),
         Cut(b, s, p), NEW d \in Payloads
  PROVE  Cut(b \o Message(d), s \o <<Message(d)>>, p)
<1> DEFINE m == Message(d)
           l == Len(s) + 1
           c == b \o m
           t == s \o <<m>>
<1>1. PICK at \in [p..Len(s) -> 0..Len(b)] :
        /\ at[p] = 0 /\ at[Len(s)] = Len(b)
        /\ \A i, j \in p..Len(s) : i <= j => at[i] <= at[j]
        /\ \A i \in (p + 1)..Len(s) :
             /\ at[i] = at[i - 1] + Len(s[i])
             /\ \A k \in 1..Len(s[i]) : b[at[i - 1] + k] = s[i][k]
  BY DEF Cut
<1>2. Len(s) \in Nat /\ Len(b) \in Nat /\ m \in Seq(Byte) /\ Len(m) \in Nat
  BY LenProperties, MessageFacts
<1>3. /\ c \in Seq(Byte) /\ Len(c) = Len(b) + Len(m)
      /\ \A k \in 1..Len(b) : c[k] = b[k]
      /\ \A k \in 1..Len(m) : c[Len(b) + k] = m[k]
  BY <1>2, Joined
<1>4. /\ Len(t) = l /\ t[l] = m
      /\ \A i \in 1..Len(s) : t[i] = s[i]
  <2>1. t = Append(s, m)
    BY <1>2, AppendIsConcat
  <2>2. m \in Messages
    BY DEF Messages
  <2>. QED
    BY <1>2, <2>1, <2>2, AppendProperties
<1> DEFINE to == [i \in p..l |-> IF i = l THEN Len(c) ELSE at[i]]
<1> HIDE DEF m, c, t
<1>5. /\ \A i \in p..Len(s) : i # l /\ i \in p..l /\ to[i] = at[i]
      /\ to[l] = Len(c)
  BY <1>2
<1>6. \A i \in p..Len(s) : at[i] \in 0..Len(b)
  BY <1>1
<1>7. to \in [p..l -> 0..Len(c)]
  BY <1>2, <1>3, <1>6
<1>8. to[p] = 0 /\ to[l] = Len(c)
  BY <1>1, <1>2, <1>5
<1>9. \A i, j \in p..l : i <= j => to[i] <= to[j]
  <2>1. \A i \in p..l : to[i] <= Len(c) /\ to[i] \in Int
    BY <1>2, <1>3, <1>7
  <2>2. \A i \in p..l : i \in p..Len(s) \/ i = l
    BY <1>2
  <2>3. \A i, j \in p..l : i <= j /\ j # l => i \in p..Len(s) /\ j \in p..Len(s)
    BY <1>2
  <2>4. \A i, j \in p..l : i <= j /\ j # l => to[i] <= to[j]
    BY <1>1, <1>5, <2>3
  <2>5. \A i \in p..l : to[i] <= to[l]
    BY <1>8, <2>1
  <2>. QED
    BY <2>4, <2>5
<1>10. ASSUME NEW i \in (p + 1)..l
       PROVE  /\ to[i] = to[i - 1] + Len(t[i])
              /\ \A k \in 1..Len(t[i]) : c[to[i - 1] + k] = t[i][k]
  <2>1. i - 1 \in p..Len(s) /\ to[i - 1] = at[i - 1]
    BY <1>2, <1>5
  <2>2. CASE i = l
    <3>1. i - 1 = Len(s) /\ to[i - 1] = Len(b) /\ t[i] = m /\ to[i] = Len(c)
      BY <1>1, <1>2, <1>4, <1>8, <2>1, <2>2
    <3>. QED
      BY <1>3, <3>1
  <2>3. CASE i # l
    <3>1. i \in (p + 1)..Len(s) /\ i \in p..Len(s) /\ i \in 1..Len(s)
      BY <1>2, <2>3
    <3>2. t[i] = s[i] /\ to[i] = at[i] /\ at[i] = at[i - 1] + Len(s[i])
      BY <1>1, <1>4, <1>5, <3>1
    <3>3. ASSUME NEW k \in 1..Len(s[i])
          PROVE  c[at[i - 1] + k] = s[i][k]
      <4>1. b[at[i - 1] + k] = s[i][k]
        BY <1>1, <3>1
      <4>2. at[i - 1] \in 0..Len(b) /\ at[i] \in 0..Len(b)
        BY <1>6, <2>1, <3>1
      <4>3. s[i] \in Messages
        BY <3>1, ElementOfSeq
      <4>4. Len(s[i]) \in Nat
        BY <4>3, MessageFacts, LenProperties DEF Messages
      <4>5. at[i - 1] + k \in 1..Len(b)
        BY <1>2, <3>2, <4>2, <4>4, SMTT(40)
      <4>. QED
        BY <1>3, <4>1, <4>5
    <3>. QED
      BY <2>1, <3>2, <3>3
  <2>. QED
    BY <2>2, <2>3
<1>11. Cut(c, t, p)
  <2>1. l = Len(t)
    BY <1>4
  <2> HIDE DEF to, l
  <2>. QED
    BY <2>1, <1>7, <1>8, <1>9, <1>10 DEF Cut
<1> QED
  BY <1>11 DEF c, t, m

-----------------------------------------------------------------------------
(* What is in the buffer of a message begun is its first bytes. *)
LEMMA Begun ==
  ASSUME RtcmInv, Len(pushed) < Len(sent)
  PROVE  \E d \in Payloads :
           /\ sent[Len(pushed) + 1] = Message(d)
           /\ Len(Message(d)) <= Len(buffer) + Len(unsent)
           /\ \A k \in 1..Len(Message(d)) : k <= Len(buffer) => buffer[k] = Message(d)[k]
           /\ Cut(SubSeq(buffer \o unsent, Len(Message(d)) + 1, Len(buffer \o unsent)),
                  sent, Len(pushed) + 1)
<1> DEFINE p == Len(pushed)
           b == buffer \o unsent
<1>1. /\ unsent \in Seq(Byte) /\ buffer \in Seq(Byte)
      /\ sent \in Seq(Messages) /\ pushed \in Seq(Messages) /\ Cut(b, sent, p)
  BY DEF RtcmInv
<1>2. p \in Nat /\ Len(sent) \in Nat /\ Len(buffer) \in Nat
  BY <1>1, LenProperties
<1>3. p + 1 \in 1..Len(sent)
  BY <1>2
<1>4. sent[p + 1] \in Messages
  BY <1>1, <1>3, ElementOfSeq
<1>5. PICK d \in Payloads : sent[p + 1] = Message(d)
  BY <1>4 DEF Messages
<1>6. b \in Seq(Byte) /\ Len(b) = Len(buffer) + Len(unsent)
      /\ \A k \in 1..Len(buffer) : b[k] = buffer[k]
  BY <1>1, Joined
<1> DEFINE n == Len(Message(d))
<1>7. n \in Nat
  BY MessageFacts, LenProperties
<1>8. p < Len(sent) /\ n = Len(sent[p + 1])
  BY <1>5
<1> HIDE DEF b, p, n
<1>9. /\ n <= Len(b)
      /\ \A k \in 1..n : b[k] = sent[p + 1][k]
      /\ Cut(SubSeq(b, n + 1, Len(b)), sent, p + 1)
  <2>1. b \in Seq(Byte) /\ sent \in Seq(Messages) /\ Cut(b, sent, p) /\ p < Len(sent)
    BY <1>1, <1>6, <1>8
  <2>2. p \in Nat /\ n \in Nat /\ n = Len(sent[p + 1])
    BY <1>2, <1>7, <1>8
  <2>. QED
    BY <2>1, <2>2, CutFirst
<1>10. \A k \in 1..n : k <= Len(buffer) => k \in 1..Len(buffer)
  BY <1>2, <1>7
<1>11. \A k \in 1..n : k <= Len(buffer) => buffer[k] = Message(d)[k]
  BY <1>5, <1>6, <1>9, <1>10 DEF p
<1> QED
  BY <1>5, <1>6, <1>9, <1>11 DEF n, b, p

(* With nothing left to push there is nothing left. *)
LEMMA NothingBegun ==
  ASSUME RtcmInv, Len(pushed) = Len(sent)
  PROVE  buffer = <<>>
<1>1. unsent \in Seq(Byte) /\ buffer \in Seq(Byte) /\ sent \in Seq(Messages)
  BY DEF RtcmInv
<1>2. Cut(buffer \o unsent, sent, Len(sent))
  BY DEF RtcmInv
<1>3. buffer \o unsent \in Seq(Byte) /\ Len(buffer \o unsent) = Len(buffer) + Len(unsent)
  BY <1>1, Joined
<1>4. buffer \o unsent = <<>>
  BY <1>1, <1>2, <1>3, CutEnd
<1>5. Len(buffer) + Len(unsent) = 0
  BY <1>3, <1>4
<1>6. Len(buffer) \in Nat /\ Len(unsent) \in Nat
  BY <1>1, LenProperties
<1>7. Len(buffer) = 0
  BY <1>5, <1>6
<1> QED
  BY <1>1, <1>7, EmptySeq

(* The buffer holds a preamble unless it is empty. *)
LEMMA SyncKept ==
  ASSUME RtcmInv, buffer # <<>>
  PROVE  Len(pushed) < Len(sent) /\ InSync(buffer)
<1>1. /\ buffer \in Seq(Byte) /\ sent \in Seq(Messages) /\ pushed \in Seq(Messages)
      /\ Len(pushed) <= Len(sent)
  BY DEF RtcmInv
<1>2. Len(pushed) # Len(sent)
  BY NothingBegun
<1>3. Len(pushed) \in Nat /\ Len(sent) \in Nat
  BY <1>1, LenProperties
<1>4. Len(pushed) < Len(sent)
  BY <1>1, <1>2, <1>3
<1>5. PICK d \in Payloads :
        \A k \in 1..Len(Message(d)) : k <= Len(buffer) => buffer[k] = Message(d)[k]
  BY <1>4, Begun
<1>6. Len(buffer) \in Nat \ {0}
  BY <1>1, EmptySeq
<1>7. Len(Message(d)) = Len(d) + 6 /\ Len(d) \in Nat /\ Message(d)[1] = Preamble
  BY MessageFacts DEF Overhead
<1>8. 1 \in 1..Len(Message(d)) /\ 1 <= Len(buffer)
  BY <1>6, <1>7
<1>9. buffer[1] = Preamble
  BY <1>5, <1>7, <1>8
<1> QED
  BY <1>4, <1>9 DEF InSync

(* The length read is the message's, as soon as it is there. *)
LEMMA LengthRead ==
  ASSUME NoCarry, RtcmInv, Len(buffer) >= Overhead
  PROVE  Len(pushed) < Len(sent) /\ Length(buffer) = Len(sent[Len(pushed) + 1])
<1>1. buffer # <<>> /\ Len(buffer) \in Nat
  BY EmptySeq, LenProperties DEF RtcmInv, Overhead
<1>2. Len(pushed) < Len(sent)
  BY <1>1, SyncKept
<1>3. PICK d \in Payloads :
        /\ sent[Len(pushed) + 1] = Message(d)
        /\ \A k \in 1..Len(Message(d)) : k <= Len(buffer) => buffer[k] = Message(d)[k]
  BY <1>2, Begun
<1>4. Len(Message(d)) = Len(d) + 6 /\ Len(d) \in Nat
  BY MessageFacts DEF Overhead
<1>5. 2 \in 1..Len(Message(d)) /\ 3 \in 1..Len(Message(d)) /\ 2 <= Len(buffer) /\ 3 <= Len(buffer)
  BY <1>1, <1>4 DEF Overhead
<1>6. buffer[2] = Message(d)[2] /\ buffer[3] = Message(d)[3]
  BY <1>3, <1>5
<1> QED
  BY <1>2, <1>3, <1>6, LengthRight

-----------------------------------------------------------------------------
LEMMA InitRtcm ==
  ASSUME Init
  PROVE  RtcmInv
<1>1. /\ unsent = <<>> /\ buffer = <<>> /\ sent = <<>> /\ pushed = <<>> /\ left = MaxMessages
      /\ split \in BOOLEAN /\ cutting = FALSE
  BY DEF Init
<1>2. \A S : <<>> \in Seq(S) /\ Len(<<>>) = 0
  BY EmptySeq
<1>3. <<>> \o <<>> = <<>>
  BY <1>2, ConcatEmptySeq
<1>4. SubSeq(<<>>, 1, 0) = <<>>
  BY SubSeqEmpty
<1>5. Cut(<<>>, <<>>, 0)
  <2> DEFINE at == [i \in 0..0 |-> 0]
  <2>1. at \in [0..0 -> 0..0] /\ at[0] = 0
    OBVIOUS
  <2>2. \A i, j \in 0..0 : i <= j => at[i] <= at[j]
    OBVIOUS
  <2>3. (0 + 1)..0 = {}
    OBVIOUS
  <2> HIDE DEF at
  <2>. QED
    BY <1>2, <2>1, <2>2, <2>3 DEF Cut
<1>6. MaxMessages \in Nat
  BY RtcmAssumption DEF RtcmAssumption
<1> QED
  <2>1. /\ unsent \in Seq(Byte) /\ buffer \in Seq(Byte) /\ sent \in Seq(Messages)
        /\ pushed \in Seq(Messages) /\ left \in Nat
    BY <1>1, <1>2, <1>6
  <2>2. Len(pushed) = 0 /\ Len(sent) = 0
    BY <1>1, <1>2
  <2>3. pushed = SubSeq(sent, 1, Len(pushed))
    BY <1>1, <1>4, <2>2
  <2>4. Cut(buffer \o unsent, sent, Len(pushed))
    BY <1>1, <1>3, <1>5, <2>2
  <2>5. Len(pushed) <= Len(sent) /\ ~(Len(pushed) < Len(sent))
    BY <2>2
  <2>6. split \in BOOLEAN /\ cutting \in BOOLEAN
    BY <1>1
  <2>. QED
    BY <2>1, <2>3, <2>4, <2>5, <2>6 DEF RtcmInv

(* A data frame moves bytes from the sender to the buffer. *)
LEMMA CarryKeeps ==
  ASSUME RtcmInv, NEW msgs \in Started, NEW n, Carry(msgs, n)
  PROVE  RtcmInv'
<1> DEFINE stream == IF msgs = <<>> THEN unsent ELSE unsent \o msgs[1]
           p == Len(pushed)
<1>1. /\ split \in BOOLEAN /\ unsent \in Seq(Byte) /\ buffer \in Seq(Byte) /\ left \in Nat
      /\ sent \in Seq(Messages) /\ pushed \in Seq(Messages) /\ p <= Len(sent)
      /\ pushed = SubSeq(sent, 1, p) /\ Cut(buffer \o unsent, sent, p)
  BY DEF RtcmInv
<1>2. /\ Len(msgs) <= left /\ n \in 1..Len(stream) /\ left' = left - Len(msgs)
      /\ sent' = sent \o msgs /\ unsent' = SubSeq(stream, n + 1, Len(stream))
      /\ buffer' = buffer \o SubSeq(stream, 1, n) /\ cutting' = TRUE
      /\ split' = split /\ pushed' = pushed
  BY DEF Carry, DataFrameInput
<1>3. p \in Nat /\ Len(sent) \in Nat /\ Len(buffer) \in Nat
  BY <1>1, LenProperties
<1>4. /\ stream \in Seq(Byte) /\ Len(msgs) \in Nat /\ sent' \in Seq(Messages)
      /\ Len(sent) <= Len(sent') /\ \A i \in 1..Len(sent) : sent'[i] = sent[i]
      /\ Cut(buffer \o stream, sent', p)
  <2>1. CASE msgs = <<>>
    <3>1. stream = unsent /\ sent' = sent /\ Len(msgs) = 0
      BY <1>1, <1>2, <2>1, ConcatEmptySeq, EmptySeq
    <3>. QED
      BY <1>1, <1>3, <3>1
  <2>2. ASSUME NEW d \in Payloads, msgs = <<Message(d)>>
        PROVE  /\ stream \in Seq(Byte) /\ Len(msgs) \in Nat /\ sent' \in Seq(Messages)
               /\ Len(sent) <= Len(sent') /\ \A i \in 1..Len(sent) : sent'[i] = sent[i]
               /\ Cut(buffer \o stream, sent', p)
    <3> DEFINE m == Message(d)
    <3>1. m \in Seq(Byte) /\ m \in Messages
      BY MessageFacts DEF Messages
    <3>2. msgs # <<>> /\ msgs[1] = m /\ Len(msgs) = 1 /\ msgs \in Seq(Messages)
      BY <2>2, <3>1
    <3>3. stream = unsent \o m
      BY <3>2
    <3> HIDE DEF stream, m
    <3>4. unsent \o m \in Seq(Byte)
      BY <1>1, <3>1, Joined
    <3>5. /\ sent \o msgs \in Seq(Messages) /\ Len(sent \o msgs) = Len(sent) + Len(msgs)
          /\ \A i \in 1..Len(sent) : (sent \o msgs)[i] = sent[i]
      BY <1>1, <3>2, Joined
    <3>6. buffer \o unsent \in Seq(Byte)
      BY <1>1, Joined
    <3>7. Cut((buffer \o unsent) \o m, sent \o <<m>>, p)
      BY <1>1, <1>3, <3>6, CutGrow DEF m
    <3>8. (buffer \o unsent) \o m = buffer \o (unsent \o m)
      BY <1>1, <3>1, ConcatAssociative, SMTT(40)
    <3>9. Cut(buffer \o stream, sent', p)
      BY <1>2, <2>2, <3>3, <3>7, <3>8 DEF m
    <3>. QED
      BY <1>2, <1>3, <3>2, <3>3, <3>4, <3>5, <3>9
  <2>. QED
    BY <2>1, <2>2 DEF Started
<1> HIDE DEF stream, p
<1>5. Len(stream) \in Nat /\ n \in 0..Len(stream)
  <2>1. Len(stream) \in Nat
    BY <1>4, LenProperties
  <2>. QED
    BY <1>2, <2>1
<1> DEFINE x == SubSeq(stream, 1, n)
           y == SubSeq(stream, n + 1, Len(stream))
<1>6. /\ x \in Seq(Byte) /\ Len(x) = n /\ \A k \in 1..n : x[k] = stream[k]
      /\ y \in Seq(Byte) /\ Len(y) = Len(stream) - n
      /\ \A k \in 1..(Len(stream) - n) : y[k] = stream[n + k]
  BY <1>4, <1>5, CutInTwo
<1> HIDE DEF x, y
<1>7. x \o y = stream
  <2>1. x \o y \in Seq(Byte) /\ Len(x \o y) = Len(x) + Len(y)
        /\ \A k \in 1..Len(x) : (x \o y)[k] = x[k]
        /\ \A j \in 1..Len(y) : (x \o y)[Len(x) + j] = y[j]
    <3>1. x \in Seq(Byte) /\ y \in Seq(Byte)
      BY <1>6
    <3>. QED
      BY <3>1, Joined
  <2>2. Len(x \o y) = Len(stream)
    BY <1>5, <1>6, <2>1
  <2>3. ASSUME NEW k \in 1..Len(stream)
        PROVE  (x \o y)[k] = stream[k]
    <3>1. CASE k <= n
      <4>1. k \in 1..n
        BY <1>5, <3>1
      <4>. QED
        BY <1>6, <2>1, <4>1
    <3>2. CASE ~(k <= n)
      <4> DEFINE j == k - n
      <4>1. j \in 1..(Len(stream) - n) /\ k = n + j
        BY <1>5, <3>2
      <4> HIDE DEF j
      <4>2. (x \o y)[n + j] = y[j] /\ y[j] = stream[n + j]
        BY <1>6, <2>1, <4>1, SMTT(40)
      <4>. QED
        BY <4>1, <4>2
    <3>. QED
      BY <3>1, <3>2
  <2>4. stream \in Seq(Byte) /\ x \o y \in Seq(Byte) /\ \A k \in 1..Len(x \o y) : (x \o y)[k] = stream[k]
    BY <1>4, <2>1, <2>2, <2>3
  <2>. QED
    BY <2>2, <2>4, SameMembers
<1>8. buffer' = buffer \o x /\ unsent' = y
  BY <1>2 DEF x, y
<1>9. buffer' \in Seq(Byte) /\ unsent' \in Seq(Byte)
  <2>1. buffer \in Seq(Byte) /\ x \in Seq(Byte) /\ y \in Seq(Byte)
    BY <1>1, <1>6
  <2>2. buffer \o x \in Seq(Byte)
    BY <2>1, Joined
  <2>. QED
    BY <1>8, <2>1, <2>2
<1>10. Cut(buffer' \o unsent', sent', p)
  <2>1. (buffer \o x) \o y = buffer \o (x \o y)
    <3>1. buffer \in Seq(Byte) /\ x \in Seq(Byte) /\ y \in Seq(Byte)
      BY <1>1, <1>6
    <3>. QED
      BY <3>1, ConcatAssociative
  <2>. QED
    BY <1>4, <1>7, <1>8, <2>1
<1>11. SubSeq(sent', 1, p) = pushed
  <2>1. p \in 0..Len(sent) /\ p \in 0..Len(sent')
    <3>1. Len(sent') \in Nat
      BY <1>4, LenProperties
    <3>. QED
      BY <1>1, <1>3, <1>4, <3>1
  <2>2. /\ SubSeq(sent', 1, p) \in Seq(Messages) /\ Len(SubSeq(sent', 1, p)) = p
        /\ \A k \in 1..p : SubSeq(sent', 1, p)[k] = sent'[k]
    BY <1>4, <2>1, CutInTwo
  <2>3. /\ SubSeq(sent, 1, p) \in Seq(Messages) /\ Len(SubSeq(sent, 1, p)) = p
        /\ \A k \in 1..p : SubSeq(sent, 1, p)[k] = sent[k]
    BY <1>1, <2>1, CutInTwo
  <2>4. \A k \in 1..p : k \in 1..Len(sent)
    BY <1>3, <2>1
  <2>5. \A k \in 1..p : SubSeq(sent', 1, p)[k] = SubSeq(sent, 1, p)[k]
    BY <1>4, <2>2, <2>3, <2>4
  <2>6. Len(SubSeq(sent', 1, p)) = Len(SubSeq(sent, 1, p))
    BY <2>2, <2>3
  <2>7. SubSeq(sent', 1, p) = SubSeq(sent, 1, p)
    <3> DEFINE v == SubSeq(sent', 1, p)
               w == SubSeq(sent, 1, p)
    <3>1. v \in Seq(Messages) /\ w \in Seq(Messages) /\ Len(v) = Len(w) /\ \A k \in 1..Len(v) : v[k] = w[k]
      BY <2>2, <2>3, <2>5, <2>6
    <3> HIDE DEF v, w
    <3>2. v = w
      BY <3>1, SameMembers
    <3>. QED
      BY <3>2 DEF v, w
  <2>. QED
    BY <1>1, <2>7
<1>12. left' \in Nat
  BY <1>1, <1>2, <1>4
<1>13. p <= Len(sent')
  <2>1. Len(sent') \in Nat
    BY <1>4, LenProperties
  <2>. QED
    BY <1>1, <1>3, <1>4, <2>1
<1> QED
  BY <1>1, <1>2, <1>4, <1>9, <1>10, <1>11, <1>12, <1>13 DEF RtcmInv, p

(* The first frame is the first message not pushed. *)
LEMMA FirstFrameKeeps ==
  ASSUME NoCarry, RtcmInv, FirstFrame
  PROVE  RtcmInv'
<1> DEFINE p == Len(pushed)
           n == Length(buffer)
           m == sent[p + 1]
<1>1. /\ split \in BOOLEAN /\ unsent \in Seq(Byte) /\ buffer \in Seq(Byte) /\ left \in Nat
      /\ sent \in Seq(Messages) /\ pushed \in Seq(Messages)
      /\ pushed = SubSeq(sent, 1, p)
  BY DEF RtcmInv
<1>2. /\ cutting /\ Len(buffer) >= Overhead /\ Len(buffer) >= n
      /\ pushed' = Append(pushed, SubSeq(buffer, 1, n))
      /\ buffer' = SubSeq(buffer, n + 1, Len(buffer))
      /\ cutting' = cutting /\ split' = split /\ unsent' = unsent /\ left' = left /\ sent' = sent
  BY DEF FirstFrame, Complete, sender
<1>3. p < Len(sent) /\ n = Len(m)
  BY <1>2, LengthRead
<1>4. PICK d \in Payloads :
        /\ m = Message(d)
        /\ \A k \in 1..Len(Message(d)) : k <= Len(buffer) => buffer[k] = Message(d)[k]
        /\ Cut(SubSeq(buffer \o unsent, Len(Message(d)) + 1, Len(buffer \o unsent)), sent, p + 1)
  BY <1>3, Begun
<1>5. m \in Seq(Byte) /\ Len(m) \in Nat /\ m \in Messages
  BY <1>4, MessageFacts, LenProperties DEF Messages
<1>6. p \in Nat /\ Len(sent) \in Nat /\ Len(buffer) \in Nat /\ Len(unsent) \in Nat
  BY <1>1, LenProperties
<1>7. n \in 0..Len(buffer) /\ n \in Nat
  BY <1>2, <1>3, <1>5, <1>6
<1>8. \A k \in 1..n : buffer[k] = m[k]
  <2>1. \A k \in 1..n : k <= Len(buffer)
    BY <1>6, <1>7
  <2>. QED
    BY <1>3, <1>4, <2>1
<1> DEFINE f == SubSeq(buffer, 1, n)
           r == SubSeq(buffer, n + 1, Len(buffer))
           b == buffer \o unsent
           c == SubSeq(b, n + 1, Len(b))
<1>9. Cut(c, sent, p + 1)
  BY <1>3, <1>4
<1> HIDE DEF p, n, m
<1>10. /\ f \in Seq(Byte) /\ Len(f) = n /\ \A k \in 1..n : f[k] = buffer[k]
       /\ r \in Seq(Byte) /\ Len(r) = Len(buffer) - n
       /\ \A k \in 1..(Len(buffer) - n) : r[k] = buffer[n + k]
  BY <1>1, <1>7, CutInTwo
<1>11. /\ b \in Seq(Byte) /\ Len(b) = Len(buffer) + Len(unsent)
       /\ \A k \in 1..Len(buffer) : b[k] = buffer[k]
       /\ \A k \in 1..Len(unsent) : b[Len(buffer) + k] = unsent[k]
  BY <1>1, Joined
<1> HIDE DEF f, r, b
<1>12. /\ c \in Seq(Byte) /\ Len(c) = Len(b) - n
       /\ \A k \in 1..(Len(b) - n) : c[k] = b[n + k]
  <2>1. n \in 0..Len(b)
    BY <1>6, <1>7, <1>11
  <2>. QED
    BY <1>11, <2>1, CutInTwo
<1>13. /\ r \o unsent \in Seq(Byte) /\ Len(r \o unsent) = Len(r) + Len(unsent)
       /\ \A k \in 1..Len(r) : (r \o unsent)[k] = r[k]
       /\ \A k \in 1..Len(unsent) : (r \o unsent)[Len(r) + k] = unsent[k]
  <2>1. r \in Seq(Byte) /\ unsent \in Seq(Byte)
    BY <1>1, <1>10
  <2>. QED
    BY <2>1, Joined
<1> HIDE DEF c
<1>14. f = m
  <2>1. f \in Seq(Byte) /\ m \in Seq(Byte) /\ Len(f) = n /\ Len(m) = n
    BY <1>3, <1>5, <1>10
  <2>2. \A k \in 1..n : f[k] = m[k]
    BY <1>8, <1>10
  <2>3. Len(f) = Len(m) /\ \A k \in 1..Len(f) : f[k] = m[k]
    BY <2>1, <2>2
  <2>. QED
    BY <2>1, <2>3, SameMembers
<1>15. r \o unsent = c
  <2>1. Len(r \o unsent) = Len(c) /\ Len(c) \in Nat
    BY <1>6, <1>7, <1>10, <1>11, <1>12, <1>13
  <2>2. ASSUME NEW k \in 1..Len(c)
        PROVE  (r \o unsent)[k] = c[k]
    <3>1. c[k] = b[n + k]
      BY <1>12
    <3>2. CASE k <= Len(r)
      <4>1. k \in 1..Len(r) /\ k \in 1..(Len(buffer) - n) /\ n + k \in 1..Len(buffer)
        BY <1>6, <1>7, <1>10, <3>2
      <4>2. (r \o unsent)[k] = r[k] /\ r[k] = buffer[n + k]
        BY <1>10, <1>13, <4>1
      <4>3. b[n + k] = buffer[n + k]
        BY <1>11, <4>1
      <4>. QED
        BY <3>1, <4>2, <4>3
    <3>3. CASE ~(k <= Len(r))
      <4> DEFINE j == k - Len(r)
      <4>1. j \in 1..Len(unsent) /\ k = Len(r) + j /\ n + k = Len(buffer) + j
        BY <1>6, <1>7, <1>10, <1>11, <1>12, <2>1, <3>3
      <4> HIDE DEF j
      <4>2. (r \o unsent)[k] = unsent[j] /\ b[n + k] = unsent[j]
        BY <1>11, <1>13, <4>1
      <4>. QED
        BY <3>1, <4>2
    <3>. QED
      BY <3>2, <3>3
  <2> DEFINE e == r \o unsent
  <2>3. e \in Seq(Byte) /\ c \in Seq(Byte) /\ Len(e) = Len(c) /\ \A k \in 1..Len(e) : e[k] = c[k]
    BY <1>12, <1>13, <2>1, <2>2
  <2> HIDE DEF e
  <2>4. e = c
    BY <2>3, SameMembers
  <2>. QED
    BY <2>4 DEF e
<1>16. /\ pushed' \in Seq(Messages) /\ Len(pushed') = p + 1
       /\ \A k \in 1..p : pushed'[k] = pushed[k]
       /\ pushed'[p + 1] = m
  <2>1. pushed' = Append(pushed, m)
    BY <1>2, <1>14 DEF f, n
  <2>. QED
    BY <1>1, <1>5, <2>1, AppendProperties DEF p
<1>17. pushed' = SubSeq(sent, 1, p + 1)
  <2> DEFINE q == p + 1
  <2>1. q \in 0..Len(sent) /\ p \in 0..Len(sent) /\ q \in Nat
    BY <1>3, <1>6
  <2>2. \A k \in 1..q : k \in 1..p \/ k = q
    BY <1>6
  <2>3. pushed' \in Seq(Messages) /\ Len(pushed') = q /\ pushed'[q] = m /\ sent[q] = m
    BY <1>16 DEF m
  <2> HIDE DEF q
  <2>4. /\ SubSeq(sent, 1, p) \in Seq(Messages)
        /\ \A k \in 1..p : SubSeq(sent, 1, p)[k] = sent[k]
    BY <1>1, <2>1, CutInTwo
  <2>5. /\ SubSeq(sent, 1, q) \in Seq(Messages) /\ Len(SubSeq(sent, 1, q)) = q
        /\ \A k \in 1..q : SubSeq(sent, 1, q)[k] = sent[k]
    BY <1>1, <2>1, CutInTwo
  <2>6. \A k \in 1..p : pushed[k] = sent[k]
    BY <1>1, <2>4
  <2>7. \A k \in 1..p : pushed'[k] = sent[k]
    BY <1>16, <2>6
  <2>8. \A k \in 1..q : pushed'[k] = SubSeq(sent, 1, q)[k]
    BY <2>2, <2>3, <2>5, <2>7
  <2> DEFINE v == pushed'
             w == SubSeq(sent, 1, q)
  <2>9. v \in Seq(Messages) /\ w \in Seq(Messages) /\ Len(v) = Len(w) /\ \A k \in 1..Len(v) : v[k] = w[k]
    BY <2>3, <2>5, <2>8
  <2> HIDE DEF v, w
  <2>11. v = w
    BY <2>9, SameMembers
  <2>10. pushed' = SubSeq(sent, 1, q)
    BY <2>11 DEF v, w
  <2>. QED
    BY <2>10 DEF q
<1>18. buffer' = r /\ buffer' \o unsent' = c
  BY <1>2, <1>15 DEF r, n
<1>19. p + 1 <= Len(sent)
  BY <1>3, <1>6
<1> QED
  BY <1>1, <1>2, <1>9, <1>10, <1>16, <1>17, <1>18, <1>19 DEF RtcmInv

LEMMA NextKeepsRtcm ==
  ASSUME NoCarry, RtcmInv, [Next]_vars
  PROVE  RtcmInv'
<1>1. ASSUME NEW msgs \in Started, NEW n, Carry(msgs, n)
      PROVE  RtcmInv'
  BY <1>1, CarryKeeps
<1>2. CASE Lose
  <2>1. left' \in Nat /\ UNCHANGED <<split, unsent, buffer, cutting, sent, pushed>>
    BY <1>2 DEF Lose, RtcmInv
  <2>. QED
    BY <2>1 DEF RtcmInv
<1>3. CASE LostSync
  <2>1. buffer = <<>> /\ buffer' = <<>>
    BY <1>3, SyncKept DEF LostSync
  <2>2. UNCHANGED <<split, unsent, left, sent, pushed>> /\ cutting' = FALSE
    BY <1>3 DEF LostSync, sender
  <2>3. Len(pushed) < Len(sent) => Len(buffer) < Len(sent[Len(pushed) + 1])
    <3>1. SUFFICES ASSUME Len(pushed) < Len(sent)
                   PROVE  Len(buffer) < Len(sent[Len(pushed) + 1])
      OBVIOUS
    <3>2. PICK d \in Payloads : sent[Len(pushed) + 1] = Message(d)
      BY <3>1, Begun
    <3>3. Len(Message(d)) > 0
      BY MessageFacts DEF Overhead
    <3>4. Len(buffer) = 0
      BY <2>1, EmptySeq
    <3>. QED
      BY <3>2, <3>3, <3>4
  <2>. QED
    BY <2>1, <2>2, <2>3 DEF RtcmInv
<1>4. CASE Incomplete
  <2>1. buffer # <<>> /\ ~Complete(buffer)
    BY <1>4 DEF Incomplete, InSync
  <2>2. UNCHANGED <<split, unsent, left, sent, buffer, pushed>> /\ cutting' = FALSE
    BY <1>4 DEF Incomplete, sender
  <2>3. Len(pushed) < Len(sent)
    BY <2>1, SyncKept
  <2>4. PICK d \in Payloads : sent[Len(pushed) + 1] = Message(d)
    BY <2>3, Begun
  <2>5. Len(Message(d)) >= Overhead /\ Len(Message(d)) \in Nat
    BY MessageFacts DEF Overhead
  <2>6. Len(buffer) \in Nat
    BY LenProperties DEF RtcmInv
  <2>7. Len(buffer) < Len(Message(d))
    <3>1. CASE Len(buffer) >= Overhead
      <4>1. Length(buffer) = Len(Message(d))
        BY <2>4, <3>1, LengthRead
      <4>. QED
        BY <2>1, <2>5, <2>6, <3>1, <4>1 DEF Complete
    <3>2. CASE ~(Len(buffer) >= Overhead)
      BY <2>5, <2>6, <3>2 DEF Overhead
    <3>. QED
      BY <3>1, <3>2
  <2>. QED
    BY <2>2, <2>4, <2>7 DEF RtcmInv
<1>5. CASE FirstFrame
  BY <1>5, FirstFrameKeeps
<1>6. CASE UNCHANGED vars
  BY <1>6 DEF vars, RtcmInv
<1> QED
  BY <1>1, <1>2, <1>3, <1>4, <1>5, <1>6 DEF Next

(* If no length carries, every message that arrives whole is pushed whole, *)
(* in order and at once, wherever the stream is cut into data frames.      *)
THEOREM PassedOnWhole ==
  ASSUME NoCarry
  PROVE  Spec => []MessagesPassedOn
<1>1. Init => RtcmInv
  BY InitRtcm
<1>2. RtcmInv /\ [Next]_vars => RtcmInv'
  BY NextKeepsRtcm
<1>3. RtcmInv => MessagesPassedOn
  BY DEF RtcmInv, MessagesPassedOn
<1> QED
  BY <1>1, <1>2, <1>3, PTL DEF Spec
=============================================================================
