------------------------------ MODULE FigDecoder ------------------------------
(***************************************************************************)
(* The constructors of the FIG classes: what each of them reads out of the  *)
(* bytes of a FIG.  Every parseFigData walks over the bytes of its FIG and   *)
(* reads one entry after the other; here an entry is a value, a record with *)
(* a field for each member, and a size, the bytes the iterator has passed.  *)
(* Booleans are 0 and 1.  A member that is left uninitialised has the value *)
(* g, whatever it is; one that has a default in the class has that.         *)
(***************************************************************************)
EXTENDS Integers, Sequences, SequencesExt

(* Bits n, n+1, ..., n+w-1 of the bytes r, a number; bit 0 is the first     *)
(* byte's highest.                                                         *)
Bit(r, n) == (r[1 + (n \div 8)] \div 2^(7 - (n % 8))) % 2
Field(r, n, w) == FoldLeft(LAMBDA v, k : 2 * v + Bit(r, n + k), 0, [k \in 1..w |-> k - 1])

After(r, n) == SubSeq(r, n + 1, Len(r))

(* Items until the bytes are used up: while(figIter < figData.cend()).      *)
Items(r, Item(_)) ==
  LET from[i \in 1 .. Len(r) + 32] ==
        IF i > Len(r) THEN <<>>
        ELSE LET e == Item(After(r, i - 1)) IN <<e.value>> \o from[i + e.size]
  IN  from[1]

(* A number of items that stands in front of them.                          *)
Counted(r, n, Item(_)) ==
  FoldLeft(LAMBDA list, k : LET e == Item(After(r, list.size))
                            IN  [value |-> Append(list.value, e.value),
                                 size  |-> list.size + e.size],
           [value |-> <<>>, size |-> 0], [k \in 1..n |-> k])

Number(w, r) == [value |-> Field(r, 0, w), size |-> w \div 8]

SIdBits(h) == IF h.pd = 1 THEN 32 ELSE 16

(* The 16 flags at bit n, as types of announcements, the highest first.     *)
Announcements(r, n) ==
  SelectSeq([k \in 1..16 |-> 16 - k], LAMBDA type : Bit(r, n + 15 - type) = 1)

-----------------------------------------------------------------------------
Header(d) == [cn |-> Bit(d, 0), oe |-> Bit(d, 1), pd |-> Bit(d, 2)]

Fig00_00(r) ==
  LET change == Field(r, 16, 2)
  IN  [value |-> [eid |-> Field(r, 0, 16), change |-> change, alarm |-> Bit(r, 18),
                  cif |-> <<Field(r, 19, 5), Field(r, 24, 8)>>]
                   @@ (IF change # 0 THEN [occ |-> Field(r, 32, 8)] ELSE <<>>),
       size  |-> IF change # 0 THEN 5 ELSE 4]

(* DAB_SUBCHANNEL_SHORTFORM_PROTECTION_TABLE: size, level, bit rate.        *)
ShortFormTable ==
  << <<16,5,32>>, <<21,4,32>>, <<24,3,32>>, <<29,2,32>>, <<35,1,32>>, <<24,5,48>>,
     <<29,4,48>>, <<35,3,48>>, <<42,2,48>>, <<52,1,48>>, <<29,5,56>>, <<35,4,56>>,
     <<42,3,56>>, <<52,2,56>>, <<32,5,64>>, <<42,4,64>>, <<48,3,64>>, <<58,2,64>>,
     <<70,1,64>>, <<40,5,80>>, <<52,4,80>>, <<58,3,80>>, <<70,2,80>>, <<84,1,80>>,
     <<48,5,96>>, <<58,4,96>>, <<70,3,96>>, <<84,2,96>>, <<104,1,96>>, <<58,5,112>>,
     <<70,4,112>>, <<84,3,112>>, <<104,2,112>>, <<64,5,128>>, <<84,4,128>>,
     <<96,3,128>>, <<116,2,128>>, <<140,1,128>>, <<80,5,160>>, <<104,4,160>>,
     <<116,3,160>>, <<140,2,160>>, <<168,1,160>>, <<96,5,192>>, <<116,4,192>>,
     <<140,3,192>>, <<168,2,192>>, <<208,1,192>>, <<116,5,224>>, <<140,4,224>>,
     <<168,3,224>>, <<208,2,224>>, <<232,1,224>>, <<128,5,256>>, <<168,4,256>>,
     <<192,3,256>>, <<232,2,256>>, <<280,1,256>>, <<160,5,320>>, <<208,4,320>>,
     <<280,2,320>>, <<192,5,384>>, <<280,3,384>>, <<416,1,384>> >>

(* PROTECTIONLEVEL_SUBCHAN_SIZE: capacity units of 8 kbit/s with the levels *)
(* A, of 32 kbit/s with the levels B.                                       *)
LevelSize == <<12, 8, 6, 4, 27, 21, 18, 15>>

LongForm(option, level, size, g) ==
  CASE option = 0 -> [type |-> "EEP_A", levelType |-> level,
                      rate |-> (size * 8) \div LevelSize[level + 1]]
    [] option = 1 -> [type |-> "EEP_B", levelType |-> level + 4,
                      rate |-> ((size * 32) \div LevelSize[level + 5]) % 256]
    [] OTHER      -> [type |-> g, levelType |-> g, rate |-> g]

Fig00_01(h, r, g) ==
  LET start == [prog |-> 1 - h.pd, sub |-> Field(r, 0, 6), start |-> Field(r, 6, 10)]
      index == Field(r, 18, 6)
      row   == ShortFormTable[index + 1]
      level == Field(r, 20, 2)
      size  == Field(r, 22, 10)
  IN  IF Bit(r, 16) = 0
      THEN [value |-> start @@ [type |-> "UEP", uep |-> index, size |-> row[1],
                                level |-> row[2], levelType |-> row[2], rate |-> row[3]],
            size  |-> 3]
      ELSE [value |-> start @@ LongForm(Field(r, 17, 3), level, size, g)
                            @@ [uep |-> 255, size |-> size, level |-> level],
            size  |-> 4]

Component(r, g) ==
  LET tmid   == Field(r, 0, 2)
      stream == tmid \in {0, 1}
  IN  [value |-> [tmid    |-> tmid,
                  type    |-> IF stream THEN Field(r, 2, 6) ELSE 255,
                  sub     |-> IF stream THEN Field(r, 8, 6) ELSE 255,
                  id      |-> IF tmid = 3 THEN Field(r, 2, 12) ELSE 65535,
                  primary |-> IF tmid = 2 THEN g ELSE Bit(r, 14),
                  ca      |-> IF tmid = 2 THEN g ELSE Bit(r, 15)],
       size  |-> IF tmid = 2 THEN 0 ELSE 2]

Fig00_02(h, r, g) ==
  LET w     == SIdBits(h)
      comps == Counted(After(r, (w \div 8) + 1), Field(r, w + 4, 4),
                       LAMBDA s : Component(s, g))
  IN  [value |-> [prog |-> 1 - h.pd, sid |-> Field(r, 0, w), ca |-> Field(r, w + 1, 3),
                  comps |-> comps.value],
       size  |-> (w \div 8) + 1 + comps.size]

Fig00_03(h, r) ==
  LET ca == Bit(r, 15)
  IN  [value |-> [prog |-> 1 - h.pd, id |-> Field(r, 0, 12), ca |-> ca,
                  groups |-> 1 - Bit(r, 16), type |-> Field(r, 18, 6),
                  sub |-> Field(r, 24, 6), address |-> Field(r, 30, 10),
                  caOrg |-> IF ca = 1 THEN Field(r, 40, 16) ELSE 0],
       size  |-> 5 + 2 * ca]

Fig00_04(r) == [value |-> [sub |-> Field(r, 2, 6), caOrg |-> Field(r, 8, 16)], size |-> 3]

Fig00_05(r) ==
  LET long == Bit(r, 0)
  IN  [value |-> [short |-> 1 - long, lang |-> Field(r, 8 + 8 * long, 8)]
                   @@ (IF long = 1 THEN [id |-> Field(r, 4, 12)] ELSE [sub |-> Field(r, 2, 6)]),
       size  |-> 2 + long]

(* Service linking.  At the start of a database, a list in a FIG without    *)
(* C/N, the first identifier is the key service.                            *)
Fig00_06(h, r, g) ==
  LET list  == Bit(r, 0)
      hard  == Bit(r, 2)
      ils   == Bit(r, 3)
      lsn   == Field(r, 4, 12)
      w     == IF h.pd = 1 THEN 32 ELSE IF ils = 1 THEN 24 ELSE 16
      ids   == IF list = 1
               THEN Counted(After(r, 3), Field(r, 20, 4), LAMBDA s : Number(w, s))
               ELSE [value |-> <<>>, size |-> 0]
      start == list = 1 /\ h.cn = 0 /\ ids.value # <<>>
  IN  [value |-> [data |-> h.pd, change |-> 1 - list, cont |-> list * h.cn,
                  active |-> Bit(r, 1), soft |-> 1 - hard, ils |-> ils, lsn |-> lsn,
                  lq   |-> IF list = 1 THEN Field(r, 17, 2) ELSE g,
                  key  |-> IF start THEN Head(ids.value) ELSE 0,
                  ids  |-> IF start THEN Tail(ids.value) ELSE ids.value,
                  db   |-> 32768 * h.oe + 16384 * h.pd + 8192 * hard + 4096 * ils + lsn],
       size  |-> 2 + list + ids.size]

Fig00_07(r) == [value |-> [services |-> Field(r, 0, 6), count |-> Field(r, 6, 10)], size |-> 2]

Fig00_08(h, r) ==
  LET w    == SIdBits(h)
      long == Bit(r, w + 8)
  IN  [value |-> [prog  |-> 1 - h.pd, sid |-> Field(r, 0, w), scIdS |-> Field(r, w + 4, 4),
                  short |-> 1 - long,
                  sub   |-> IF long = 1 THEN 255 ELSE Field(r, w + 10, 6),
                  id    |-> IF long = 1 THEN Field(r, w + 12, 12) ELSE 65535],
       size  |-> (w \div 8) + 2 + long + Bit(r, w)]

(* Country and local time offset; the services of other countries, which    *)
(* reach to the end of the FIG, are read and dropped.                       *)
Fig00_09(r) ==
  LET Other(s) == LET sids == Counted(After(s, 2), Field(s, 0, 2), LAMBDA t : Number(16, t))
                  IN  [value |-> [ecc |-> Field(s, 8, 8), sids |-> sids.value],
                       size  |-> 2 + sids.size]
      ext      == Bit(r, 0)
  IN  [value |-> [lto |-> IF Bit(r, 2) = 1 THEN -Field(r, 3, 5) ELSE Field(r, 3, 5),
                  ecc |-> Field(r, 8, 8), inter |-> Field(r, 16, 8),
                  others |-> IF ext = 1 THEN Items(After(r, 3), Other) ELSE <<>>],
       size  |-> IF ext = 1 THEN Len(r) ELSE 3]

(* mjd2ymd: a modified Julian day as a date.                                *)
Date(mjd) ==
  LET j0 == mjd + 2400001 + 68569
      c  == (4 * j0) \div 146097
      j1 == j0 - (146097 * c + 3) \div 4
      y  == (4000 * (j1 + 1)) \div 1461001
      j2 == j1 - ((1461 * y) \div 4) + 31
      m  == (80 * j2) \div 2447
      j3 == m \div 11
  IN  [year |-> 100 * (c - 49) + y + j3, month |-> m + 2 - 12 * j3,
       day  |-> j2 - ((2447 * m) \div 80)]

(* _mkgmtime, for the years from 1970 on.                                   *)
UnixDays(date) ==
  LET year == date.year - 1900
      leap == IF date.month > 2 THEN year + 1 ELSE year
  IN  <<0, 31, 59, 90, 120, 151, 181, 212, 243, 273, 304, 334>>[date.month] + date.day - 1
        + 365 * (year - 70) + ((leap - 69) \div 4) - ((leap - 1) \div 100)
        + ((leap + 299) \div 400)

Fig00_10(r, g) ==
  LET utc  == Bit(r, 20)
      date == Date(Field(r, 1, 17))
      sec  == IF utc = 1 THEN Field(r, 32, 6) ELSE g
  IN  [value |-> [utc |-> utc, date |-> date, lsi |-> Bit(r, 18), hour |-> Field(r, 21, 5),
                  minute |-> Field(r, 26, 6), second |-> sec,
                  ms   |-> IF utc = 1 THEN Field(r, 38, 10) ELSE g,
                  unix |-> sec + 60 * (Field(r, 26, 6)
                               + 60 * (Field(r, 21, 5) + 24 * UnixDays(date)))],
       size  |-> 4 + 2 * utc]

(* An application of a data service has no X-PAD part: caApplied, the X-PAD *)
(* type and dataGroupsUsed are not set.  The length is a uint8_t.           *)
UserApp(h, r, g) ==
  LET len    == Field(r, 11, 5)
      xpad   == h.pd = 0 /\ len >= 2
      ca     == IF xpad THEN Bit(r, 17) ELSE 0
      header == IF xpad THEN 4 + 2 * ca ELSE 2
      left   == (len - (header - 2)) % 256
  IN  [value |-> [type   |-> Field(r, 0, 11), xpad |-> 1 - h.pd,
                  ca     |-> IF xpad THEN Bit(r, 16) ELSE g,
                  app    |-> IF xpad THEN Field(r, 19, 5) ELSE g,
                  groups |-> IF xpad THEN 1 - Bit(r, 24) ELSE g,
                  dscty  |-> IF xpad THEN Field(r, 26, 6) ELSE 0,
                  caOrg  |-> IF ca = 1 THEN Field(r, 32, 16) ELSE 0,
                  data   |-> SubSeq(r, header + 1, header + left)],
       size  |-> header + left]

Fig00_13(h, r, g) ==
  LET w    == SIdBits(h)
      apps == Counted(After(r, (w \div 8) + 1), Field(r, w + 4, 4),
                      LAMBDA s : UserApp(h, s, g))
  IN  [value |-> [prog |-> 1 - h.pd, sid |-> Field(r, 0, w), scIdS |-> Field(r, w, 4),
                  apps |-> apps.value],
       size  |-> (w \div 8) + 1 + apps.size]

MutantFig00_14(r) ==
  [value |-> [sub |-> Field(r, 2, 6), scheme |-> Field(r, 0, 2)], size |-> 1]

Fig00_14(r) == [value |-> [sub |-> Field(r, 0, 6), scheme |-> Field(r, 6, 2)], size |-> 1]

Fig00_17(r) ==
  [value |-> [sid |-> Field(r, 0, 16), dynamic |-> Bit(r, 16), pty |-> Field(r, 27, 5)],
   size  |-> 4]

Fig00_18(r) ==
  LET clusters == Counted(After(r, 5), Field(r, 37, 3), LAMBDA s : Number(8, s))
  IN  [value |-> [sid |-> Field(r, 0, 16), types |-> Announcements(r, 16),
                  clusters |-> clusters.value],
       size  |-> 5 + clusters.size]

Fig00_19(r) ==
  [value |-> [cluster |-> Field(r, 0, 8), types |-> Announcements(r, 8),
              new |-> Bit(r, 24), sub |-> Field(r, 26, 6)],
   size  |-> 4]

(* Read and dropped, as are 0/4, 0/7, 0/25 and 0/26.                        *)
Fig00_20(h, r) ==
  LET w    == SIdBits(h)
      part == Bit(r, w + 7)
      to   == part = 1 /\ Bit(r, w + 38) = 1
      eid  == to /\ Bit(r, w + 39) = 1
  IN  [value |-> [sid |-> Field(r, 0, w), scIdS |-> Field(r, w, 4),
                  change |-> Field(r, w + 4, 2),
                  when |-> IF part = 1 THEN <<Field(r, w + 16, 5), Field(r, w + 21, 5),
                                              Field(r, w + 26, 6), Field(r, w + 32, 6)>>
                                       ELSE <<>>,
                  type |-> IF part = 1 THEN Field(r, w + 10, 6) ELSE 0,
                  to   |-> IF to THEN Field(r, w + 40, w) ELSE 0,
                  eid  |-> IF eid THEN Field(r, w + w + 40, 16) ELSE 0],
       size  |-> (w \div 8) + 1 + 4 * part + (IF to THEN w \div 8 ELSE 0)
                                        + (IF eid THEN 2 ELSE 0)]

(* The bitwise or of two numbers of 16 bits.                                *)
BitOr(a, b) ==
  FoldLeft(LAMBDA v, k : 2 * v + (IF (a \div 2^k) % 2 = 1 \/ (b \div 2^k) % 2 = 1 THEN 1 ELSE 0),
           0, [k \in 1..16 |-> 16 - k])

(* One frequency of a list: its bytes, the id of its service, whether it    *)
(* sets "adjacent" (by a switch without breaks), and the frequency in kHz.  *)
Frequency(rm, id, r) ==
  CASE rm = 0 ->
         [size  |-> 3,
          value |-> [id |-> id, known |-> Field(r, 0, 5) <= 3, khz |-> Field(r, 5, 19) * 16]]
    [] rm = 8 ->
         [size  |-> 1,
          value |-> [id |-> 0, known |-> FALSE, khz |-> Field(r, 0, 8) * 100 + 87500]]
    [] rm \in {6, 14} ->
         [size  |-> 3,
          value |-> [id |-> BitOr(Field(r, 0, 8) * 256, id), known |-> FALSE,
                     khz |-> (Field(r, 9, 15) % 256) * (IF Bit(r, 8) = 1 THEN 10 ELSE 1)]]

(* A frequency list is pushed once per frequency, longer each time; it      *)
(* begins with the 0 that frequenciesKHz is initialised with.               *)
FrequencyList(h, r) ==
  LET id    == Field(r, 0, 16)
      rm    == Field(r, 16, 4)
      len   == Field(r, 21, 3)
      freqs == Items(SubSeq(r, 4, 3 + len), LAMBDA s : Frequency(rm, id, s))
      Push(k) == [id |-> freqs[k].id, rm |-> rm, cont |-> Bit(r, 20), oe |-> h.oe,
                  adjacent |-> IF \E j \in 1..k : freqs[j].known THEN "NOT_MODE_ONE"
                                                                 ELSE "UNKNOWN",
                  khz |-> SortSeq(<<0>> \o [j \in 1..k |-> freqs[j].khz],
                                  LAMBDA a, b : a < b)]
  IN  [value |-> [k \in DOMAIN freqs |-> Push(k)], size |-> 3 + len]

Fig00_21(h, r) ==
  LET len == Field(r, 11, 5)
  IN  [value |-> Items(SubSeq(r, 3, 2 + len), LAMBDA s : FrequencyList(h, s)),
       size  |-> 2 + len]

Fig00_24(h, r) ==
  LET w    == SIdBits(h)
      eids == Counted(After(r, (w \div 8) + 1), Field(r, w + 4, 4), LAMBDA s : Number(16, s))
  IN  [value |-> [oe |-> h.oe, sid |-> Field(r, 0, w), ca |-> Field(r, w + 1, 3),
                  cei |-> IF eids.value = <<>> THEN 1 ELSE 0,
                  eids |-> SortSeq(eids.value, LAMBDA a, b : a < b)],
       size  |-> (w \div 8) + 1 + eids.size]

Fig00_25(r) ==
  LET targets == Counted(After(r, 5), Field(r, 38, 2),
                         LAMBDA s : [value |-> <<Field(s, 0, 8), Field(s, 8, 16)>>, size |-> 3])
  IN  [value |-> [sid |-> Field(r, 0, 16), flags |-> Field(r, 16, 16),
                  targets |-> targets.value],
       size  |-> 5 + targets.size]

Fig00_26(r) ==
  [value |-> [cluster |-> Field(r, 0, 8), flags |-> Field(r, 8, 16), new |-> Bit(r, 24),
              scIdS |-> Field(r, 28, 4), sid |-> Field(r, 32, 16)],
   size  |-> 6]

-----------------------------------------------------------------------------
(* parseLabel.  The label is resized to 16 characters and has 16 inserted   *)
(* in front of them; the second byte of the flags counts from 7.            *)
Label(r) ==
  LET flagged == SelectSeq([p \in 1..16 |-> p - 1], LAMBDA p : Bit(r, 128 + p) = 1)
      Char(p) == IF p < 8 THEN r[p + 1] ELSE r[p]
  IN  [label |-> SubSeq(r, 1, 16) \o [k \in 1..16 |-> 0],
       short |-> [k \in 1..8 |-> IF k <= Len(flagged) THEN Char(flagged[k]) ELSE 0]]

Fig01_00(r) == [value |-> [id |-> Field(r, 0, 16)] @@ Label(After(r, 2)), size |-> 20]
Fig01_01(r) == [value |-> [id |-> Field(r, 0, 16)] @@ Label(After(r, 2)), size |-> 20]

Fig01_04(r) ==
  LET data == Bit(r, 0)
      sid  == IF data = 1 THEN Field(r, 8, 32) % 256 ELSE Field(r, 8, 16)
      at   == IF data = 1 THEN 5 ELSE 3
  IN  [value |-> [prog |-> 1 - data, scIdS |-> Field(r, 4, 4), id |-> sid]
                   @@ Label(After(r, at)),
       size  |-> at + 18]

Fig01_05(r) == [value |-> [id |-> Field(r, 0, 32)] @@ Label(After(r, 4)), size |-> 22]

-----------------------------------------------------------------------------
(* Type and extension, as one number.                                      *)
Kind(type, ext) == 100 * type + ext

Entry(kind, h, r, g) ==
  CASE kind = 0  -> Fig00_00(r)          [] kind = 1  -> Fig00_01(h, r, g)
    [] kind = 2  -> Fig00_02(h, r, g)    [] kind = 3  -> Fig00_03(h, r)
    [] kind = 4  -> Fig00_04(r)          [] kind = 5  -> Fig00_05(r)
    [] kind = 6  -> Fig00_06(h, r, g)    [] kind = 7  -> Fig00_07(r)
    [] kind = 8  -> Fig00_08(h, r)       [] kind = 9  -> Fig00_09(r)
    [] kind = 10 -> Fig00_10(r, g)       [] kind = 13 -> Fig00_13(h, r, g)
    [] kind = 14 -> Fig00_14(r)          [] kind = 17 -> Fig00_17(r)
    [] kind = 18 -> Fig00_18(r)          [] kind = 19 -> Fig00_19(r)
    [] kind = 20 -> Fig00_20(h, r)       [] kind = 21 -> Fig00_21(h, r)
    [] kind = 24 -> Fig00_24(h, r)       [] kind = 25 -> Fig00_25(r)
    [] kind = 26 -> Fig00_26(r)          [] kind = 100 -> Fig01_00(r)
    [] kind = 101 -> Fig01_01(r)         [] kind = 104 -> Fig01_04(r)
    [] kind = 105 -> Fig01_05(r)

Kinds == {0,1,2,3,4,5,6,7,8,9,10,13,14,17,18,19,20,21,24,25,26,100,101,104,105,106}

(* Classes that keep what they read in members, not in a list: the entry    *)
(* read last overwrites, and a member it does not have is left.             *)
KeepLast == {0, 5, 9, 10, 100, 101, 104, 105}

Defaults(kind) == CASE kind = 0 -> [occ |-> 0]
                    [] kind = 5 -> [sub |-> 255, id |-> 65535]
                    [] OTHER    -> <<>>

(* A FIG of this kind, as the object made from it.  The constructor of 1/6  *)
(* does not read anything.                                                 *)
Decoded(kind, d, g) ==
  IF kind = 106 THEN <<[junk |-> g]>>
  ELSE LET all == Items(Tail(d), LAMBDA r : Entry(kind, Header(d), r, g))
       IN  IF kind \in KeepLast THEN <<FoldLeft(LAMBDA old, new : new @@ old, Defaults(kind), all)>>
           ELSE all
=============================================================================
