----------------------------- MODULE MCFibParser -----------------------------
EXTENDS FibParser

Fig(kind, entries) == [kind |-> kind, cn |-> 0, oe |-> 0, pd |-> 0, entries |-> entries]
Data(f)  == [f EXCEPT !.pd = 1]
Next_(f) == [f EXCEPT !.cn = 1]
Other(f) == [f EXCEPT !.oe = 1]

Uep(sub, start, index, size, level, rate) ==
  [prog |-> 1, sub |-> sub, start |-> start, type |-> "UEP", uep |-> index, size |-> size,
   level |-> level, levelType |-> level, rate |-> rate]
Eep(sub, start, type, level, size, rate) ==
  [prog |-> 1, sub |-> sub, start |-> start, type |-> type, uep |-> 255, size |-> size,
   level |-> level, levelType |-> IF type = "EEP_B" THEN level + 4 ELSE level, rate |-> rate]

Stream(tmid, type, sub) ==
  [tmid |-> tmid, type |-> type, sub |-> sub, id |-> 65535, primary |-> 1, ca |-> 0]
Packets(id) == [tmid |-> 3, type |-> 255, sub |-> 255, id |-> id, primary |-> 0, ca |-> 1]

Link == [data |-> 0, change |-> 0, cont |-> 0, active |-> 1, soft |-> 0, ils |-> 1,
         lsn |-> 2748, lq |-> 1, key |-> 14799138, ids |-> <<14799139, 65537>>,
         db |-> 8192 + 4096 + 2748]

Unix(mjd, h, m, s) == (mjd - 40587) * 86400 + h * 3600 + m * 60 + s
Time(y, mo, d, mjd, utc) ==
  [date |-> [year |-> y, month |-> mo, day |-> d], utc |-> utc, lsi |-> 0, hour |-> 19,
   minute |-> 59, second |-> 58 * utc, ms |-> 999 * utc, unix |-> Unix(mjd, 19, 59, 58 * utc)]

App(type, app, caOrg, data) ==
  [type |-> type, xpad |-> 1, ca |-> IF caOrg = 0 THEN 0 ELSE 1, app |-> app, groups |-> 1,
   dscty |-> 60, caOrg |-> caOrg, data |-> data]

List(id, rm, adjacent, khz) ==
  [id |-> id, rm |-> rm, cont |-> 1, oe |-> 0, adjacent |-> adjacent, khz |-> <<0>> \o khz]

(* A label of 16 different letters, some of them flagged.                   *)
Letters == [k \in 1..16 |-> 64 + k]
Labelled(positions) ==
  [label |-> Letters \o [k \in 1..16 |-> 0],
   short |-> [k \in 1..8 |-> IF k <= Len(positions) THEN Letters[positions[k]] ELSE 0]]
Early == Labelled(<<1, 3, 8>>)
Late  == Labelled(<<2, 9, 16>>)

Small == {
  Fig(1, <<Uep(63, 863, 35, 96, 3, 128)>>),
  Next_(Fig(1, <<Uep(63, 863, 35, 96, 3, 128)>>)),
  Fig(1, <<Uep(1, 0, 0, 16, 5, 32), Eep(2, 16, "EEP_A", 2, 66, 88)>>),
  Fig(1, <<Eep(5, 512, "EEP_B", 3, 105, 224)>>),
  Fig(1, <<Eep(5, 512, "EEP_B", 3, 120, 256)>>),
  Fig(2, <<[prog |-> 1, sid |-> 53504, ca |-> 5, comps |-> <<Stream(0, 63, 5), Packets(2731)>>]>>),
  Data(Fig(2, <<[prog |-> 0, sid |-> 1880100000, ca |-> 0, comps |-> <<Stream(1, 5, 40)>>]>>)),
  Fig(3, <<[prog |-> 1, id |-> 2731, ca |-> 0, groups |-> 0, type |-> 5, sub |-> 33,
            address |-> 1022, caOrg |-> 0],
           [prog |-> 1, id |-> 4, ca |-> 1, groups |-> 1, type |-> 60, sub |-> 1,
            address |-> 1, caOrg |-> 258]>>),
  Fig(5, <<[short |-> 1, sub |-> 33, id |-> 65535, lang |-> 8]>>),
  Fig(5, <<[short |-> 0, sub |-> 255, id |-> 2731, lang |-> 9]>>),
  Fig(7, <<[services |-> 42, count |-> 1000]>>),
  Fig(13, <<[prog |-> 1, sid |-> 53504, scIdS |-> 3, apps |->
             <<App(2, 12, 0, <<>>), App(1035, 13, 770, <<1, 2>>)>>]>>),
  Fig(14, <<[sub |-> 33, scheme |-> 1], [sub |-> 5, scheme |-> 0]>>),
  Fig(17, <<[sid |-> 53504, dynamic |-> 1, pty |-> 17]>>),
  Fig(200, <<<<1, 2>>>>)
}

Rest == {
  Fig(0, <<[eid |-> 4242, change |-> 0, alarm |-> 1, cif |-> <<19, 249>>, occ |-> 0]>>),
  Fig(0, <<[eid |-> 4242, change |-> 3, alarm |-> 0, cif |-> <<12, 34>>, occ |-> 77]>>),
  Fig(4, <<[sub |-> 9, caOrg |-> 513], [sub |-> 10, caOrg |-> 514]>>),
  Fig(6, <<Link>>),
  Next_(Fig(6, <<[Link EXCEPT !.cont = 1, !.key = 0, !.ils = 0, !.soft = 1, !.ids = <<1, 65535>>,
                             !.db = 2748]>>)),
  Fig(8, <<[prog |-> 1, sid |-> 53504, scIdS |-> 3, short |-> 0, sub |-> 255, id |-> 2731],
           [prog |-> 1, sid |-> 53505, scIdS |-> 1, short |-> 1, sub |-> 33, id |-> 65535]>>),
  Data(Fig(8, <<[prog |-> 0, sid |-> 1880100000, scIdS |-> 0, short |-> 1, sub |-> 33,
                 id |-> 65535]>>)),
  Fig(9, <<[lto |-> -5, ecc |-> 224, inter |-> 1,
            others |-> <<[ecc |-> 225, sids |-> <<53504, 53505>>], [ecc |-> 226, sids |-> <<1>>]>>]>>),
  Fig(9, <<[lto |-> 2, ecc |-> 224, inter |-> 1, others |-> <<>>]>>),
  Fig(10, <<Time(2024, 2, 29, 60369, 1)>>),
  Fig(10, <<Time(2021, 12, 31, 59579, 1)>>),
  Fig(10, <<Time(2000, 3, 1, 51604, 0)>>),
  Data(Fig(13, <<[prog |-> 0, sid |-> 1880100000, scIdS |-> 0, apps |->
        <<[type |-> 74, xpad |-> 0, ca |-> 0, app |-> 0, groups |-> 0, dscty |-> 0,
           caOrg |-> 0, data |-> <<5>>]>>]>>)),
  Fig(18, <<[sid |-> 53504, types |-> <<15, 8, 0>>, clusters |-> <<1, 254>>]>>),
  Fig(19, <<[cluster |-> 254, types |-> <<1>>, new |-> 1, sub |-> 33]>>),
  Fig(20, <<[sid |-> 53504, scIdS |-> 3, change |-> 2, when |-> <<31, 23, 59, 58>>, type |-> 63,
             to |-> 53505, eid |-> 4243],
            [sid |-> 1, scIdS |-> 0, change |-> 0, when |-> <<>>, type |-> 0, to |-> 0, eid |-> 0]>>),
  Fig(21, <<<<List(4243, 0, "NOT_MODE_ONE", <<178352, 239200>>), List(0, 8, "UNKNOWN", <<87600>>)>>>>),
  Fig(21, <<<<List(4243, 0, "MODE_ONE", <<178352>>)>>>>),
  Fig(21, <<<<List(258, 6, "UNKNOWN", <<198>>), List(258, 14, "UNKNOWN", <<1269>>),
              List(53504, 8, "UNKNOWN", <<107900>>)>>>>),
  Other(Fig(24, <<[oe |-> 1, sid |-> 53504, ca |-> 2, cei |-> 0, eids |-> <<4242, 4300>>],
                  [oe |-> 1, sid |-> 1, ca |-> 0, cei |-> 1, eids |-> <<>>]>>)),
  Fig(25, <<[sid |-> 53504, flags |-> 257, targets |-> <<<<1, 4242>>, <<2, 4300>>>>]>>),
  Fig(26, <<[cluster |-> 1, flags |-> 258, new |-> 1, scIdS |-> 3, sid |-> 53504]>>),
  Fig(100, <<[id |-> 4242] @@ Early>>),
  Fig(101, <<[id |-> 53504] @@ Early>>),
  Fig(101, <<[id |-> 53505] @@ Late>>),
  Fig(104, <<[prog |-> 1, scIdS |-> 3, id |-> 53504] @@ Early>>),
  Fig(104, <<[prog |-> 0, scIdS |-> 3, id |-> 1880100000] @@ Early>>),
  Fig(105, <<[id |-> 1880100000] @@ Early>>),
  Fig(106, <<[scIdS |-> 3, id |-> 53504, app |-> 12] @@ Early>>)
}

(* Entries with the longer identifiers of data services.                    *)
DataServices == {
  Data(Fig(6, <<[Link EXCEPT !.data = 1, !.key = 1880100000, !.ids = <<1>>, !.db = @ + 16384]>>)),
  Data(Fig(20, <<[sid |-> 1880100000, scIdS |-> 3, change |-> 1, when |-> <<1, 2, 3, 4>>,
                  type |-> 1, to |-> 1880100001, eid |-> 4243]>>)),
  Data(Other(Fig(24, <<[oe |-> 1, sid |-> 1880100000, ca |-> 2, cei |-> 0, eids |-> <<1>>]>>)))
}

MCFigs == Small \union Rest \union DataServices
=============================================================================
