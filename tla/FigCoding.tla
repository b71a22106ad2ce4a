------------------------------ MODULE FigCoding ------------------------------
(***************************************************************************)
(* The transmitter's side of FigDecoder: how EN 300 401 lays out what a FIG *)
(* says.  A FIG is a record of its kind, its three header flags and its     *)
(* entries; an entry is written as the receiver should come to hold it.     *)
(* A layout is a sequence of fields, each of a width and a value.           *)
(***************************************************************************)
EXTENDS Integers, Sequences, SequencesExt

BitsOf(field) ==
  [k \in 1 .. field[1] |->
     IF field[1] - k > 30 THEN 0 ELSE (field[2] \div 2^(field[1] - k)) % 2]

Pack(fields) ==
  LET bits == FlattenSeq([j \in DOMAIN fields |-> BitsOf(fields[j])])
  IN  [b \in 1 .. (Len(bits) \div 8) |->
         FoldLeft(LAMBDA v, k : 2 * v + bits[8 * (b - 1) + k], 0, [k \in 1..8 |-> k])]

Each(list, LayoutOf(_)) == FlattenSeq([k \in DOMAIN list |-> LayoutOf(list[k])])

Fields(w, list) == [k \in DOMAIN list |-> <<w, list[k]>>]

Flag(b) == <<1, IF b THEN 1 ELSE 0>>
Option(b, fields) == IF b THEN fields ELSE <<>>
Types(set) == [k \in 1..16 |-> Flag(16 - k \in set)]

SId(f, sid) == <<IF f.pd = 1 THEN 32 ELSE 16, sid>>

ComponentLayout(c) ==
  <<<<2, c.tmid>>>> \o (IF c.tmid = 3 THEN <<<<12, c.id>>>> ELSE <<<<6, c.type>>, <<6, c.sub>>>>)
    \o <<<<1, c.primary>>, <<1, c.ca>>>>

LinkIds(e) == IF e.key # 0 THEN <<e.key>> \o e.ids ELSE e.ids

AppLayout(f, a) ==
  LET xpad == <<<<1, a.ca>>, Flag(a.caOrg # 0), <<1, 0>>, <<5, a.app>>, <<1, 1 - a.groups>>,
                <<1, 0>>, <<6, a.dscty>>>> \o Option(a.caOrg # 0, <<<<16, a.caOrg>>>>)
      body == Option(f.pd = 0, xpad) \o Fields(8, a.data)
  IN  <<<<11, a.type>>, <<5, Len(Pack(body))>>>> \o body

(* The modified Julian day of a date, by the formula of EN 300 401.         *)
Mjd(date) ==
  LET l == IF date.month <= 2 THEN 1 ELSE 0
      y == date.year - 1900 - l
  IN  14956 + date.day + ((y * 36525) \div 100)
        + (((date.month + 1 + 12 * l) * 306001) \div 10000)

AdjacentNames == <<"MODE_UNKNOWN", "NOT_MODE_UNKNOWN", "MODE_ONE", "NOT_MODE_ONE">>

FrequencyLayout(l, khz) ==
  CASE l.rm = 0 -> <<<<5, SelectInSeq(AdjacentNames, LAMBDA n : n = l.adjacent) - 1>>,
                     <<19, khz \div 16>>>>
    [] l.rm = 8 -> <<<<8, (khz - 87500) \div 100>>>>
    [] OTHER    -> <<<<8, l.id \div 65536>>, <<1, 0>>, <<15, khz>>>>

ListLayout(l) ==
  LET freqs == Each(Tail(l.khz), LAMBDA khz : FrequencyLayout(l, khz))
  IN  <<<<16, l.id % 65536>>, <<4, l.rm>>, <<1, l.cont>>, <<3, Len(Pack(freqs))>>>> \o freqs

LabelLayout(e) ==
  LET chars == SubSeq(e.label, 1, 16)
  IN  Fields(8, chars) \o [k \in 1..16 |-> Flag(chars[k] \in ToSet(e.short))]

Layout(f, e) ==
  CASE f.kind = 0 ->
         <<<<16, e.eid>>, <<2, e.change>>, <<1, e.alarm>>, <<5, e.cif[1]>>, <<8, e.cif[2]>>>>
           \o Option(e.change # 0, <<<<8, e.occ>>>>)
    [] f.kind = 1 ->
         <<<<6, e.sub>>, <<10, e.start>>>>
           \o (IF e.type = "UEP" THEN <<<<2, 0>>, <<6, e.uep>>>>
               ELSE <<<<1, 1>>, <<3, IF e.type = "EEP_A" THEN 0 ELSE 1>>, <<2, e.level>>,
                      <<10, e.size>>>>)
    [] f.kind = 2 ->
         <<SId(f, e.sid), <<1, 0>>, <<3, e.ca>>, <<4, Len(e.comps)>>>>
           \o Each(e.comps, ComponentLayout)
    [] f.kind = 3 ->
         <<<<12, e.id>>, <<3, 0>>, <<1, e.ca>>, <<1, 1 - e.groups>>, <<1, 0>>, <<6, e.type>>,
           <<6, e.sub>>, <<10, e.address>>>> \o Option(e.ca = 1, <<<<16, e.caOrg>>>>)
    [] f.kind = 4 -> <<<<2, 0>>, <<6, e.sub>>, <<16, e.caOrg>>>>
    [] f.kind = 5 ->
         (IF e.short = 1 THEN <<<<2, 0>>, <<6, e.sub>>>> ELSE <<<<1, 1>>, <<3, 0>>, <<12, e.id>>>>)
           \o <<<<8, e.lang>>>>
    [] f.kind = 6 ->
         <<<<1, 1 - e.change>>, <<1, e.active>>, <<1, 1 - e.soft>>, <<1, e.ils>>, <<12, e.lsn>>>>
           \o Option(e.change = 0,
                <<<<1, 0>>, <<2, e.lq>>, <<1, 0>>, <<4, Len(LinkIds(e))>>>>
                  \o Fields(IF f.pd = 1 THEN 32 ELSE IF e.ils = 1 THEN 24 ELSE 16, LinkIds(e)))
    [] f.kind = 7 -> <<<<6, e.services>>, <<10, e.count>>>>
    [] f.kind = 8 ->
         <<SId(f, e.sid), <<1, 1 - e.short>>, <<3, 0>>, <<4, e.scIdS>>>>
           \o (IF e.short = 1 THEN <<<<2, 0>>, <<6, e.sub>>>>
               ELSE <<<<1, 1>>, <<3, 0>>, <<12, e.id>>, <<8, 0>>>>)
    [] f.kind = 9 ->
         <<Flag(e.others # <<>>), <<1, 0>>, Flag(e.lto < 0),
           <<5, IF e.lto < 0 THEN -e.lto ELSE e.lto>>, <<8, e.ecc>>, <<8, e.inter>>>>
           \o Each(e.others, LAMBDA o : <<<<2, Len(o.sids)>>, <<6, 0>>, <<8, o.ecc>>>>
                                          \o Fields(16, o.sids))
    [] f.kind = 10 ->
         <<<<1, 0>>, <<17, Mjd(e.date)>>, <<1, e.lsi>>, <<1, 1>>, <<1, e.utc>>,
           <<5, e.hour>>, <<6, e.minute>>>>
           \o Option(e.utc = 1, <<<<6, e.second>>, <<10, e.ms>>>>)
    [] f.kind = 13 ->
         <<SId(f, e.sid), <<4, e.scIdS>>, <<4, Len(e.apps)>>>>
           \o Each(e.apps, LAMBDA a : AppLayout(f, a))
    [] f.kind = 14 -> <<<<6, e.sub>>, <<2, e.scheme>>>>
    [] f.kind = 17 -> <<<<16, e.sid>>, <<1, e.dynamic>>, <<10, 0>>, <<5, e.pty>>>>
    [] f.kind = 18 ->
         <<<<16, e.sid>>>> \o Types(ToSet(e.types)) \o <<<<5, 0>>, <<3, Len(e.clusters)>>>>
           \o Fields(8, e.clusters)
    [] f.kind = 19 ->
         <<<<8, e.cluster>>>> \o Types(ToSet(e.types)) \o <<<<1, e.new>>, <<1, 0>>, <<6, e.sub>>>>
    [] f.kind = 20 ->
         <<SId(f, e.sid), <<4, e.scIdS>>, <<2, e.change>>, <<1, 0>>, Flag(e.when # <<>>)>>
           \o Option(e.when # <<>>,
                <<<<2, 0>>, <<6, e.type>>, <<5, e.when[1]>>, <<5, e.when[2]>>, <<6, e.when[3]>>,
                  <<6, e.when[4]>>, Flag(e.to # 0), Flag(e.eid # 0)>>
                  \o Option(e.to # 0, <<SId(f, e.to)>>) \o Option(e.eid # 0, <<<<16, e.eid>>>>))
    [] f.kind = 21 ->
         LET lists == Each(e, ListLayout) IN <<<<11, 0>>, <<5, Len(Pack(lists))>>>> \o lists
    [] f.kind = 24 ->
         <<SId(f, e.sid), <<1, 0>>, <<3, e.ca>>, <<4, Len(e.eids)>>>> \o Fields(16, e.eids)
    [] f.kind = 25 ->
         <<<<16, e.sid>>, <<16, e.flags>>, <<6, 0>>, <<2, Len(e.targets)>>>>
           \o Each(e.targets, LAMBDA t : <<<<8, t[1]>>, <<16, t[2]>>>>)
    [] f.kind = 26 ->
         <<<<8, e.cluster>>, <<16, e.flags>>, <<1, e.new>>, <<3, 0>>, <<4, e.scIdS>>, <<16, e.sid>>>>
    [] f.kind \in {100, 101} -> <<<<16, e.id>>>> \o LabelLayout(e)
    [] f.kind = 104 ->
         <<<<1, 1 - e.prog>>, <<3, 0>>, <<4, e.scIdS>>, <<IF e.prog = 1 THEN 16 ELSE 32, e.id>>>>
           \o LabelLayout(e)
    [] f.kind = 105 -> <<<<32, e.id>>>> \o LabelLayout(e)
    [] f.kind = 106 ->
         <<<<4, 0>>, <<4, e.scIdS>>, <<16, e.id>>, <<3, 0>>, <<5, e.app>>>> \o LabelLayout(e)
    [] OTHER -> Fields(8, e)

HeaderLayout(f) ==
  IF f.kind < 100 THEN <<<<1, f.cn>>, <<1, f.oe>>, <<1, f.pd>>, <<5, f.kind>>>>
                  ELSE <<<<4, 0>>, <<1, f.oe>>, <<3, f.kind % 100>>>>

Coded(f) == Pack(HeaderLayout(f) \o Each(f.entries, LAMBDA e : Layout(f, e)))
=============================================================================
