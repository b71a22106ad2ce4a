------------------------- MODULE FicCollectionProofs -------------------------
(***************************************************************************)
(* That the tuner is told of a collection once, that what the collection   *)
(* holds is of the multiplex on the air, that a type is taken for done     *)
(* only when its whole cycle has been seen, and that nothing is missing    *)
(* when the tuner is told: for every set of multiplexes and every rate of  *)
(* the FIG types, with resets at any moment.                               *)
(***************************************************************************)
EXTENDS FicCollection, SequenceTheorems, TLAPS

(* What ToldOnce needs: with the callbacks checkServiceSanity drops, the   *)
(* parser has no way left into the ensemble until the reset gives it one,  *)
(* and neither has the new parser while the old one's thread is joined.    *)
Silent == told = 1 => callbacks = {}
OnceInv == told \in {0, 1} /\ Silent

(* A FIG that repeats reaches the ensemble through a callback only. *)
LEMMA ParseKeepsOnce ==
  ASSUME OnceInv, NEW f, Parse(f)
  PROVE  OnceInv'
<1>1. CASE ParseFig(f)
  BY <1>1 DEF ParseFig, OnceInv, Silent, book
<1>2. CASE ParseRepeated(f)
  <2>1. callbacks # {}
    BY <1>2 DEF ParseRepeated
  <2>2. told = 0
    BY <2>1 DEF OnceInv, Silent
  <2>3. CASE told' = told
    BY <2>2, <2>3 DEF OnceInv, Silent
  <2>4. CASE told' # told
    <3>1. told' = told + 1 /\ callbacks' = callbacks \cap Kept
      BY <1>2, <2>4 DEF ParseRepeated
    <3> QED
      BY <2>2, <3>1 DEF OnceInv, Silent, Kept
  <2> QED
    BY <2>3, <2>4
<1> QED
  BY <1>1, <1>2 DEF Parse

(* No step leads out of the invariant. *)
LEMMA NextKeepsOnce ==
  ASSUME OnceInv, [Next]_vars
  PROVE  OnceInv'
<1>1. ASSUME NEW t \in Types, Receive(t)
      PROVE  OnceInv'
  BY <1>1, ParseKeepsOnce DEF Receive
<1>2. ASSUME NEW t \in Types, Lose(t)
      PROVE  OnceInv'
  BY <1>2 DEF Lose, OnceInv, Silent, book
<1>3. CASE ResetStart
  BY <1>3 DEF ResetStart, OnceInv, Silent
<1>4. ASSUME NEW t \in Types, OldThread(t)
      PROVE  OnceInv'
  BY <1>4, ParseKeepsOnce DEF OldThread
<1>5. ASSUME NEW n, ResetEnd(n)
      PROVE  OnceInv'
  BY <1>5 DEF ResetEnd, OnceInv, Silent
<1>6. CASE UNCHANGED vars
  BY <1>6 DEF vars, book, OnceInv, Silent
<1> QED
  BY <1>1, <1>2, <1>3, <1>4, <1>5, <1>6 DEF Next, SomeFig, OldThreadParses, ResetEnds

(* fig_00_done_cb tells the tuner at most once between two resets, also    *)
(* when a reset interrupts the parser's thread. *)
THEOREM CollectDoneOnce == Spec => []ToldOnce
<1>1. Init => OnceInv
  BY DEF Init, OnceInv, Silent
<1>2. OnceInv /\ [Next]_vars => OnceInv'
  BY NextKeepsOnce
<1>3. OnceInv => ToldOnce
  BY DEF OnceInv, ToldOnce
<1> QED
  BY <1>1, <1>2, <1>3, PTL DEF Spec

-----------------------------------------------------------------------------
Mux(n) == Multiplexes[n]

(* What MultiplexAssumption says of a multiplex.                            *)
LEMMA MuxFacts ==
  ASSUME NEW n \in DOMAIN Multiplexes
  PROVE  /\ Mux(n).packets \subseteq Components(Mux(n))
         /\ \A c \in Streams(Mux(n)), d \in Components(Mux(n)) :
              c # d => Mux(n).subchannel[c] # Mux(n).subchannel[d]
         /\ Described(Mux(n), "0/2") = Mux(n).services
         /\ \A t \in Types : Length(n, t) \in Nat /\ DOMAIN Mux(n).cycle[t] = 1 .. Length(n, t)
<1>1. Mux(n) \in {Multiplexes[k] : k \in DOMAIN Multiplexes}
  BY DEF Mux
<1>2. ASSUME NEW t \in Types
      PROVE  Length(n, t) \in Nat /\ DOMAIN Mux(n).cycle[t] = 1 .. Length(n, t)
  <2>1. Mux(n).cycle[t] \in Seq({Mux(n).cycle[t][i] : i \in DOMAIN Mux(n).cycle[t]})
    BY <1>1, MultiplexAssumption DEF MultiplexAssumption
  <2> QED
    BY <2>1, LenProperties DEF Length, Mux
<1> QED
  BY <1>1, <1>2, MultiplexAssumption DEF MultiplexAssumption

-----------------------------------------------------------------------------
(* The transmitter is somewhere in each type's cycle.                       *)
AirInv ==
  /\ mux \in DOMAIN Multiplexes
  /\ next \in [Types -> Int] /\ due \in [Types -> Int]
  /\ \A t \in Types : /\ due[t] \in 0..Length(mux, t)
                      /\ Length(mux, t) > 0 => next[t] \in 1..Length(mux, t)
  /\ frame \in 0..(Slow - 1)

LEMMA ShareFits ==
  ASSUME NEW n \in DOMAIN Multiplexes, NEW t \in Types, NEW f
  PROVE  Share(n, t, f) \in 0..Length(n, t)
BY MuxFacts DEF Share

LEMMA StartKeeps ==
  ASSUME NEW n \in DOMAIN Multiplexes, StartOf(n)
  PROVE  AirInv'
<1>1. \A t \in Types : Share(n, t, 0) \in 0..Length(n, t) /\ Length(n, t) \in Nat
  BY ShareFits, MuxFacts
<1>2. \A t \in Types : Length(n, t) = Length(mux', t)
  BY DEF StartOf
<1> QED
  BY <1>1, <1>2, MultiplexAssumption DEF StartOf, AirInv, MultiplexAssumption, Length

LEMMA SentKeeps ==
  ASSUME AirInv, NEW t \in Types, Sent(t)
  PROVE  /\ AirInv' /\ mux' = mux
         /\ next[t] \in 1..Length(mux, t)
         /\ next' = [next EXCEPT ![t] = IF @ = Length(mux, t) THEN 1 ELSE @ + 1]
<1> DEFINE L == Length(mux, t)
<1>1. L \in Nat \ {0} /\ next[t] \in 1..L /\ mux' = mux
  BY MuxFacts DEF AirInv, Sent
<1>2. (next[t] % L) + 1 = IF next[t] = L THEN 1 ELSE next[t] + 1
  <2> HIDE DEF L
  <2> QED
    BY <1>1
<1>3. next' = [next EXCEPT ![t] = IF @ = L THEN 1 ELSE @ + 1]
  BY <1>2 DEF Sent, AirInv
<1>4. frame' \in 0..(Slow - 1)
  BY MultiplexAssumption DEF MultiplexAssumption, Sent, AirInv
<1>5. due' \in [Types -> Int] /\ \A u \in Types : due'[u] \in 0..Length(mux, u)
  <2>1. \A u \in Types, f \in Int : Share(mux, u, f) \in 0..Length(mux, u) /\ Length(mux, u) \in Nat
    BY ShareFits, MuxFacts DEF AirInv
  <2>2. frame + 1 \in Int /\ (frame + 1) % Slow \in Int
    BY MultiplexAssumption DEF MultiplexAssumption, AirInv
  <2>3. CASE \A u \in Types : [due EXCEPT ![t] = @ - 1][u] = 0
    BY <2>1, <2>2, <2>3 DEF Sent, Left, LastOfFrame, AirInv
  <2>4. CASE ~\A u \in Types : [due EXCEPT ![t] = @ - 1][u] = 0
    <3>1. due' = [due EXCEPT ![t] = @ - 1]
      BY <2>4 DEF Sent, Left, LastOfFrame
    <3> QED
      BY <2>1, <3>1 DEF Sent, AirInv
  <2> QED
    BY <2>3, <2>4
<1>6. \A u \in Types : Length(mux', u) = Length(mux, u)
  BY <1>1
<1>7. next' \in [Types -> Int]
  BY <1>1, <1>3 DEF AirInv
<1>8. \A u \in Types : Length(mux, u) > 0 => next'[u] \in 1..Length(mux, u)
  BY <1>1, <1>3 DEF AirInv
<1> QED
  BY <1>1, <1>3, <1>4, <1>5, <1>6, <1>7, <1>8 DEF AirInv

-----------------------------------------------------------------------------
(* Nothing is collected of a component or service that is not known, and    *)
(* nothing known that the multiplex has not.                                *)
Grounded(e) ==
  /\ e.services \subseteq OnAir.services
  /\ e.labelled \subseteq e.services
  /\ e.located \cup e.fec \subseteq KnownPackets(e)
  /\ e.placed \cup e.numbered \cup e.apps \subseteq Known(e)

(* checkServiceSanity aside, a FIG 0/14 finds the one component of its      *)
(* subchannel, as no stream shares one.                                     *)
LEMMA FecOfPackets ==
  ASSUME mux \in DOMAIN Multiplexes, NEW e, Grounded(e), NEW b
  PROVE  Fig00_14(e, b) \subseteq KnownPackets(e)
<1> SUFFICES ASSUME NEW x, On(e, {x}) \cap OnAir.packets # {}
             PROVE  (CHOOSE c \in On(e, {x}) : TRUE) \in KnownPackets(e)
  BY DEF Fig00_14
<1> DEFINE c == CHOOSE c \in On(e, {x}) : TRUE
<1>1. c \in On(e, {x})
  OBVIOUS
<1>2. PICK d \in On(e, {x}) : d \in OnAir.packets
  OBVIOUS
<1> HIDE DEF c
<1>3. OnAir.subchannel[c] = x /\ OnAir.subchannel[d] = x /\ c \in Known(e) /\ d \in Known(e)
  BY <1>1, <1>2 DEF On, KnownStreams, KnownPackets
<1>4. Known(e) \subseteq Components(OnAir)
  BY DEF Grounded, Known, Components
<1>5. \A s \in Streams(OnAir), o \in Components(OnAir) :
        s # o => OnAir.subchannel[s] # OnAir.subchannel[o]
  BY MuxFacts DEF Mux, OnAir
<1>6. CASE c \in OnAir.packets
  BY <1>3, <1>6 DEF KnownPackets, c
<1>7. CASE c \notin OnAir.packets
  BY <1>2, <1>3, <1>4, <1>5, <1>7 DEF Streams
<1> QED
  BY <1>6, <1>7

LEMMA ApplyKeeps ==
  ASSUME mux \in DOMAIN Multiplexes, NEW e, Grounded(e), NEW got,
         got["0/2"] \subseteq OnAir.services
  PROVE  Grounded(Apply(e, got)) /\ e.services \subseteq Apply(e, got).services
<1> DEFINE a == Apply(e, got)
<1>1. /\ a.services = e.services \cup got["0/2"]
      /\ a.located  = e.located \cup Fig00_03(e, got["0/3"])
      /\ a.placed   = e.placed \cup Fig00_01(e, got["0/1"])
      /\ a.numbered = e.numbered \cup Fig00_08(e, got["0/8"])
      /\ a.apps     = e.apps \cup Fig00_13(e, got["0/13"])
      /\ a.fec      = e.fec \cup Fig00_14(e, got["0/14"])
      /\ a.labelled = e.labelled \cup Fig01_01(e, got["1/1"])
  BY DEF Apply, Fig00_02
<1> HIDE DEF a
<1>2. Known(e) \subseteq Known(a) /\ KnownPackets(e) \subseteq KnownPackets(a)
  BY <1>1 DEF Known, KnownPackets
<1>3. Fig00_03(e, got["0/3"]) \subseteq KnownPackets(e)
  BY DEF Fig00_03
<1>4. Fig00_14(e, got["0/14"]) \subseteq KnownPackets(e)
  BY FecOfPackets
<1>5. /\ Fig00_01(e, got["0/1"]) \subseteq Known(e)
      /\ Fig00_08(e, got["0/8"]) \subseteq Known(e)
      /\ Fig00_13(e, got["0/13"]) \subseteq Known(e)
  BY DEF Fig00_01, Fig00_08, Fig00_13, On, KnownStreams, KnownPackets
<1>6. Fig01_01(e, got["1/1"]) \subseteq e.services
  BY DEF Fig01_01
<1>7. Grounded(a)
  BY <1>1, <1>2, <1>3, <1>4, <1>5, <1>6 DEF Grounded
<1> QED
  BY <1>1, <1>7 DEF a

-----------------------------------------------------------------------------
(* The parser and the collection.                                           *)
Callbacks == Types \cup {"done0", "done1"}

BookInv ==
  /\ seen \in [Types -> SUBSET Int]
  /\ \A t \in Types : seen[t] \subseteq DOMAIN OnAir.cycle[t]
  /\ callbacks \cup early \subseteq Callbacks
  /\ done \subseteq Types
  /\ Grounded(ensemble)
  /\ finished \in BOOLEAN

LEMMA RememberKeeps ==
  ASSUME BookInv, NEW f, f.type \in Types, f.index \in DOMAIN OnAir.cycle[f.type],
         mux \in DOMAIN Multiplexes, mux' = mux, Remember(f)
  PROVE  /\ seen' \in [Types -> SUBSET Int]
         /\ \A t \in Types :
              /\ seen'[t] = IF t = f.type /\ t \in Remembered THEN seen[t] \cup {f.index} ELSE seen[t]
              /\ seen'[t] \subseteq DOMAIN OnAir.cycle[t]
<1>1. f.index \in Int
  BY MuxFacts DEF Mux, OnAir
<1>2. CASE f.type \in Remembered
  BY <1>1, <1>2 DEF Remember, BookInv
<1>3. CASE f.type \notin Remembered
  BY <1>1, <1>3 DEF Remember, BookInv
<1> QED
  BY <1>2, <1>3

LEMMA DispatchKeeps ==
  ASSUME mux \in DOMAIN Multiplexes, BookInv, NEW f, f.type \in Types,
         f.index \in DOMAIN OnAir.cycle[f.type]
  PROVE  Grounded(Dispatched(f)) /\ ensemble.services \subseteq Dispatched(f).services
<1> DEFINE got == [t \in Types |->
                     IF t = f.type /\ t \in callbacks THEN OnAir.cycle[t][f.index] ELSE {}]
<1>1. got["0/2"] \subseteq Described(OnAir, "0/2")
  BY DEF Described, Types, RateA
<1>2. got["0/2"] \subseteq OnAir.services
  BY <1>1, MuxFacts DEF Mux, OnAir
<1> HIDE DEF got
<1> QED
  BY <1>2, ApplyKeeps DEF BookInv, Dispatched, got

LEMMA ParseKeeps ==
  ASSUME BookInv, NEW f, f.type \in Types, f.index \in DOMAIN OnAir.cycle[f.type],
         mux \in DOMAIN Multiplexes, mux' = mux, Parse(f)
  PROVE  BookInv'
<1>1. OnAir' = OnAir /\ Grounded(ensemble') = Grounded(ensemble)'
  BY DEF OnAir, Grounded, KnownPackets, Known
<1>2. CASE ParseFig(f)
  <2>1. seen' \in [Types -> SUBSET Int] /\ \A t \in Types : seen'[t] \subseteq DOMAIN OnAir'.cycle[t]
    BY <1>1, <1>2, RememberKeeps DEF ParseFig
  <2> QED
    BY <1>1, <1>2, <2>1, DispatchKeeps DEF ParseFig, book, BookInv
<1>3. CASE ParseRepeated(f)
  <2> DEFINE dispatched == Dispatched(f)
             registered == Registers(f.type, dispatched)
             replayed == [u \in Types |-> IF u \in registered THEN Replay(u) ELSE {}]
  <2>1. registered \subseteq Callbacks /\ Marks(f.type, dispatched) \subseteq Types
    BY DEF Registers, Marks, Callbacks, Types, RateA, RateB
  <2>2. replayed["0/2"] \subseteq OnAir.services
    BY MuxFacts DEF Mux, OnAir, Types, RateA, Replay, Described, BookInv
  <2>3. Grounded(dispatched)
    BY DispatchKeeps
  <2> HIDE DEF dispatched, registered, replayed
  <2>4. Grounded(Apply(dispatched, replayed))
    BY <2>2, <2>3, ApplyKeeps
  <2>5. ensemble' \in {dispatched, Apply(dispatched, replayed)}
    BY <1>3 DEF ParseRepeated, dispatched, registered, replayed
  <2>6. seen' = seen /\ done' = done \cup Marks(f.type, dispatched)
    BY <1>3 DEF ParseRepeated, dispatched
  <2>7. callbacks' \cup early' \subseteq callbacks \cup early \cup registered
    BY <1>3 DEF ParseRepeated, Kept, dispatched, registered
  <2>8. finished' \in BOOLEAN
    BY <1>3 DEF ParseRepeated, BookInv
  <2>9. Grounded(ensemble')
    BY <2>3, <2>4, <2>5
  <2> QED
    BY <1>1, <2>1, <2>6, <2>7, <2>8, <2>9 DEF BookInv
<1> QED
  BY <1>2, <1>3 DEF Parse

-----------------------------------------------------------------------------
(* The old parser's thread goes on in a reset only.                         *)
AtFibInv == atFib \in BOOLEAN /\ (atFib => tuner = "joins")

FicInv ==
  /\ AirInv /\ BookInv /\ AtFibInv
  /\ lost \in 0..MaxLost /\ tunes \in 0..MaxTunes
  /\ tuner \in {"runs", "joins"}

LEMMA FicInvIsType == FicInv => TypeOK
BY DEF FicInv, AirInv, BookInv, AtFibInv, Grounded, Callbacks, TypeOK, OnAir

LEMMA EmptyIsGrounded == Grounded(Empty)
BY DEF Grounded, Empty, KnownPackets, Known

LEMMA InitEstablishes == Init => FicInv
<1> SUFFICES ASSUME Init PROVE FicInv
  OBVIOUS
<1>1. \A t \in Types : Share(mux, t, 0) \in 0..Length(mux, t) /\ Length(mux, t) \in Nat
  BY ShareFits, MuxFacts DEF Init
<1>2. AirInv
  BY <1>1, MultiplexAssumption DEF Init, AirInv, MultiplexAssumption
<1>3. BookInv
  BY EmptyIsGrounded DEF Init, BookInv, Callbacks, Types, RateA
<1>4. AtFibInv
  BY DEF Init, AtFibInv
<1> QED
  BY <1>2, <1>3, <1>4, MultiplexAssumption DEF Init, FicInv, MultiplexAssumption

(* The FIG sent is one of its type's cycle, and so is the one sent next.    *)
LEMMA FigOnAir ==
  ASSUME AirInv, NEW t \in Types, Length(mux, t) > 0
  PROVE  /\ Fig(t).type = t /\ Fig(t).index = next[t]
         /\ Fig(t).index \in DOMAIN OnAir.cycle[t]
BY MuxFacts DEF AirInv, Fig, Mux, OnAir

LEMMA BookUntouched ==
  ASSUME BookInv, UNCHANGED <<mux, seen, callbacks, early, done, ensemble>>, finished' \in BOOLEAN
  PROVE  BookInv'
BY DEF BookInv, Grounded, KnownPackets, Known, OnAir

(* The parser's thread at the FIG sent now.                                 *)
Handle(t) == Sent(t) /\ Parse(Fig(t))

LEMMA HandleKeeps ==
  ASSUME FicInv, NEW t \in Types, Handle(t)
  PROVE  AirInv' /\ BookInv'
<1>1. AirInv' /\ mux' = mux /\ next[t] \in 1..Length(mux, t)
  BY SentKeeps DEF Handle, FicInv
<1>2. Fig(t).type = t /\ Fig(t).index \in DOMAIN OnAir.cycle[t]
  BY <1>1, FigOnAir, MuxFacts DEF AirInv, FicInv
<1>3. BookInv'
  BY <1>1, <1>2, ParseKeeps DEF Handle, AirInv, FicInv
<1> QED
  BY <1>1, <1>3

LEMMA StepKeeps == FicInv /\ [Next]_vars => FicInv'
<1> SUFFICES ASSUME FicInv, [Next]_vars PROVE FicInv'
  OBVIOUS
<1> USE DEF FicInv
<1>1. ASSUME NEW t \in Types, Receive(t) PROVE FicInv'
  <2>1. AirInv' /\ BookInv'
    BY <1>1, HandleKeeps DEF Receive, Handle
  <2> QED
    BY <1>1, <2>1 DEF Receive, AtFibInv
<1>2. ASSUME NEW t \in Types, Lose(t) PROVE FicInv'
  <2>1. AirInv' /\ mux' = mux
    BY <1>2, SentKeeps DEF Lose
  <2>2. BookInv'
    BY <1>2, <2>1, BookUntouched DEF Lose, book, BookInv
  <2>3. lost' \in 0..MaxLost
    BY <1>2, MultiplexAssumption DEF Lose, MultiplexAssumption
  <2> QED
    BY <1>2, <2>1, <2>2, <2>3 DEF Lose, AtFibInv
<1>3. CASE ResetStart
  <2>1. AirInv' /\ BookInv'
    BY <1>3, BookUntouched DEF ResetStart, air, AirInv, Length
  <2> QED
    BY <1>3, <2>1, MultiplexAssumption DEF ResetStart, air, AtFibInv, MultiplexAssumption
<1>4. ASSUME NEW t \in Types, OldThread(t) PROVE FicInv'
  <2>1. AirInv' /\ BookInv'
    BY <1>4, HandleKeeps DEF OldThread, Handle
  <2> QED
    BY <1>4, <2>1 DEF OldThread, AtFibInv
<1>5. ASSUME NEW n \in DOMAIN Multiplexes, ResetEnd(n) PROVE FicInv'
  <2>1. AirInv'
    BY <1>5, StartKeeps DEF ResetEnd
  <2>2. Grounded(ensemble)'
    BY <1>5 DEF ResetEnd, Grounded, Empty, KnownPackets, Known
  <2>3. BookInv'
    BY <1>5, <2>2 DEF ResetEnd, BookInv, Callbacks, Types, RateA
  <2> QED
    BY <1>5, <2>1, <2>3 DEF ResetEnd, AtFibInv
<1>6. CASE UNCHANGED vars
  BY <1>6, BookUntouched DEF vars, air, book, AirInv, BookInv, AtFibInv, OnAir, Length
<1> QED
  BY <1>1, <1>2, <1>3, <1>4, <1>5, <1>6 DEF Next, SomeFig, OldThreadParses, ResetEnds

(* What the collection holds is of the multiplex on the air, nothing is     *)
(* collected of what is not known, and the parser remembers no FIG but the  *)
(* multiplex's: for all multiplexes, rates, losses and resets.              *)
THEOREM CollectsOnAir == Spec => []TypeOK
<1>1. Spec => []FicInv
  BY InitEstablishes, StepKeeps, PTL DEF Spec
<1> QED
  BY <1>1, FicInvIsType, PTL

-----------------------------------------------------------------------------
(* Without losses the FIGs seen of a type are an arc of its cycle, up to    *)
(* the one sent last, until they are the whole of it.                       *)
Whole(t) == seen[t] = DOMAIN OnAir.cycle[t]

Arc(from, n, L) == IF from < n THEN from..(n - 1) ELSE (from..L) \cup (1..(n - 1))

ArcInv(t) ==
  \/ seen[t] = {}
  \/ Whole(t)
  \/ \E from \in 1..Length(mux, t) : seen[t] = Arc(from, next[t], Length(mux, t))

CycleInv ==
  /\ lost = 0
  /\ tuner = "runs" /\ ~heard => \A t \in Types : seen[t] = {}
  /\ \A t \in Types \ Remembered : seen[t] = {}
  /\ \A t \in Types : ArcInv(t)

(* The services are those the FIGs 0/2 seen describe, as long as somebody   *)
(* waits for the ends of the cycles.                                        *)
ServicesInv ==
  "done0" \in callbacks =>
    /\ "0/2" \in callbacks
    /\ \A i \in seen["0/2"] : OnAir.cycle["0/2"][i] \subseteq ensemble.services

SeenInv == FicInv /\ CycleInv /\ ServicesInv /\ DoneMeansSeen

(* A FIG that repeats ends its cycle.                                       *)
LEMMA RepeatEnds ==
  ASSUME FicInv, NEW t \in Types, ArcInv(t), next[t] \in 1..Length(mux, t), next[t] \in seen[t]
  PROVE  Whole(t)
<1> DEFINE L == Length(mux, t)
           n == next[t]
<1>1. L \in Nat /\ DOMAIN OnAir.cycle[t] = 1..L /\ n \in 1..L
  BY MuxFacts DEF FicInv, AirInv, Mux, OnAir
<1> HIDE DEF L, n
<1>2. ASSUME NEW from \in 1..L, seen[t] = Arc(from, n, L) PROVE seen[t] = 1..L
  <2>1. n \in Arc(from, n, L)
    BY <1>2 DEF n
  <2>2. from = n
    <3>1. n \notin from..(n - 1) /\ n \notin 1..(n - 1)
      BY <1>1
    <3>2. n \in from..L /\ ~(from < n)
      BY <2>1, <3>1 DEF Arc
    <3> QED
      BY <1>1, <3>2
  <2>3. (n..L) \cup (1..(n - 1)) = 1..L
    BY <1>1
  <2>4. Arc(from, n, L) = (n..L) \cup (1..(n - 1))
    BY <1>1, <2>2 DEF Arc
  <2> QED
    BY <1>2, <2>3, <2>4
<1> QED
  BY <1>1, <1>2 DEF ArcInv, Whole, L, n

(* Another FIG lengthens the arc.                                           *)
LEMMA ArcGrows ==
  ASSUME NEW L \in Nat, NEW n \in 1..L, NEW from \in 1..L, from # n
  PROVE  Arc(from, n, L) \cup {n} = Arc(from, IF n = L THEN 1 ELSE n + 1, L)
         \/ Arc(from, n, L) \cup {n} = 1..L
BY DEF Arc

LEMMA ArcBegins ==
  ASSUME NEW L \in Nat, NEW n \in 1..L
  PROVE  {n} = Arc(n, IF n = L THEN 1 ELSE n + 1, L)
BY DEF Arc

-----------------------------------------------------------------------------
(* A FIG sent now, and the parser's thread at it.                           *)
SentNow(f) ==
  /\ f.type \in Types
  /\ f.index = next[f.type]
  /\ f.index \in 1..Length(mux, f.type)

LEMMA SentIsOnAir ==
  ASSUME FicInv, NEW f, SentNow(f)
  PROVE  mux \in DOMAIN Multiplexes /\ f.index \in DOMAIN OnAir.cycle[f.type]
BY MuxFacts DEF FicInv, AirInv, SentNow, Mux, OnAir

LEMMA ParseSees ==
  ASSUME FicInv, NEW f, SentNow(f), Parse(f), mux' = mux
  PROVE  \A t \in Types :
           /\ seen'[t] = IF t = f.type /\ t \in Remembered THEN seen[t] \cup {f.index} ELSE seen[t]
           /\ seen'[t] \subseteq DOMAIN OnAir.cycle[t]
<1>1. CASE ParseFig(f)
  BY <1>1, SentIsOnAir, RememberKeeps DEF ParseFig, SentNow, FicInv
<1>2. CASE ParseRepeated(f)
  BY <1>2 DEF ParseRepeated, Repeats, FicInv, BookInv
<1> QED
  BY <1>1, <1>2 DEF Parse

LEMMA DispatchAdds ==
  ASSUME NEW f, f.type = "0/2", "0/2" \in callbacks
  PROVE  OnAir.cycle["0/2"][f.index] \subseteq Dispatched(f).services
<1> DEFINE got == [t \in Types |->
                     IF t = f.type /\ t \in callbacks THEN OnAir.cycle[t][f.index] ELSE {}]
<1>1. got["0/2"] = OnAir.cycle["0/2"][f.index]
  BY DEF Types, RateA
<1> HIDE DEF got
<1>2. Dispatched(f) = Apply(ensemble, got)
  BY DEF Dispatched, got
<1> QED
  BY <1>1, <1>2 DEF Apply, Fig00_02

(* With the cycle of FIG 0/2 the services are all known.                    *)
LEMMA AllKnown ==
  ASSUME FicInv, ServicesInv, "done0" \in callbacks, Whole("0/2")
  PROVE  ensemble.services = OnAir.services
<1>1. OnAir.services = Described(OnAir, "0/2")
  BY MuxFacts DEF FicInv, AirInv, Mux, OnAir
<1>2. Described(OnAir, "0/2") \subseteq ensemble.services
  BY DEF Described, ServicesInv, Whole
<1> QED
  BY <1>1, <1>2 DEF FicInv, BookInv, Grounded

LEMMA NoPackets ==
  ASSUME FicInv, NEW e, e.services = OnAir.services
  PROVE  KnownPackets(e) = OnAir.packets
<1>1. OnAir.packets \subseteq Components(OnAir)
  BY MuxFacts DEF FicInv, AirInv, Mux, OnAir
<1> QED
  BY <1>1 DEF KnownPackets, Known, Components

LEMMA ParseRepeatedServices ==
  ASSUME FicInv, ServicesInv, NEW f, SentNow(f), ParseRepeated(f), mux' = mux
  PROVE  ServicesInv' /\ ensemble.services \subseteq ensemble'.services
<1> DEFINE dispatched == Dispatched(f)
           registered == Registers(f.type, dispatched)
           replayed == [u \in Types |-> IF u \in registered THEN Replay(u) ELSE {}]
<1>1. "done0" \notin registered /\ "0/2" \notin registered
  BY DEF Registers
<1>2. ensemble.services \subseteq dispatched.services
  BY SentIsOnAir, DispatchKeeps DEF FicInv, SentNow
<1> HIDE DEF dispatched, registered, replayed
<1>3. ensemble' \in {dispatched, Apply(dispatched, replayed)}
  BY DEF ParseRepeated, dispatched, registered, replayed
<1>4. dispatched.services \subseteq Apply(dispatched, replayed).services
  BY DEF Apply
<1>5. seen' = seen /\ callbacks' \in {{}, callbacks \cup registered, callbacks \ registered}
  BY DEF ParseRepeated, Kept, dispatched, registered
<1>6. OnAir' = OnAir
  BY DEF OnAir
<1> QED
  BY <1>1, <1>2, <1>3, <1>4, <1>5, <1>6 DEF ServicesInv

LEMMA ParseServices ==
  ASSUME FicInv, ServicesInv, NEW f, SentNow(f), Parse(f), mux' = mux
  PROVE  ServicesInv'
<1>1. CASE ParseFig(f)
  <2>1. ensemble.services \subseteq ensemble'.services /\ callbacks' = callbacks /\ OnAir' = OnAir
    BY <1>1, SentIsOnAir, DispatchKeeps DEF ParseFig, FicInv, SentNow, book, OnAir
  <2>2. ASSUME NEW i \in seen'["0/2"], "0/2" \in callbacks, i \notin seen["0/2"]
        PROVE  OnAir.cycle["0/2"][i] \subseteq ensemble'.services
    <3> DEFINE t == "0/2"
    <3>1. seen'[t] = IF t = f.type /\ t \in Remembered THEN seen[t] \cup {f.index} ELSE seen[t]
      <4>1. t \in Types
        BY DEF Types, RateA
      <4> HIDE DEF t
      <4> QED
        BY <4>1, ParseSees
    <3>2. f.type = "0/2" /\ i = f.index
      BY <2>2, <3>1
    <3> QED
      BY <1>1, <2>2, <3>2, DispatchAdds DEF ParseFig
  <2> QED
    BY <2>1, <2>2 DEF ServicesInv
<1>2. CASE ParseRepeated(f)
  BY <1>2, ParseRepeatedServices
<1> QED
  BY <1>1, <1>2 DEF Parse

(* A type is marked when its cycle ends; that there are no packet           *)
(* components is known then, as all services are.                           *)
LEMMA ParseMarks ==
  ASSUME SeenInv, NEW f, SentNow(f), ArcInv(f.type), Parse(f), mux' = mux
  PROVE  DoneMeansSeen'
<1>1. \A t \in Types : seen[t] \subseteq seen'[t] /\ seen'[t] \subseteq DOMAIN OnAir.cycle[t]
  BY ParseSees DEF SeenInv
<1>2. OnAir' = OnAir
  BY DEF OnAir
<1>3. ASSUME NEW t \in done
      PROVE  \/ seen'[t] = DOMAIN OnAir.cycle[t]
             \/ t \in {"0/3", "0/13", "0/14"} /\ OnAir.packets = {}
  <2>1. t \in Types
    BY DEF SeenInv, FicInv, BookInv
  <2>2. seen[t] = DOMAIN OnAir.cycle[t] => seen'[t] = DOMAIN OnAir.cycle[t]
    BY <1>1, <2>1
  <2> QED
    BY <2>2 DEF SeenInv, DoneMeansSeen
<1>4. CASE ParseFig(f)
  BY <1>2, <1>3, <1>4 DEF ParseFig, book, DoneMeansSeen
<1>5. CASE ParseRepeated(f)
  <2>1. Whole(f.type)
    <3>1. /\ f.type \in Types /\ next[f.type] \in 1..Length(mux, f.type)
          /\ next[f.type] \in seen[f.type]
      BY <1>5 DEF ParseRepeated, Repeats, SentNow
    <3> QED
      BY <3>1, RepeatEnds DEF SeenInv
  <2>2. done' = done \cup Marks(f.type, Dispatched(f)) /\ seen' = seen
    BY <1>5 DEF ParseRepeated
  <2>3. \/ Marks(f.type, Dispatched(f)) \subseteq {f.type}
        \/ /\ f.type = "0/2" /\ KnownPackets(Dispatched(f)) = {}
           /\ Marks(f.type, Dispatched(f)) = {"0/2", "0/3", "0/13", "0/14"}
    BY DEF Marks
  <2>4. ASSUME f.type = "0/2", KnownPackets(Dispatched(f)) = {} PROVE OnAir.packets = {}
    <3>1. ensemble.services = OnAir.services
      BY <1>5, <2>1, <2>4, AllKnown DEF ParseRepeated, DoneCallback, SeenInv
    <3>2. Dispatched(f).services = OnAir.services
      <4>1. Grounded(Dispatched(f)) /\ ensemble.services \subseteq Dispatched(f).services
        BY SentIsOnAir, DispatchKeeps DEF SeenInv, FicInv, SentNow
      <4> QED
        BY <3>1, <4>1 DEF Grounded
    <3> QED
      BY <2>4, <3>2, NoPackets DEF SeenInv
  <2> QED
    BY <1>2, <1>3, <2>1, <2>2, <2>3, <2>4 DEF DoneMeansSeen, Whole
<1> QED
  BY <1>4, <1>5 DEF Parse

-----------------------------------------------------------------------------
(* The FIG just received lengthens the arc of its type, or ends its cycle.  *)
LEMMA HandleArcs ==
  ASSUME FicInv, NEW t \in Types, Handle(t), ArcInv(t),
         t \notin Remembered => seen[t] = {}
  PROVE  ArcInv(t)'
<1> DEFINE L == Length(mux, t)
           n == next[t]
<1>1. /\ L \in Nat /\ DOMAIN OnAir.cycle[t] = 1..L /\ n \in 1..L
      /\ Length(mux, t)' = L /\ OnAir' = OnAir /\ next'[t] = IF n = L THEN 1 ELSE n + 1
  BY SentKeeps, MuxFacts DEF Handle, FicInv, AirInv, Mux, OnAir, Length
<1>2. SentNow(Fig(t)) /\ Fig(t).type = t /\ Fig(t).index = n /\ Parse(Fig(t)) /\ mux' = mux
  BY <1>1, SentKeeps DEF SentNow, Fig, Handle, FicInv
<1>3. seen'[t] = IF t \in Remembered THEN seen[t] \cup {n} ELSE seen[t]
  BY <1>2, ParseSees
<1>4. CASE t \notin Remembered
  BY <1>3, <1>4 DEF ArcInv
<1>5. CASE n \in seen[t] \/ Whole(t)
  <2>1. Whole(t)
    BY <1>1, <1>5, RepeatEnds
  <2> QED
    BY <1>1, <1>3, <2>1 DEF Whole, ArcInv
<1>6. CASE t \in Remembered /\ n \notin seen[t] /\ seen[t] = {}
  <2>1. seen'[t] = Arc(n, next'[t], L)
    BY <1>1, <1>3, <1>6, ArcBegins, ZenonT(60)
  <2> QED
    BY <1>1, <2>1 DEF ArcInv
<1>7. ASSUME t \in Remembered, n \notin seen[t], NEW from \in 1..L, seen[t] = Arc(from, n, L)
      PROVE  ArcInv(t)'
  <2>1. from # n
    BY <1>1, <1>7 DEF Arc
  <2>2. seen'[t] = Arc(from, next'[t], L) \/ seen'[t] = 1..L
    BY <1>1, <1>3, <1>7, <2>1, ArcGrows
  <2> QED
    BY <1>1, <2>2 DEF ArcInv, Whole
<1> HIDE DEF L, n
<1> QED
  BY <1>4, <1>5, <1>6, <1>7 DEF ArcInv, L, n

LEMMA SeenUntouched ==
  ASSUME SeenInv, UNCHANGED <<mux, seen, callbacks, done, ensemble>>
  PROVE  ServicesInv' /\ DoneMeansSeen'
BY DEF SeenInv, ServicesInv, DoneMeansSeen, OnAir

(* The arcs, the services and the marks behind a FIG.                       *)
LEMMA HandleSeen ==
  ASSUME SeenInv, NEW t \in Types, Handle(t)
  PROVE  /\ \A u \in Types : ArcInv(u)'
         /\ \A u \in Types \ Remembered : seen'[u] = {}
         /\ ServicesInv' /\ DoneMeansSeen'
<1>1. FicInv /\ Parse(Fig(t))
  BY DEF SeenInv, Handle
<1>2. /\ mux' = mux /\ next[t] \in 1..Length(mux, t)
      /\ \A u \in Types : u # t => next'[u] = next[u]
  BY <1>1, SentKeeps DEF Handle, FicInv, AirInv
<1>3. SentNow(Fig(t)) /\ Fig(t).type = t /\ Fig(t).index = next[t]
  BY <1>2 DEF SentNow, Fig
<1>4. ArcInv(t)' /\ ArcInv(t)
  BY <1>1, HandleArcs DEF SeenInv, CycleInv
<1>5. ASSUME NEW u \in Types, u # t PROVE ArcInv(u)'
  <2>1. seen'[u] = seen[u] /\ next'[u] = next[u] /\ Length(mux, u)' = Length(mux, u) /\ OnAir' = OnAir
    BY <1>1, <1>2, <1>3, <1>5, ParseSees DEF Length, OnAir
  <2>2. ArcInv(u)
    BY DEF SeenInv, CycleInv
  <2> QED
    BY <2>1, <2>2 DEF ArcInv, Whole
<1>6. \A u \in Types \ Remembered : seen'[u] = {}
  BY <1>1, <1>2, <1>3, ParseSees DEF SeenInv, CycleInv
<1>7. ServicesInv' /\ DoneMeansSeen'
  BY <1>1, <1>2, <1>3, <1>4, ParseServices, ParseMarks DEF SeenInv
<1> QED
  BY <1>4, <1>5, <1>6, <1>7

LEMMA SeenKeeps == MaxLost = 0 /\ SeenInv /\ [Next]_vars => SeenInv'
<1> SUFFICES ASSUME MaxLost = 0, SeenInv, [Next]_vars PROVE SeenInv'
  OBVIOUS
<1>1. FicInv /\ FicInv'
  BY StepKeeps DEF SeenInv
<1>2. ASSUME NEW t \in Types, Receive(t) PROVE SeenInv'
  <2>1. tuner' = "runs" /\ heard' /\ lost' = lost /\ Handle(t)
    BY <1>2 DEF Receive, Handle
  <2> QED
    BY <1>1, <2>1, HandleSeen DEF SeenInv, CycleInv
<1>3. ASSUME NEW t \in Types, Lose(t) PROVE SeenInv'
  <2>1. ~heard /\ tuner = "runs" /\ UNCHANGED <<lost, heard, seen, callbacks, done, ensemble>>
    BY <1>3 DEF Lose, book, SeenInv, CycleInv
  <2>2. mux' = mux
    BY <1>1, <1>3, SentKeeps DEF Lose, FicInv
  <2>3. CycleInv'
    BY <2>1 DEF SeenInv, CycleInv, ArcInv
  <2> QED
    BY <1>1, <2>1, <2>2, <2>3, SeenUntouched DEF SeenInv
<1>4. CASE ResetStart
  <2>1. tuner = "runs" /\ tuner' = "joins"
        /\ UNCHANGED <<mux, next, lost, heard, seen, callbacks, done, ensemble>>
    BY <1>4 DEF ResetStart, air
  <2>2. CycleInv'
    BY <2>1 DEF SeenInv, CycleInv, ArcInv, Whole, OnAir, Length
  <2> QED
    BY <1>1, <2>1, <2>2, SeenUntouched DEF SeenInv
<1>5. ASSUME NEW t \in Types, OldThread(t) PROVE SeenInv'
  <2>1. tuner' # "runs" /\ lost' = lost /\ Handle(t)
    BY <1>1, <1>5 DEF OldThread, Handle, FicInv, AtFibInv
  <2> QED
    BY <1>1, <2>1, HandleSeen DEF SeenInv, CycleInv
<1>6. ASSUME NEW n \in DOMAIN Multiplexes, ResetEnd(n) PROVE SeenInv'
  <2>1. CycleInv'
    BY <1>6 DEF ResetEnd, SeenInv, CycleInv, ArcInv
  <2>2. "0/2" \in callbacks' /\ seen'["0/2"] = {} /\ done' = {}
    BY <1>6 DEF ResetEnd, Types, RateA
  <2> QED
    BY <1>1, <2>1, <2>2 DEF SeenInv, ServicesInv, DoneMeansSeen
<1>7. CASE UNCHANGED vars
  <2>1. CycleInv'
    BY <1>7 DEF vars, air, book, SeenInv, CycleInv, ArcInv, Whole, OnAir, Length
  <2> QED
    BY <1>1, <1>7, <2>1, SeenUntouched DEF vars, air, book, SeenInv
<1> QED
  BY <1>2, <1>3, <1>4, <1>5, <1>6, <1>7 DEF Next, SomeFig, OldThreadParses, ResetEnds

LEMMA InitSees == Init => SeenInv
<1> SUFFICES ASSUME Init PROVE SeenInv
  OBVIOUS
<1>1. CycleInv
  BY DEF Init, CycleInv, ArcInv
<1>2. "0/2" \in callbacks /\ seen["0/2"] = {} /\ done = {}
  BY DEF Init, Types, RateA
<1> QED
  BY <1>1, <1>2, InitEstablishes DEF SeenInv, ServicesInv, DoneMeansSeen

(* Without losses a type is done only when its whole cycle was seen, or     *)
(* there is nothing of its kind in the multiplex: for all multiplexes and   *)
(* rates, wherever reception begins, also in the middle of a reset.         *)
THEOREM DoneIsWhole == MaxLost = 0 => (Spec => []DoneMeansSeen)
<1> SUFFICES ASSUME MaxLost = 0 PROVE Spec => []DoneMeansSeen
  OBVIOUS
<1>1. SeenInv /\ [Next]_vars => SeenInv'
  BY SeenKeeps
<1>2. SeenInv => DoneMeansSeen
  BY DEF SeenInv
<1>3. Spec => []SeenInv
  BY InitSees, <1>1, PTL DEF Spec
<1> QED
  BY <1>2, <1>3, PTL

-----------------------------------------------------------------------------
(* What ToldComplete asks of a multiplex: it has an audio component, its     *)
(* labels are those of its services, and user applications are of           *)
(* components that FIG 0/8 numbers.                                         *)
WellDescribed ==
  \A n \in DOMAIN Multiplexes :
    LET m == Multiplexes[n]
    IN  /\ Streams(m) # {}
        /\ Described(m, "1/1") \subseteq m.services
        /\ m.packets # {} =>
             Described(m, "0/13") \subseteq Described(m, "0/8") \cap Components(m)

(* Rate A is sent as a whole in every frame, rate B in the first of Slow.   *)
FrameInv ==
  /\ \A t \in RateA : next[t] = IF due[t] = 0 THEN 1 ELSE Length(mux, t) - due[t] + 1
  /\ \A t \in RateB : due[t] > 0 => frame = 0 /\ due[t] = 1

SeenThisFrame(t) == 1..(Length(mux, t) - due[t]) \subseteq seen[t]

(* Somebody waits for the end of the collection.                            *)
Collecting == "done0" \in callbacks

LastCallbacks == {"0/13", "1/1"}

(* After the first FIG 0/8 there is a frame with all of the FIGs 0/2 before *)
(* the second.                                                              *)
FirstOf(i, t) == seen[t] = {i} /\ seen[t] = Arc(i, next[t], Length(mux, t))
OutrunInv ==
  tuner = "runs" =>
    \/ seen["0/8"] = {}
    \/ Whole("0/2")
    \/ /\ \E i \in DOMAIN OnAir.cycle["0/8"] : FirstOf(i, "0/8")
       /\ \/ frame = 0 /\ due["0/8"] = 0
          \/ frame = 1 /\ SeenThisFrame("0/2")

(* Whoever is numbered in a FIG 0/8 seen is known to be, but for those in   *)
(* the first one, which may have come before the services.                  *)
Numbered(i) == OnAir.cycle["0/8"][i] \cap Components(OnAir) \subseteq ensemble.numbered
NumberedInv ==
  tuner = "runs" /\ "done0" \in callbacks /\ "0/8" \in callbacks =>
    \/ \A i \in seen["0/8"] : Numbered(i)
    \/ \E from \in DOMAIN OnAir.cycle["0/8"] :
         /\ seen["0/8"] = Arc(from, next["0/8"], Length(mux, "0/8"))
         /\ \A i \in seen["0/8"] \ {from} : Numbered(i)

(* Behind the cycle of FIG 0/8, nothing seen of labels and applications is   *)
(* missing.                                                                *)
LastStage(e) ==
  /\ e.services = OnAir.services
  /\ \A i \in seen["0/8"] : OnAir.cycle["0/8"][i] \cap Components(OnAir) \subseteq e.numbered
  /\ \A i \in seen["1/1"] : OnAir.cycle["1/1"][i] \subseteq e.labelled
  /\ OnAir.packets # {} => \A i \in seen["0/13"] : OnAir.cycle["0/13"][i] \subseteq e.apps

StageInv ==
  Collecting =>
    /\ tuner = "runs" /\ "0/1" \in done => "0/8" \in callbacks
    /\ tuner = "runs" /\ "0/8" \in done => LastCallbacks \subseteq callbacks
    /\ "0/8" \in done /\ LastCallbacks \subseteq callbacks =>
         Whole("0/8") /\ LastStage(ensemble)

(* Nothing is collected that is not told. *)
HeardOf(e) ==
  /\ e.labelled \subseteq Described(OnAir, "1/1")
  /\ e.apps \subseteq Described(OnAir, "0/13")

(* Before the first reset ends, the last stage begins with FIG 0/8, and a    *)
(* reset takes nothing from it that has begun.                              *)
LastBegun ==
  "done1" \in callbacks \/ "1/1" \in done =>
    /\ "0/8" \in done
    /\ Collecting => LastCallbacks \subseteq callbacks

FirstLife ==
  /\ tuner = "joins" => tunes # 0
  /\ MaxTunes <= 1 /\ (tunes = 0 \/ tuner = "joins") => LastBegun

ToldInv ==
  /\ FrameInv /\ OutrunInv /\ NumberedInv /\ StageInv /\ HeardOf(ensemble) /\ FirstLife

-----------------------------------------------------------------------------
(* What the handlers add.                                                   *)
LEMMA ApplyFields ==
  ASSUME NEW e, NEW got
  PROVE  /\ Apply(e, got).services = e.services \cup got["0/2"]
         /\ Apply(e, got).numbered = e.numbered \cup Fig00_08(e, got["0/8"])
         /\ Apply(e, got).apps     = e.apps     \cup Fig00_13(e, got["0/13"])
         /\ Apply(e, got).labelled = e.labelled \cup Fig01_01(e, got["1/1"])
BY DEF Apply, Fig00_02

Larger(e, d) ==
  /\ e.services \subseteq d.services /\ e.numbered \subseteq d.numbered
  /\ e.apps \subseteq d.apps /\ e.labelled \subseteq d.labelled

Given(f, t) == IF t = f.type /\ t \in callbacks THEN OnAir.cycle[t][f.index] ELSE {}

LEMMA DispatchedFields ==
  ASSUME NEW f
  PROVE  /\ Larger(ensemble, Dispatched(f))
         /\ Dispatched(f).services = ensemble.services \cup Given(f, "0/2")
         /\ Dispatched(f).numbered = ensemble.numbered \cup Fig00_08(ensemble, Given(f, "0/8"))
         /\ Dispatched(f).apps = ensemble.apps \cup Fig00_13(ensemble, Given(f, "0/13"))
         /\ Dispatched(f).labelled = ensemble.labelled \cup Fig01_01(ensemble, Given(f, "1/1"))
<1> DEFINE got == [t \in Types |->
                     IF t = f.type /\ t \in callbacks THEN OnAir.cycle[t][f.index] ELSE {}]
<1>1. /\ got["0/2"] = Given(f, "0/2") /\ got["0/8"] = Given(f, "0/8")
      /\ got["0/13"] = Given(f, "0/13") /\ got["1/1"] = Given(f, "1/1")
  BY DEF Given, Types, RateA, RateB
<1> HIDE DEF got
<1>2. Dispatched(f) = Apply(ensemble, got)
  BY DEF Dispatched, got
<1> QED
  BY <1>1, <1>2, ApplyFields DEF Larger

Replayed(types) == [u \in Types |-> IF u \in types THEN Replay(u) ELSE {}]

LEMMA ReplayedFields ==
  ASSUME NEW types
  PROVE  /\ Replayed(types)["0/2"] = IF "0/2" \in types THEN Replay("0/2") ELSE {}
         /\ Replayed(types)["0/8"] = IF "0/8" \in types THEN Replay("0/8") ELSE {}
         /\ Replayed(types)["0/13"] = IF "0/13" \in types THEN Replay("0/13") ELSE {}
         /\ Replayed(types)["1/1"] = IF "1/1" \in types THEN Replay("1/1") ELSE {}
BY DEF Replayed, Types, RateA, RateB

(* What a repeated FIG does, without the end of the collection.              *)
LEMMA RepeatedFacts ==
  ASSUME NEW f, ParseRepeated(f)
  PROVE  LET registered == Registers(f.type, Dispatched(f))
         IN  /\ "done0" \in callbacks \/ "done1" \in callbacks
             /\ f.index \in seen[f.type] /\ seen' = seen
             /\ done' = done \cup Marks(f.type, Dispatched(f))
             /\ ensemble' = IF tuner = "runs" /\ registered # {}
                            THEN Apply(Dispatched(f), Replayed(registered)) ELSE Dispatched(f)
             /\ \/ callbacks' = {}
                \/ tuner = "runs" /\ callbacks' = callbacks \cup registered
                \/ tuner # "runs" /\ callbacks' = callbacks \ registered
             /\ "done0" \in callbacks' => told' = told
             /\ told' # told => /\ told' = told + 1 /\ "done0" \in callbacks
                                /\ Needed \subseteq done' /\ Sane(ensemble')
                                /\ DoneCallback(f.type) = "done0"
BY DEF ParseRepeated, Repeats, Replayed, Kept, DoneCallback

LEMMA ParseGrows ==
  ASSUME NEW f, Parse(f)
  PROVE  Larger(ensemble, ensemble') /\ Larger(Dispatched(f), ensemble')
<1>1. Larger(ensemble, Dispatched(f))
  BY DispatchedFields
<1>2. CASE ParseFig(f)
  BY <1>1, <1>2 DEF ParseFig, Larger
<1>3. CASE ParseRepeated(f)
  <2> DEFINE registered == Registers(f.type, Dispatched(f))
             d == Dispatched(f)
  <2>1. ensemble' = d \/ ensemble' = Apply(d, Replayed(registered))
    BY <1>3, RepeatedFacts
  <2> HIDE DEF d, registered
  <2>2. Larger(d, Apply(d, Replayed(registered)))
    BY ApplyFields DEF Larger
  <2>3. Larger(d, ensemble')
    BY <2>1, <2>2 DEF Larger
  <2> QED
    BY <1>1, <2>3 DEF Larger, d
<1> QED
  BY <1>2, <1>3 DEF Parse

LEMMA KnowsAll ==
  ASSUME WellDescribed, FicInv, NEW e, e.services = OnAir.services
  PROVE  /\ Known(e) = Components(OnAir) /\ KnownStreams(e) # {}
         /\ \A b : Fig00_08(e, b) = b \cap Components(OnAir)
<1>1. Known(e) = Components(OnAir)
  BY DEF Known, Components
<1>2. Streams(OnAir) # {}
  BY DEF WellDescribed, OnAir, FicInv, AirInv
<1>3. KnownStreams(e) = Streams(OnAir)
  BY <1>1 DEF KnownStreams, Streams
<1> QED
  BY <1>1, <1>2, <1>3 DEF Fig00_08

LEMMA ServicesKnown ==
  ASSUME SeenInv, "done0" \in callbacks, Whole("0/2"), NEW f, SentNow(f)
  PROVE  ensemble.services = OnAir.services /\ Dispatched(f).services = OnAir.services
<1>1. ensemble.services = OnAir.services
  BY AllKnown DEF SeenInv
<1>2. Grounded(Dispatched(f)) /\ ensemble.services \subseteq Dispatched(f).services
  BY SentIsOnAir, DispatchKeeps DEF SeenInv, FicInv, SentNow
<1> QED
  BY <1>1, <1>2 DEF Grounded

LEMMA ServicesStay ==
  ASSUME SeenInv, NEW f, SentNow(f), Parse(f), mux' = mux, ensemble.services = OnAir.services
  PROVE  ensemble'.services = OnAir.services /\ Dispatched(f).services = OnAir.services
<1>1. BookInv'
  BY SentIsOnAir, ParseKeeps DEF SeenInv, FicInv, SentNow
<1>2. OnAir' = OnAir
  BY DEF OnAir
<1>3. ensemble'.services \subseteq OnAir.services
  BY <1>1, <1>2 DEF BookInv, Grounded
<1> QED
  BY <1>3, ParseGrows, DispatchedFields DEF Larger

-----------------------------------------------------------------------------
(* The collection says nothing that was not told.                           *)
LEMMA HeardOfApplied ==
  ASSUME NEW e, HeardOf(e), NEW got, got["0/13"] \subseteq Described(OnAir, "0/13"),
         got["1/1"] \subseteq Described(OnAir, "1/1")
  PROVE  HeardOf(Apply(e, got))
BY ApplyFields DEF HeardOf, Fig00_13, Fig01_01

LEMMA ParseHeardOf ==
  ASSUME SeenInv, HeardOf(ensemble), NEW f, SentNow(f), Parse(f), mux' = mux
  PROVE  HeardOf(ensemble)'
<1> DEFINE d == Dispatched(f)
           registered == Registers(f.type, d)
<1>1. f.index \in DOMAIN OnAir.cycle[f.type]
  BY SentIsOnAir DEF SeenInv
<1>2. \A t \in {"0/13", "1/1"} : Given(f, t) \subseteq Described(OnAir, t)
  BY <1>1 DEF Given, Described
<1>3. HeardOf(d)
  BY <1>2, DispatchedFields DEF HeardOf, Fig00_13, Fig01_01
<1>4. \A t \in {"0/13", "1/1"} : Replay(t) \subseteq Described(OnAir, t)
  BY DEF SeenInv, FicInv, BookInv, Replay, Described, Types, RateA, RateB
<1> HIDE DEF d, registered
<1>5. HeardOf(Apply(d, Replayed(registered)))
  BY <1>3, <1>4, HeardOfApplied, ReplayedFields
<1>6. ensemble' \in {d, Apply(d, Replayed(registered))}
  <2>1. CASE ParseFig(f)
    BY <2>1 DEF ParseFig, d
  <2>2. CASE ParseRepeated(f)
    BY <2>2, RepeatedFacts DEF d, registered
  <2> QED
    BY <2>1, <2>2 DEF Parse
<1>7. HeardOf(ensemble')
  BY <1>3, <1>5, <1>6
<1>8. OnAir' = OnAir
  BY DEF OnAir
<1> QED
  BY <1>7, <1>8 DEF HeardOf

-----------------------------------------------------------------------------
(* The transmitter's frames.                                                *)
LEMMA RatesDiffer == RateA \cup RateB = Types /\ RateA \cap RateB = {} /\ "0/2" \in RateA
                     /\ "0/8" \in RateB /\ "0/8" \in Remembered /\ "0/2" \in Remembered
BY DEF RateA, RateB, Types, Remembered

(* Within a frame, and from one to the next.                                *)
LEMMA SentInFrame ==
  ASSUME FicInv, NEW t \in Types, Sent(t)
  PROVE  /\ due[t] > 0
         /\ \/ frame' = frame /\ due' = [due EXCEPT ![t] = @ - 1]
            \/ /\ \A u \in Types : due[u] = IF u = t THEN 1 ELSE 0
               /\ frame' = (frame + 1) % Slow
               /\ due' = [u \in Types |-> Share(mux, u, frame')]
<1> DEFINE left == [due EXCEPT ![t] = @ - 1]
<1>1. CASE \A u \in Types : left[u] = 0
  BY <1>1 DEF Sent, Left, LastOfFrame, FicInv, AirInv
<1>2. CASE ~\A u \in Types : left[u] = 0
  BY <1>2 DEF Sent, Left, LastOfFrame
<1> QED
  BY <1>1, <1>2 DEF Sent

LEMMA StartFrames ==
  ASSUME NEW n \in DOMAIN Multiplexes, next' = [t \in Types |-> 1], frame' = 0, mux' = n,
         due' = [t \in Types |-> Share(n, t, 0)]
  PROVE  FrameInv'
<1>1. \A t \in Types : Length(n, t) \in Nat /\ Length(mux', t) = Length(n, t)
  BY MuxFacts
<1>2. \A t \in RateA : due'[t] = Length(n, t) /\ next'[t] = 1
  BY RatesDiffer DEF Share
<1>3. \A t \in RateB : due'[t] \in {0, 1}
  BY RatesDiffer DEF Share
<1>4. \A t \in RateA : next'[t] = IF due'[t] = 0 THEN 1 ELSE Length(n, t) - due'[t] + 1
  BY <1>1, <1>2, RatesDiffer
<1>5. \A t \in RateB : due'[t] > 0 => frame' = 0 /\ due'[t] = 1
  BY <1>3
<1>6. \A t \in RateA : Length(mux, t)' = Length(n, t)
  BY <1>1, RatesDiffer DEF Length
<1> QED
  BY <1>4, <1>5, <1>6 DEF FrameInv

LEMMA SentFrames ==
  ASSUME FicInv, FrameInv, NEW t \in Types, Sent(t)
  PROVE  FrameInv'
<1>1. /\ mux' = mux /\ next[t] \in 1..Length(mux, t)
      /\ next' = [next EXCEPT ![t] = IF @ = Length(mux, t) THEN 1 ELSE @ + 1]
  BY SentKeeps DEF FicInv
<1>2. \A u \in Types : Length(mux, u)' = Length(mux, u) /\ Length(mux, u) \in Nat
  BY <1>1, MuxFacts DEF Length, FicInv, AirInv
<1>3. /\ next \in [Types -> Int] /\ due \in [Types -> Int] /\ frame \in Int
      /\ \A u \in Types : due[u] \in 0..Length(mux, u)
  BY MultiplexAssumption DEF FicInv, AirInv, MultiplexAssumption
<1>4. CASE frame' = frame /\ due' = [due EXCEPT ![t] = @ - 1]
  <2>1. ASSUME NEW u \in RateA
        PROVE  next'[u] = IF due'[u] = 0 THEN 1 ELSE Length(mux, u) - due'[u] + 1
    <3>1. u \in Types /\ next[u] = IF due[u] = 0 THEN 1 ELSE Length(mux, u) - due[u] + 1
      BY RatesDiffer DEF FrameInv
    <3>2. CASE u # t
      BY <1>1, <1>3, <1>4, <3>1, <3>2
    <3>3. CASE u = t
      <4>1. due[t] > 0 /\ due'[t] = due[t] - 1
        BY <1>3, <1>4, SentInFrame
      <4>2. next'[t] = IF next[t] = Length(mux, t) THEN 1 ELSE next[t] + 1
        BY <1>1, <1>3
      <4> QED
        BY <1>2, <1>3, <3>1, <3>3, <4>1, <4>2
    <3> QED
      BY <3>2, <3>3
  <2>2. ASSUME NEW u \in RateB, due'[u] > 0 PROVE frame' = 0 /\ due'[u] = 1
    <3>1. u \in Types /\ (due[u] > 0 => frame = 0 /\ due[u] = 1)
      BY RatesDiffer DEF FrameInv
    <3>2. due'[u] = IF u = t THEN due[u] - 1 ELSE due[u]
      BY <1>3, <1>4, <3>1
    <3> QED
      BY <1>3, <1>4, <2>2, <3>1, <3>2
  <2> QED
    BY <1>2, <2>1, <2>2, RatesDiffer DEF FrameInv
<1>5. CASE /\ \A u \in Types : due[u] = IF u = t THEN 1 ELSE 0
           /\ due' = [u \in Types |-> Share(mux, u, frame')]
  <2>1. \A u \in RateA : due'[u] = Length(mux, u)
    BY <1>5, RatesDiffer DEF Share
  <2>2. \A u \in RateB : due'[u] > 0 => frame' = 0 /\ due'[u] = 1
    BY <1>5, RatesDiffer DEF Share
  <2>3. ASSUME NEW u \in RateA PROVE next'[u] = 1
    <3>1. u \in Types /\ next[u] = IF due[u] = 0 THEN 1 ELSE Length(mux, u) - due[u] + 1
      BY RatesDiffer DEF FrameInv
    <3>2. CASE u # t
      BY <1>1, <1>3, <1>5, <3>1, <3>2
    <3>3. CASE u = t
      BY <1>1, <1>2, <1>3, <1>5, <3>1, <3>3
    <3> QED
      BY <3>2, <3>3
  <2> QED
    BY <1>2, <2>1, <2>2, <2>3, RatesDiffer DEF FrameInv
<1> QED
  BY <1>4, <1>5, SentInFrame

(* Another FIG seen. *)
LEMMA HandleSees ==
  ASSUME FicInv, NEW t \in Types, Handle(t)
  PROVE  /\ SentNow(Fig(t)) /\ Fig(t).type = t /\ Fig(t).index = next[t] /\ Parse(Fig(t))
         /\ mux' = mux /\ next[t] \in 1..Length(mux, t) /\ DOMAIN OnAir.cycle[t] = 1..Length(mux, t)
         /\ next' = [next EXCEPT ![t] = IF @ = Length(mux, t) THEN 1 ELSE @ + 1]
         /\ \A u \in Types :
              seen'[u] = IF u = t /\ u \in Remembered THEN seen[u] \cup {next[t]} ELSE seen[u]
<1>1. /\ mux' = mux /\ next[t] \in 1..Length(mux, t)
      /\ next' = [next EXCEPT ![t] = IF @ = Length(mux, t) THEN 1 ELSE @ + 1]
  BY SentKeeps DEF Handle, FicInv
<1>2. SentNow(Fig(t)) /\ Fig(t).type = t /\ Fig(t).index = next[t] /\ Parse(Fig(t))
  BY <1>1 DEF SentNow, Fig, Handle
<1>3. DOMAIN OnAir.cycle[t] = 1..Length(mux, t)
  BY MuxFacts DEF FicInv, AirInv, Mux, OnAir
<1> QED
  BY <1>1, <1>2, <1>3, ParseSees

(* In the frame behind the first FIG 0/8 there is none, and all FIGs 0/2.    *)
LEMMA ReceiveOutruns ==
  ASSUME Slow >= 2, SeenInv, FrameInv, OutrunInv, NEW t \in Types, Receive(t)
  PROVE  OutrunInv'
<1>1. FicInv /\ FicInv' /\ tuner = "runs"
  BY StepKeeps DEF SeenInv, Next, SomeFig, Receive
<1>2. /\ mux' = mux /\ next[t] \in 1..Length(mux, t) /\ DOMAIN OnAir.cycle[t] = 1..Length(mux, t)
      /\ next' = [next EXCEPT ![t] = IF @ = Length(mux, t) THEN 1 ELSE @ + 1]
      /\ \A u \in Types :
              seen'[u] = IF u = t /\ u \in Remembered THEN seen[u] \cup {next[t]} ELSE seen[u]
  BY <1>1, HandleSees DEF Receive, Handle
<1>3. /\ due[t] > 0
      /\ \/ frame' = frame /\ due' = [due EXCEPT ![t] = @ - 1]
         \/ /\ \A u \in Types : due[u] = IF u = t THEN 1 ELSE 0
            /\ frame' = (frame + 1) % Slow
            /\ due' = [u \in Types |-> Share(mux, u, frame')]
  BY <1>1, SentInFrame DEF Receive
<1>4. \A u \in Types : Length(mux, u)' = Length(mux, u) /\ Length(mux, u) \in Nat
                       /\ DOMAIN OnAir'.cycle[u] = 1..Length(mux, u)
                       /\ DOMAIN OnAir.cycle[u] = 1..Length(mux, u)
  BY <1>2, <1>1, MuxFacts DEF Length, FicInv, AirInv, Mux, OnAir
<1>5. /\ next \in [Types -> Int] /\ due \in [Types -> Int] /\ frame \in 0..(Slow - 1)
      /\ \A u \in Types : due[u] \in 0..Length(mux, u)
  BY <1>1 DEF FicInv, AirInv
<1>6. Slow \in Nat
  BY MultiplexAssumption DEF MultiplexAssumption
<1>7. CASE Whole("0/2")
  <2>1. seen'["0/2"] = 1..Length(mux, "0/2")
    BY <1>2, <1>4, <1>7, RatesDiffer DEF Whole
  <2> QED
    BY <1>4, <2>1, RatesDiffer DEF OutrunInv, Whole
<1>8. CASE seen["0/8"] = {} /\ t # "0/8"
  BY <1>2, <1>8, RatesDiffer DEF OutrunInv
<1>9. CASE seen["0/8"] = {} /\ t = "0/8"
  <2>1. seen'["0/8"] = {next["0/8"]}
    BY <1>2, <1>9, RatesDiffer
  <2>2. /\ seen'["0/8"] = {next["0/8"]}
        /\ seen'["0/8"] = Arc(next["0/8"], next'["0/8"], Length(mux', "0/8"))
    <3>1. next'["0/8"] = IF next["0/8"] = Length(mux, "0/8") THEN 1 ELSE next["0/8"] + 1
      BY <1>2, <1>5, <1>9, RatesDiffer
    <3>2. next["0/8"] \in 1..Length(mux, "0/8") /\ Length(mux, "0/8") \in Nat
      BY <1>2, <1>4, <1>9
    <3>3. {next["0/8"]} = Arc(next["0/8"], next'["0/8"], Length(mux, "0/8"))
      <4> DEFINE n == next["0/8"]
                 K == Length(mux, "0/8")
      <4>1. {n} = Arc(n, IF n = K THEN 1 ELSE n + 1, K)
        <5> HIDE DEF n, K
        <5> QED
          BY <3>2, ArcBegins DEF n, K
      <4> QED
        BY <3>1, <4>1
    <3>4. Length(mux', "0/8") = Length(mux, "0/8")
      BY <1>2
    <3> QED
      BY <2>1, <3>3, <3>4
  <2>3. frame = 0 /\ due["0/8"] = 1
    BY <1>3, <1>9, RatesDiffer DEF FrameInv
  <2>4. \/ frame' = 0 /\ due'["0/8"] = 0
        \/ frame' = 1 /\ due'["0/2"] = Length(mux, "0/2")
    <3>1. CASE frame' = frame /\ due' = [due EXCEPT ![t] = @ - 1]
      BY <1>5, <1>9, <2>3, <3>1, RatesDiffer
    <3>2. CASE frame' = (frame + 1) % Slow /\ due' = [u \in Types |-> Share(mux, u, frame')]
      <4>1. frame' = 1
        BY <1>6, <2>3, <3>2
      <4> QED
        BY <3>2, <4>1, RatesDiffer DEF Share
    <3> QED
      BY <1>3, <3>1, <3>2
  <2>5. frame' = 1 /\ due'["0/2"] = Length(mux, "0/2") => SeenThisFrame("0/2")'
    BY <1>4, RatesDiffer DEF SeenThisFrame
  <2>6. next["0/8"] \in DOMAIN OnAir'.cycle["0/8"]
    BY <1>2, <1>4, <1>9
  <2>7. PICK i \in DOMAIN OnAir'.cycle["0/8"] : FirstOf(i, "0/8")'
    <3> DEFINE n == next["0/8"]
    <3>1. seen'["0/8"] = {n} /\ seen'["0/8"] = Arc(n, next'["0/8"], Length(mux', "0/8"))
      BY <2>2
    <3>2. n \in DOMAIN OnAir'.cycle["0/8"]
      BY <2>6
    <3> HIDE DEF n
    <3> QED
      BY <3>1, <3>2 DEF FirstOf
  <2> QED
    BY <2>4, <2>5, <2>7 DEF OutrunInv
<1>10. ASSUME NEW i \in DOMAIN OnAir.cycle["0/8"], FirstOf(i, "0/8"),
              \/ frame = 0 /\ due["0/8"] = 0
              \/ frame = 1 /\ SeenThisFrame("0/2"),
              ~Whole("0/2")
       PROVE  OutrunInv'
  <2>1. t # "0/8"
    BY <1>3, <1>10, RatesDiffer DEF FrameInv
  <2>2. i \in DOMAIN OnAir'.cycle["0/8"] /\ FirstOf(i, "0/8")'
    <3>1. seen'["0/8"] = seen["0/8"] /\ next'["0/8"] = next["0/8"]
      BY <1>2, <1>5, <2>1, RatesDiffer
    <3> QED
      BY <1>4, <1>10, <3>1, RatesDiffer DEF FirstOf
  <2>3. CASE frame' = frame /\ due' = [due EXCEPT ![t] = @ - 1] /\ frame = 0 /\ due["0/8"] = 0
    <3>1. frame' = 0 /\ due'["0/8"] = 0
      BY <1>5, <2>1, <2>3, RatesDiffer
    <3> QED
      BY <2>2, <3>1 DEF OutrunInv
  <2>4. CASE /\ frame' = (frame + 1) % Slow /\ frame = 0
             /\ due' = [u \in Types |-> Share(mux, u, frame')]
    <3>1. frame' = 1 /\ due'["0/2"] = Length(mux, "0/2")
      BY <1>6, <2>4, RatesDiffer DEF Share
    <3>2. SeenThisFrame("0/2")'
      BY <1>4, <3>1, RatesDiffer DEF SeenThisFrame
    <3> QED
      BY <2>2, <3>1, <3>2 DEF OutrunInv
  <2>5. CASE frame = 1 /\ SeenThisFrame("0/2")
    <3>1. t = "0/2" => next["0/2"] = Length(mux, "0/2") - due["0/2"] + 1
      BY <1>3, RatesDiffer DEF FrameInv
    <3>2. t = "0/2" => seen'["0/2"] = seen["0/2"] \cup {next["0/2"]}
      BY <1>2, RatesDiffer
    <3>3. t # "0/2" => seen'["0/2"] = seen["0/2"]
      BY <1>2, RatesDiffer
    <3>4. seen'["0/2"] \subseteq 1..Length(mux, "0/2")
      BY <1>1, <1>4, RatesDiffer DEF FicInv, BookInv
    <3>5. 1..(Length(mux, "0/2") - (due["0/2"] - IF t = "0/2" THEN 1 ELSE 0)) \subseteq seen'["0/2"]
      <4>1. 1..(Length(mux, "0/2") - due["0/2"]) \subseteq seen["0/2"]
        BY <2>5 DEF SeenThisFrame
      <4> QED
        BY <1>4, <1>5, <3>1, <3>2, <3>3, <4>1, RatesDiffer, SMTT(40)
    <3>6. CASE frame' = frame /\ due' = [due EXCEPT ![t] = @ - 1]
      <4>1. due'["0/2"] = due["0/2"] - IF t = "0/2" THEN 1 ELSE 0
        BY <1>5, <3>6, RatesDiffer
      <4>2. SeenThisFrame("0/2")'
        BY <1>4, <3>5, <4>1, RatesDiffer DEF SeenThisFrame
      <4> QED
        BY <2>2, <2>5, <3>6, <4>2 DEF OutrunInv
    <3>7. CASE \A u \in Types : due[u] = IF u = t THEN 1 ELSE 0
      <4>1. due["0/2"] - (IF t = "0/2" THEN 1 ELSE 0) = 0
        BY <3>7, RatesDiffer
      <4>2. 1..Length(mux, "0/2") \subseteq seen'["0/2"]
        BY <1>4, <1>5, <3>5, <4>1, RatesDiffer
      <4>3. Whole("0/2")'
        BY <1>4, <3>4, <4>2, RatesDiffer DEF Whole
      <4> QED
        BY <4>3 DEF OutrunInv
    <3> QED
      BY <1>3, <3>6, <3>7
  <2> QED
    BY <1>3, <1>10, <2>3, <2>4, <2>5
<1> QED
  BY <1>1, <1>7, <1>8, <1>9, <1>10 DEF OutrunInv

-----------------------------------------------------------------------------
(* A repeated FIG is the one its arc began with.                            *)
LEMMA ArcRepeats ==
  ASSUME NEW L \in Nat, NEW n \in 1..L, NEW from \in 1..L, n \in Arc(from, n, L)
  PROVE  from = n
<1>1. n \notin from..(n - 1) /\ n \notin 1..(n - 1)
  OBVIOUS
<1>2. n \in from..L /\ ~(from < n)
  BY <1>1 DEF Arc
<1> QED
  BY <1>2

LEMMA ArcLengthens ==
  ASSUME NEW L \in Nat, NEW n \in 1..L, NEW from \in 1..L, from # n
  PROVE  Arc(from, n, L) \cup {n} = Arc(from, IF n = L THEN 1 ELSE n + 1, L)
BY DEF Arc

(* While a FIG 0/8 is due that is not the first, all services are known.    *)
LEMMA DueIsLate ==
  ASSUME SeenInv, FrameInv, OutrunInv, tuner = "runs", seen["0/8"] # {}, due["0/8"] > 0
  PROVE  Whole("0/2")
<1>1. frame = 0 /\ due["0/8"] = 1
  BY RatesDiffer DEF FrameInv
<1> QED
  BY <1>1 DEF OutrunInv

NumbersIn(e, i) == OnAir.cycle["0/8"][i] \cap Components(OnAir) \subseteq e.numbered

(* A FIG 0/8 that is given to the collection behind all services.           *)
LEMMA DispatchNumbers ==
  ASSUME WellDescribed, SeenInv, NEW f, f.type = "0/8", "0/8" \in callbacks,
         ensemble.services = OnAir.services
  PROVE  NumbersIn(Dispatched(f), f.index)
<1>1. Given(f, "0/8") = OnAir.cycle["0/8"][f.index]
  BY DEF Given
<1>2. Fig00_08(ensemble, Given(f, "0/8")) = Given(f, "0/8") \cap Components(OnAir)
  BY KnowsAll DEF SeenInv
<1> QED
  BY <1>1, <1>2, DispatchedFields DEF NumbersIn

(* ... and those that are given to it when it registers a callback.         *)
LEMMA ReplayNumbers ==
  ASSUME WellDescribed, SeenInv, NEW f, SentNow(f), NEW types, "0/8" \in types,
         Dispatched(f).services = OnAir.services, NEW i \in seen["0/8"]
  PROVE  NumbersIn(Apply(Dispatched(f), Replayed(types)), i)
<1> DEFINE d == Dispatched(f)
<1>1. Replayed(types)["0/8"] = Replay("0/8")
  BY ReplayedFields
<1>2. OnAir.cycle["0/8"][i] \subseteq Replay("0/8")
  BY DEF Replay, Types, RateB
<1>3. Fig00_08(d, Replay("0/8")) = Replay("0/8") \cap Components(OnAir)
  BY KnowsAll DEF SeenInv
<1> HIDE DEF d
<1>4. Apply(d, Replayed(types)).numbered = d.numbered \cup Fig00_08(d, Replayed(types)["0/8"])
  BY ApplyFields
<1> QED
  BY <1>1, <1>2, <1>3, <1>4 DEF NumbersIn, d

(* The callbacks a FIG's end registers.                                     *)
LEMMA RegistersFacts ==
  ASSUME NEW t, NEW e
  PROVE  /\ "done0" \notin Registers(t, e) /\ "0/2" \notin Registers(t, e)
         /\ "0/8" \in Registers(t, e) => t = "0/1"
         /\ t = "0/1" /\ Registers(t, e) # {} => Registers(t, e) = {"0/8"}
         /\ t = "0/8" /\ Registers(t, e) # {} =>
              /\ {"0/1", "0/3"} \subseteq done /\ "0/8" \notin done
              /\ Registers(t, e) = {"0/13", "0/14", "0/9", "1/0", "1/1", "done1"}
         /\ "done1" \in Registers(t, e) => t = "0/8"
BY DEF Registers

LEMMA MarksFacts ==
  ASSUME NEW t, NEW e
  PROVE  /\ "0/1" \in Marks(t, e) => t = "0/1" /\ Registers(t, e) # {}
         /\ "0/8" \in Marks(t, e) => t = "0/8" /\ Registers(t, e) # {}
         /\ "1/1" \in Marks(t, e) => t = "1/1"
BY DEF Marks

LEMMA ParseCallbacks ==
  ASSUME NEW f, Parse(f), "done0" \in callbacks', tuner = "runs"
  PROVE  /\ "done0" \in callbacks /\ callbacks \subseteq callbacks'
         /\ told' = told /\ done \subseteq done'
<1>1. CASE ParseFig(f)
  BY <1>1 DEF ParseFig, book
<1>2. CASE ParseRepeated(f)
  BY <1>2, RepeatedFacts, RegistersFacts
<1> QED
  BY <1>1, <1>2 DEF Parse

LEMMA ReceiveNumbers ==
  ASSUME WellDescribed, SeenInv, FrameInv, OutrunInv, NumberedInv, NEW t \in Types, Receive(t)
  PROVE  NumberedInv'
<1> SUFFICES ASSUME "done0" \in callbacks', "0/8" \in callbacks'
             PROVE  \/ \A i \in seen'["0/8"] : NumbersIn(ensemble', i)
                    \/ \E from \in DOMAIN OnAir.cycle["0/8"] :
                         /\ seen'["0/8"] = Arc(from, next'["0/8"], Length(mux, "0/8"))
                         /\ \A i \in seen'["0/8"] \ {from} : NumbersIn(ensemble', i)
  <2>1. mux' = mux
    BY HandleSees DEF SeenInv, Receive, Handle
  <2>2. OnAir' = OnAir /\ Length(mux, "0/8")' = Length(mux, "0/8")
    BY <2>1 DEF OnAir, Length
  <2> QED
    BY <2>1, <2>2 DEF NumberedInv, Numbered, NumbersIn
<1> DEFINE f == Fig(t)
           K == Length(mux, "0/8")
           n == next["0/8"]
<1>1. /\ SentNow(f) /\ f.type = t /\ f.index = next[t] /\ Parse(f)
      /\ mux' = mux /\ next[t] \in 1..Length(mux, t)
      /\ next' = [next EXCEPT ![t] = IF @ = Length(mux, t) THEN 1 ELSE @ + 1]
      /\ \A u \in Types :
           seen'[u] = IF u = t /\ u \in Remembered THEN seen[u] \cup {next[t]} ELSE seen[u]
  BY HandleSees DEF SeenInv, Receive, Handle
<1>2. tuner = "runs" /\ due[t] > 0
  BY DEF Receive, Sent
<1>3. "done0" \in callbacks /\ callbacks \subseteq callbacks'
  BY <1>1, <1>2, ParseCallbacks
<1>4. Larger(ensemble, ensemble') /\ Larger(Dispatched(f), ensemble')
  BY <1>1, ParseGrows
<1>5. \A i : (NumbersIn(ensemble, i) \/ NumbersIn(Dispatched(f), i)) => NumbersIn(ensemble', i)
  BY <1>4 DEF NumbersIn, Larger
<1>6. K \in Nat /\ DOMAIN OnAir.cycle["0/8"] = 1..K /\ next \in [Types -> Int]
  BY MuxFacts, RatesDiffer DEF SeenInv, FicInv, AirInv, Mux, OnAir
<1> HIDE DEF f
<1>7. CASE t # "0/8" /\ "0/8" \in callbacks
  <2>1. seen'["0/8"] = seen["0/8"] /\ next'["0/8"] = next["0/8"]
    BY <1>1, <1>6, <1>7, RatesDiffer
  <2>2. \/ \A i \in seen["0/8"] : NumbersIn(ensemble, i)
        \/ \E from \in DOMAIN OnAir.cycle["0/8"] :
             /\ seen["0/8"] = Arc(from, next["0/8"], Length(mux, "0/8"))
             /\ \A i \in seen["0/8"] \ {from} : NumbersIn(ensemble, i)
    BY <1>2, <1>3, <1>7 DEF NumberedInv, Numbered, NumbersIn
  <2> QED
    BY <1>5, <2>1, <2>2
<1>8. CASE "0/8" \notin callbacks
  <2> DEFINE registered == Registers(f.type, Dispatched(f))
  <2>1. ParseRepeated(f)
    BY <1>1, <1>8 DEF Parse, ParseFig, book
  <2>2. "0/8" \in registered /\ seen' = seen
    BY <1>2, <1>8, <2>1, RepeatedFacts
  <2>3. t = "0/1" /\ registered # {}
    BY <1>1, <2>2, RegistersFacts
  <2>4. ensemble' = Apply(Dispatched(f), Replayed(registered))
    BY <1>2, <2>1, <2>3, RepeatedFacts
  <2> HIDE DEF registered
  <2>5. CASE Whole("0/2")
    <3>1. Dispatched(f).services = OnAir.services
      BY <1>1, <1>3, <2>5, ServicesKnown
    <3>2. \A i \in seen["0/8"] : NumbersIn(ensemble', i)
      BY <1>1, <2>2, <2>4, <3>1, ReplayNumbers
    <3> QED
      BY <2>2, <3>2
  <2>6. ASSUME NEW i \in DOMAIN OnAir.cycle["0/8"], FirstOf(i, "0/8")
        PROVE  \E from \in DOMAIN OnAir.cycle["0/8"] :
                 /\ seen'["0/8"] = Arc(from, next'["0/8"], Length(mux, "0/8"))
                 /\ \A j \in seen'["0/8"] \ {from} : NumbersIn(ensemble', j)
    <3>1. next'["0/8"] = next["0/8"]
      BY <1>1, <1>6, <2>3, RatesDiffer
    <3> QED
      BY <2>2, <2>6, <3>1 DEF FirstOf
  <2> QED
    BY <1>2, <2>2, <2>5, <2>6 DEF OutrunInv
<1>9. CASE t = "0/8" /\ "0/8" \in callbacks
  <2>1. seen'["0/8"] = seen["0/8"] \cup {n} /\ f.index = n /\ f.type = "0/8" /\ n \in 1..K
    BY <1>1, <1>9, RatesDiffer
  <2>2. next'["0/8"] = IF n = K THEN 1 ELSE n + 1
    BY <1>1, <1>6, <1>9, RatesDiffer
  <2> HIDE DEF n, K
  <2>3. CASE seen["0/8"] = {}
    <3>1. seen'["0/8"] = {n} /\ {n} = Arc(n, next'["0/8"], K)
      BY <1>6, <2>1, <2>2, <2>3, ArcBegins
    <3> QED
      BY <1>6, <2>1, <3>1 DEF K
  <2>4. CASE seen["0/8"] # {}
    <3>1. Whole("0/2")
      BY <1>2, <1>9, <2>4, DueIsLate
    <3>2. ensemble.services = OnAir.services
      BY <1>1, <1>3, <3>1, ServicesKnown
    <3>3. NumbersIn(ensemble', n)
      BY <1>5, <1>9, <2>1, <3>2, DispatchNumbers
    <3>4. CASE \A i \in seen["0/8"] : NumbersIn(ensemble, i)
      BY <1>5, <2>1, <3>3, <3>4
    <3>5. ASSUME NEW from \in DOMAIN OnAir.cycle["0/8"], seen["0/8"] = Arc(from, n, K),
                 \A i \in seen["0/8"] \ {from} : NumbersIn(ensemble, i)
          PROVE  \/ \A i \in seen'["0/8"] : NumbersIn(ensemble', i)
                 \/ /\ seen'["0/8"] = Arc(from, next'["0/8"], K)
                    /\ \A i \in seen'["0/8"] \ {from} : NumbersIn(ensemble', i)
      <4>1. CASE from = n
        BY <1>5, <2>1, <3>3, <3>5, <4>1
      <4>2. CASE from # n
        <5>1. seen'["0/8"] = Arc(from, next'["0/8"], K)
          BY <1>6, <2>1, <2>2, <3>5, <4>2, ArcLengthens
        <5> QED
          BY <1>5, <2>1, <3>3, <3>5, <5>1
      <4> QED
        BY <4>1, <4>2
    <3>6. \/ \A i \in seen["0/8"] : NumbersIn(ensemble, i)
          \/ \E from \in DOMAIN OnAir.cycle["0/8"] :
               /\ seen["0/8"] = Arc(from, n, K)
               /\ \A i \in seen["0/8"] \ {from} : NumbersIn(ensemble, i)
      BY <1>2, <1>3, <1>9 DEF NumberedInv, Numbered, NumbersIn, n, K
    <3> QED
      BY <3>4, <3>5, <3>6 DEF K
  <2> QED
    BY <2>3, <2>4
<1> QED
  BY <1>7, <1>8, <1>9

-----------------------------------------------------------------------------
(* What the last stage takes from a FIG.                                    *)
LEMMA TakesLabels ==
  ASSUME WellDescribed, FicInv, NEW e, e.services = OnAir.services,
         NEW b, b \subseteq Described(OnAir, "1/1")
  PROVE  Fig01_01(e, b) = b
<1>1. Described(OnAir, "1/1") \subseteq OnAir.services
  BY DEF WellDescribed, OnAir, FicInv, AirInv
<1> QED
  BY <1>1 DEF Fig01_01

LEMMA TakesApps ==
  ASSUME WellDescribed, FicInv, NEW e, e.services = OnAir.services, OnAir.packets # {},
         Whole("0/8"), \A i \in seen["0/8"] : NumbersIn(e, i),
         NEW b, b \subseteq Described(OnAir, "0/13")
  PROVE  Fig00_13(e, b) = b
<1>1. Described(OnAir, "0/13") \subseteq Described(OnAir, "0/8") \cap Components(OnAir)
  BY DEF WellDescribed, OnAir, FicInv, AirInv
<1>2. Described(OnAir, "0/8") \cap Components(OnAir) \subseteq e.numbered
  BY DEF Described, Whole, NumbersIn
<1>3. Known(e) = Components(OnAir)
  BY KnowsAll
<1> QED
  BY <1>1, <1>2, <1>3 DEF Fig00_13

(* The last stage goes on. *)
LEMMA StageGoesOn ==
  ASSUME WellDescribed, SeenInv, StageInv, Collecting, "0/8" \in done,
         LastCallbacks \subseteq callbacks, NEW f, SentNow(f), Parse(f), mux' = mux
  PROVE  LastStage(ensemble)' /\ Whole("0/8")'
<1>1. /\ {"0/13", "1/1"} \subseteq callbacks /\ Whole("0/8") /\ LastStage(ensemble)
  BY DEF StageInv, LastCallbacks
<1>2. ensemble'.services = OnAir.services /\ OnAir' = OnAir
  BY <1>1, ServicesStay DEF LastStage, OnAir
<1>3. Larger(ensemble, ensemble') /\ Larger(Dispatched(f), ensemble')
  BY ParseGrows
<1>4. /\ \A t \in Types :
           /\ seen'[t] = IF t = f.type /\ t \in Remembered THEN seen[t] \cup {f.index} ELSE seen[t]
           /\ seen'[t] \subseteq DOMAIN OnAir.cycle[t]
  BY ParseSees DEF SeenInv
<1>5. f.index \in DOMAIN OnAir.cycle[f.type]
  BY SentIsOnAir DEF SeenInv
<1>6. seen'["0/8"] = seen["0/8"]
  BY <1>1, <1>4, RatesDiffer DEF Whole
<1>7. \A i \in seen["0/8"] : NumbersIn(ensemble, i)
  BY <1>1 DEF LastStage, NumbersIn
<1>8. ASSUME NEW i \in seen'["1/1"] PROVE OnAir.cycle["1/1"][i] \subseteq ensemble'.labelled
  <2>1. CASE i \in seen["1/1"]
    BY <1>1, <1>3, <2>1 DEF LastStage, Larger
  <2>2. CASE i \notin seen["1/1"]
    <3>1. f.type = "1/1" /\ i = f.index
      BY <1>4, <1>8, <2>2 DEF Types, RateA, RateB
    <3>2. Given(f, "1/1") = OnAir.cycle["1/1"][i]
      BY <1>1, <3>1 DEF Given
    <3>3. OnAir.cycle["1/1"][i] \subseteq Described(OnAir, "1/1")
      BY <1>5, <3>1 DEF Described
    <3>4. Fig01_01(ensemble, Given(f, "1/1")) = OnAir.cycle["1/1"][i]
      BY <1>1, <3>2, <3>3, TakesLabels DEF LastStage, SeenInv
    <3> QED
      BY <1>3, <3>4, DispatchedFields DEF Larger
  <2> QED
    BY <2>1, <2>2
<1>9. ASSUME OnAir.packets # {}, NEW i \in seen'["0/13"]
      PROVE  OnAir.cycle["0/13"][i] \subseteq ensemble'.apps
  <2>1. CASE i \in seen["0/13"]
    BY <1>1, <1>3, <1>9, <2>1 DEF LastStage, Larger
  <2>2. CASE i \notin seen["0/13"]
    <3>1. f.type = "0/13" /\ i = f.index
      BY <1>4, <1>9, <2>2 DEF Types, RateA, RateB
    <3>2. Given(f, "0/13") = OnAir.cycle["0/13"][i]
      BY <1>1, <3>1 DEF Given
    <3>3. OnAir.cycle["0/13"][i] \subseteq Described(OnAir, "0/13")
      BY <1>5, <3>1 DEF Described
    <3>4. Fig00_13(ensemble, Given(f, "0/13")) = OnAir.cycle["0/13"][i]
      BY <1>1, <1>7, <1>9, <3>2, <3>3, TakesApps DEF LastStage, SeenInv
    <3> QED
      BY <1>3, <3>4, DispatchedFields DEF Larger
  <2> QED
    BY <2>1, <2>2
<1>10. \A i \in seen'["0/8"] : OnAir.cycle["0/8"][i] \cap Components(OnAir) \subseteq ensemble'.numbered
  BY <1>3, <1>6, <1>7 DEF NumbersIn, Larger
<1>11. LastStage(ensemble)'
  BY <1>2, <1>8, <1>9, <1>10 DEF LastStage
<1> QED
  BY <1>1, <1>2, <1>6, <1>11 DEF Whole

(* The last stage begins with the end of FIG 0/8's cycle: what was seen of   *)
(* the others is given to the collection then.                              *)
LEMMA StageBegins ==
  ASSUME WellDescribed, SeenInv, FrameInv, OutrunInv, NumberedInv, StageInv,
         "done0" \in callbacks, tuner = "runs", "0/8" \notin done, "0/8" \in done',
         NEW f, SentNow(f), Parse(f), mux' = mux, due[f.type] > 0
  PROVE  /\ LastStage(ensemble)' /\ Whole("0/8")'
         /\ "done0" \in callbacks' => {"0/13", "1/1"} \subseteq callbacks'
<1> DEFINE d == Dispatched(f)
           registered == Registers(f.type, d)
           K == Length(mux, "0/8")
           n == next["0/8"]
<1>1. ParseRepeated(f)
  BY DEF Parse, ParseFig, book
<1>2. "0/8" \in Marks(f.type, d)
  BY <1>1, RepeatedFacts
<1>3. f.type = "0/8" /\ registered # {}
  BY <1>2, MarksFacts
<1>4. /\ {"0/1", "0/3"} \subseteq done
      /\ registered = {"0/13", "0/14", "0/9", "1/0", "1/1", "done1"}
  BY <1>3, RegistersFacts
<1>5. /\ f.index \in seen["0/8"] /\ seen' = seen
      /\ ensemble' = Apply(d, Replayed(registered))
      /\ "done0" \in callbacks' => callbacks' = callbacks \cup registered
  BY <1>1, <1>3, RepeatedFacts
<1> HIDE DEF d, registered
<1>6. "0/8" \in callbacks
  BY <1>4 DEF StageInv, Collecting
<1>7. K \in Nat /\ DOMAIN OnAir.cycle["0/8"] = 1..K /\ f.index = n /\ n \in 1..K
  BY <1>3, MuxFacts, RatesDiffer DEF SeenInv, FicInv, AirInv, Mux, OnAir, SentNow
<1>8. Whole("0/8")
  <2>1. ArcInv("0/8")
    BY RatesDiffer DEF SeenInv, CycleInv
  <2> QED
    BY <1>5, <1>7, <2>1, RepeatEnds, RatesDiffer DEF SeenInv
<1>9. Whole("0/2")
  BY <1>3, <1>5, DueIsLate
<1>10. ensemble.services = OnAir.services /\ d.services = OnAir.services
  BY <1>9, ServicesKnown DEF d
<1>11. ensemble'.services = OnAir.services /\ OnAir' = OnAir
  BY <1>10, ServicesStay DEF OnAir
<1>12. Larger(ensemble, d) /\ Larger(d, ensemble')
  BY DispatchedFields, ParseGrows DEF d
<1>13. NumbersIn(d, n)
  BY <1>3, <1>6, <1>7, <1>10, DispatchNumbers DEF d
<1>14. \A i \in seen["0/8"] : NumbersIn(d, i)
  <2>1. \A i : NumbersIn(ensemble, i) => NumbersIn(d, i)
    BY <1>12 DEF NumbersIn, Larger
  <2>2. \/ \A i \in seen["0/8"] : NumbersIn(ensemble, i)
        \/ \E from \in DOMAIN OnAir.cycle["0/8"] :
             /\ seen["0/8"] = Arc(from, n, K)
             /\ \A i \in seen["0/8"] \ {from} : NumbersIn(ensemble, i)
    BY <1>6 DEF NumberedInv, Numbered, NumbersIn
  <2> HIDE DEF n, K
  <2>3. ASSUME NEW from \in 1..K, seen["0/8"] = Arc(from, n, K) PROVE from = n
    BY <1>5, <1>7, <2>3, ArcRepeats
  <2> QED
    BY <1>7, <1>13, <2>1, <2>2, <2>3
<1>15. ASSUME NEW i \in seen["1/1"] PROVE OnAir.cycle["1/1"][i] \subseteq ensemble'.labelled
  <2>1. Replayed(registered)["1/1"] = Replay("1/1")
    BY <1>4, ReplayedFields
  <2>2. OnAir.cycle["1/1"][i] \subseteq Replay("1/1") /\ Replay("1/1") \subseteq Described(OnAir, "1/1")
    BY <1>15 DEF Replay, Described, Types, RateB, RateA, SeenInv, FicInv, BookInv
  <2>3. Fig01_01(d, Replay("1/1")) = Replay("1/1")
    BY <1>10, <2>2, TakesLabels DEF SeenInv
  <2> QED
    BY <1>5, <2>1, <2>2, <2>3, ApplyFields
<1>16. ASSUME OnAir.packets # {}, NEW i \in seen["0/13"]
       PROVE  OnAir.cycle["0/13"][i] \subseteq ensemble'.apps
  <2>1. Replayed(registered)["0/13"] = Replay("0/13")
    BY <1>4, ReplayedFields
  <2>2. OnAir.cycle["0/13"][i] \subseteq Replay("0/13") /\ Replay("0/13") \subseteq Described(OnAir, "0/13")
    BY <1>16 DEF Replay, Described, Types, RateB, RateA, SeenInv, FicInv, BookInv
  <2>3. Fig00_13(d, Replay("0/13")) = Replay("0/13")
    BY <1>8, <1>10, <1>14, <1>16, <2>2, TakesApps DEF SeenInv
  <2> QED
    BY <1>5, <2>1, <2>2, <2>3, ApplyFields
<1>17. \A i \in seen["0/8"] : OnAir.cycle["0/8"][i] \cap Components(OnAir) \subseteq ensemble'.numbered
  BY <1>12, <1>14 DEF NumbersIn, Larger
<1>18. LastStage(ensemble)'
  BY <1>5, <1>11, <1>15, <1>16, <1>17 DEF LastStage
<1> QED
  BY <1>4, <1>5, <1>8, <1>11, <1>18 DEF Whole

LEMMA ReceiveStages ==
  ASSUME WellDescribed, SeenInv, FrameInv, OutrunInv, NumberedInv, StageInv,
         NEW t \in Types, Receive(t)
  PROVE  StageInv'
<1> SUFFICES ASSUME "done0" \in callbacks'
             PROVE  /\ "0/1" \in done' => "0/8" \in callbacks'
                    /\ "0/8" \in done' => /\ LastCallbacks \subseteq callbacks'
                                          /\ Whole("0/8")' /\ LastStage(ensemble)'
  BY DEF StageInv, Collecting
<1> DEFINE f == Fig(t)
<1>1. SentNow(f) /\ f.type = t /\ Parse(f) /\ mux' = mux
  BY HandleSees DEF SeenInv, Receive, Handle
<1>2. tuner = "runs" /\ due[t] > 0
  BY DEF Receive, Sent
<1>3. "done0" \in callbacks /\ callbacks \subseteq callbacks'
  BY <1>1, <1>2, ParseCallbacks
<1>4. Collecting
  BY <1>2, <1>3 DEF Collecting
<1> HIDE DEF f
<1>5. ASSUME "0/1" \in done' PROVE "0/8" \in callbacks'
  <2>1. CASE "0/1" \in done
    BY <1>2, <1>3, <1>4, <2>1 DEF StageInv
  <2>2. CASE "0/1" \notin done
    <3>1. ParseRepeated(f)
      BY <1>1, <1>5, <2>2 DEF Parse, ParseFig, book
    <3>2. "0/1" \in Marks(f.type, Dispatched(f))
      BY <1>5, <2>2, <3>1, RepeatedFacts
    <3>3. Registers(f.type, Dispatched(f)) = {"0/8"}
      BY <3>2, MarksFacts, RegistersFacts
    <3> QED
      BY <1>2, <3>1, <3>3, RepeatedFacts
  <2> QED
    BY <2>1, <2>2
<1>6. CASE "0/8" \in done
  <2>1. LastCallbacks \subseteq callbacks
    BY <1>2, <1>4, <1>6 DEF StageInv
  <2> QED
    BY <1>1, <1>3, <1>4, <1>5, <1>6, <2>1, StageGoesOn
<1>7. CASE "0/8" \notin done
  <2>1. "0/8" \in done' => /\ LastStage(ensemble)' /\ Whole("0/8")'
                           /\ LastCallbacks \subseteq callbacks'
    BY <1>1, <1>2, <1>3, <1>7, StageBegins DEF LastCallbacks
  <2> QED
    BY <1>5, <2>1
<1> QED
  BY <1>6, <1>7

(* In a reset the old parser loses the callbacks that are registered, with   *)
(* the end of FIG 0/8's cycle those of the last stage.                      *)
LEMMA OldThreadStages ==
  ASSUME WellDescribed, SeenInv, StageInv, NEW f, SentNow(f), Parse(f), mux' = mux,
         tuner # "runs", tuner' = tuner
  PROVE  StageInv'
<1> SUFFICES ASSUME Collecting', "0/8" \in done', LastCallbacks \subseteq callbacks'
             PROVE  Whole("0/8")' /\ LastStage(ensemble)'
  BY DEF StageInv
<1>1. CASE ParseFig(f)
  BY <1>1, StageGoesOn DEF ParseFig, book, Collecting
<1>2. CASE ParseRepeated(f)
  <2> DEFINE d == Dispatched(f)
             registered == Registers(f.type, d)
  <2>1. callbacks' = callbacks \ registered /\ done' = done \cup Marks(f.type, d)
    BY <1>2, RepeatedFacts DEF Collecting
  <2> HIDE DEF d, registered
  <2>2. Collecting /\ LastCallbacks \subseteq callbacks /\ "1/1" \notin registered
    BY <2>1 DEF Collecting, LastCallbacks
  <2>3. "0/8" \notin Marks(f.type, d)
    BY <2>2, MarksFacts, RegistersFacts DEF registered
  <2> QED
    BY <2>1, <2>2, <2>3, StageGoesOn
<1> QED
  BY <1>1, <1>2 DEF Parse

-----------------------------------------------------------------------------
(* The end of the labels' cycle is asked for behind that of FIG 0/8.        *)
LEMMA ParseFirst ==
  ASSUME LastBegun, NEW f, Parse(f)
  PROVE  LastBegun'
<1>1. CASE ParseFig(f)
  BY <1>1 DEF ParseFig, book, LastBegun, Collecting
<1>2. CASE ParseRepeated(f)
  <2> DEFINE d == Dispatched(f)
             registered == Registers(f.type, d)
  <2>1. /\ done' = done \cup Marks(f.type, d) /\ DoneCallback(f.type) \in callbacks
        /\ \/ callbacks' = {}
           \/ tuner = "runs" /\ callbacks' = callbacks \cup registered
           \/ tuner # "runs" /\ callbacks' = callbacks \ registered
    BY <1>2, RepeatedFacts DEF ParseRepeated
  <2>2. "done1" \in registered \/ "1/1" \in registered \/ "0/13" \in registered =>
          /\ f.type = "0/8" /\ "0/8" \notin done
          /\ {"done1", "0/13", "1/1"} \subseteq registered
    BY DEF Registers
  <2>3. "done0" \notin registered
    BY RegistersFacts
  <2>4. "1/1" \in Marks(f.type, d) => "done1" \in callbacks
    BY <2>1, MarksFacts DEF DoneCallback
  <2>5. f.type = "0/8" /\ registered # {} => "0/8" \in Marks(f.type, d)
    BY DEF Marks
  <2> HIDE DEF d, registered
  <2>6. CASE "done1" \in callbacks \/ "1/1" \in done
    <3>1. "0/8" \in done /\ (Collecting => LastCallbacks \subseteq callbacks)
      BY <2>6 DEF LastBegun
    <3>2. "1/1" \notin registered /\ "0/13" \notin registered
      BY <2>2, <3>1
    <3> QED
      BY <2>1, <2>3, <3>1, <3>2 DEF LastBegun, Collecting, LastCallbacks
  <2>7. CASE ~("done1" \in callbacks \/ "1/1" \in done)
    <3> SUFFICES ASSUME "done1" \in callbacks' \/ "1/1" \in done'
                 PROVE  LastBegun'
      BY DEF LastBegun
    <3>1. callbacks' = callbacks \cup registered /\ "done1" \in registered
      BY <2>1, <2>4, <2>7
    <3> QED
      BY <2>1, <2>2, <2>5, <3>1 DEF LastBegun, LastCallbacks
  <2> QED
    BY <2>6, <2>7
<1> QED
  BY <1>1, <1>2 DEF Parse

LEMMA FirstKeeps == FicInv /\ FirstLife /\ [Next]_vars => FirstLife'
<1> SUFFICES ASSUME FicInv, FirstLife, [Next]_vars PROVE FirstLife'
  OBVIOUS
<1>1. ASSUME NEW t \in Types, Receive(t) PROVE FirstLife'
  BY <1>1, ParseFirst DEF Receive, FirstLife
<1>2. ASSUME NEW t \in Types, Lose(t) PROVE FirstLife'
  BY <1>2 DEF Lose, book, FirstLife, LastBegun, Collecting
<1>3. CASE ResetStart
  <2>1. tunes' # 0 /\ (MaxTunes <= 1 => tunes = 0)
    BY <1>3, MultiplexAssumption DEF ResetStart, FicInv, MultiplexAssumption
  <2> QED
    BY <1>3, <2>1 DEF ResetStart, FirstLife, LastBegun, Collecting
<1>4. ASSUME NEW t \in Types, OldThread(t) PROVE FirstLife'
  BY <1>4, ParseFirst DEF OldThread, FirstLife
<1>5. ASSUME NEW n \in DOMAIN Multiplexes, ResetEnd(n) PROVE FirstLife'
  BY <1>5 DEF ResetEnd, FirstLife
<1>6. CASE UNCHANGED vars
  BY <1>6 DEF vars, book, FirstLife, LastBegun, Collecting
<1> QED
  BY <1>1, <1>2, <1>3, <1>4, <1>5, <1>6 DEF Next, SomeFig, OldThreadParses, ResetEnds

-----------------------------------------------------------------------------
LEMMA InitTells == Init => ToldInv
<1> SUFFICES ASSUME Init PROVE ToldInv
  OBVIOUS
<1>1. AirInv /\ mux \in DOMAIN Multiplexes
  BY InitEstablishes DEF FicInv, AirInv
<1>2. FrameInv
  <2>1. \A t \in Types : Length(mux, t) \in Nat
    BY <1>1, MuxFacts
  <2>2. \A t \in Types : due[t] = Share(mux, t, 0) /\ next[t] = 1
    BY DEF Init
  <2>3. \A t \in RateA : due[t] = Length(mux, t)
    BY <2>2, RatesDiffer DEF Share
  <2>4. \A t \in RateB : due[t] > 0 => due[t] = 1
    BY <2>2, RatesDiffer DEF Share
  <2>5. \A t \in RateA : next[t] = IF due[t] = 0 THEN 1 ELSE Length(mux, t) - due[t] + 1
    BY <2>1, <2>2, <2>3, RatesDiffer
  <2> QED
    BY <2>4, <2>5 DEF Init, FrameInv
<1>3. \A t \in Types : seen[t] = {}
  BY DEF Init
<1>4. OutrunInv /\ NumberedInv
  BY <1>3, RatesDiffer DEF OutrunInv, NumberedInv
<1>5. StageInv /\ FirstLife
  BY DEF Init, StageInv, FirstLife, LastBegun
<1>6. HeardOf(ensemble)
  BY DEF Init, HeardOf, Empty
<1> QED
  BY <1>2, <1>4, <1>5, <1>6 DEF ToldInv

LEMMA ToldKeeps ==
  Slow >= 2 /\ MaxLost = 0 /\ WellDescribed /\ SeenInv /\ ToldInv /\ [Next]_vars => ToldInv'
<1> SUFFICES ASSUME Slow >= 2, MaxLost = 0, WellDescribed, SeenInv, ToldInv, [Next]_vars
             PROVE  ToldInv'
  OBVIOUS
<1> USE DEF ToldInv
<1>1. FicInv /\ FicInv' /\ SeenInv' /\ FirstLife'
  BY StepKeeps, SeenKeeps, FirstKeeps DEF SeenInv
<1>2. ASSUME NEW t \in Types, Receive(t) PROVE ToldInv'
  <2>1. Sent(t)
    BY <1>2 DEF Receive
  <2>2. FrameInv'
    BY <1>1, <2>1, SentFrames
  <2>3. SentNow(Fig(t)) /\ Parse(Fig(t)) /\ mux' = mux
    BY <1>1, <1>2, HandleSees DEF Receive, Handle
  <2>4. HeardOf(ensemble)'
    BY <2>3, ParseHeardOf
  <2>5. OutrunInv' /\ NumberedInv' /\ StageInv'
    BY <1>2, ReceiveOutruns, ReceiveNumbers, ReceiveStages
  <2> QED
    BY <1>1, <2>2, <2>4, <2>5
<1>3. ASSUME NEW t \in Types, Lose(t) PROVE ToldInv'
  <2>1. /\ ~heard /\ tuner = "runs" /\ Sent(t)
        /\ UNCHANGED <<seen, callbacks, done, ensemble, tuner>>
    BY <1>3 DEF Lose, book, SeenInv, CycleInv
  <2>2. FrameInv' /\ mux' = mux
    BY <1>1, <2>1, SentFrames, SentKeeps DEF FicInv
  <2>3. seen'["0/8"] = {}
    BY <2>1, RatesDiffer DEF SeenInv, CycleInv
  <2>4. OutrunInv' /\ NumberedInv'
    BY <2>3 DEF OutrunInv, NumberedInv
  <2>5. OnAir' = OnAir
    BY <2>2 DEF OnAir
  <2>6. StageInv' /\ HeardOf(ensemble)'
    BY <2>1, <2>5 DEF StageInv, Collecting, LastStage, Whole, HeardOf
  <2> QED
    BY <1>1, <2>2, <2>4, <2>6
<1>4. CASE ResetStart
  <2>1. /\ tuner = "runs" /\ tuner' = "joins"
        /\ UNCHANGED <<mux, next, due, frame, seen, callbacks, done, ensemble>>
    BY <1>4 DEF ResetStart, air
  <2>2. OnAir' = OnAir /\ \A t : Length(mux', t) = Length(mux, t)
    BY <2>1 DEF OnAir
  <2>3. FrameInv'
    BY <2>1, <2>2 DEF FrameInv, Length
  <2>4. OutrunInv' /\ NumberedInv'
    BY <2>1 DEF OutrunInv, NumberedInv
  <2>5. StageInv' /\ HeardOf(ensemble)'
    BY <2>1, <2>2 DEF StageInv, Collecting, LastStage, Whole, HeardOf
  <2> QED
    BY <1>1, <2>3, <2>4, <2>5
<1>5. ASSUME NEW t \in Types, OldThread(t) PROVE ToldInv'
  <2>1. Sent(t) /\ Handle(t) /\ tuner = "joins" /\ tuner' = tuner
    BY <1>1, <1>5 DEF OldThread, Handle, FicInv, AtFibInv
  <2>2. FrameInv'
    BY <1>1, <2>1, SentFrames
  <2>3. SentNow(Fig(t)) /\ Parse(Fig(t)) /\ mux' = mux
    BY <1>1, <2>1, HandleSees
  <2>4. OutrunInv' /\ NumberedInv'
    BY <2>1 DEF OutrunInv, NumberedInv
  <2>5. StageInv' /\ HeardOf(ensemble)'
    BY <2>1, <2>3, OldThreadStages, ParseHeardOf
  <2> QED
    BY <1>1, <2>2, <2>4, <2>5
<1>6. ASSUME NEW n \in DOMAIN Multiplexes, ResetEnd(n) PROVE ToldInv'
  <2>1. /\ next' = [t \in Types |-> 1] /\ frame' = 0 /\ mux' = n
        /\ due' = [t \in Types |-> Share(n, t, 0)]
        /\ seen' = [t \in Types |-> {}] /\ done' = {} /\ ensemble' = Empty
    BY <1>6 DEF ResetEnd, StartOf
  <2>2. FrameInv'
    BY <2>1, StartFrames
  <2>3. seen'["0/8"] = {}
    BY <2>1, RatesDiffer
  <2>4. OutrunInv' /\ NumberedInv' /\ StageInv'
    BY <2>1, <2>3 DEF OutrunInv, NumberedInv, StageInv
  <2>5. HeardOf(ensemble)'
    BY <2>1 DEF HeardOf, Empty
  <2> QED
    BY <1>1, <2>2, <2>4, <2>5
<1>7. CASE UNCHANGED vars
  <2>1. UNCHANGED <<mux, next, due, frame, seen, callbacks, done, ensemble, tuner>>
    BY <1>7 DEF vars, air, book
  <2>2. OnAir' = OnAir
    BY <2>1 DEF OnAir
  <2>3. FrameInv'
    BY <2>1 DEF FrameInv, Length
  <2>4. OutrunInv' /\ NumberedInv'
    BY <2>1, <2>2 DEF OutrunInv, NumberedInv, Whole, FirstOf, SeenThisFrame, Numbered, Length
  <2>5. StageInv' /\ HeardOf(ensemble)'
    BY <2>1, <2>2 DEF StageInv, Collecting, LastStage, Whole, HeardOf
  <2> QED
    BY <1>1, <2>3, <2>4, <2>5
<1> QED
  BY <1>2, <1>3, <1>4, <1>5, <1>6, <1>7 DEF Next, SomeFig, OldThreadParses, ResetEnds

-----------------------------------------------------------------------------
(* A FIG whose end tells the tuner leaves nothing to be collected, if it is  *)
(* received now or its last stage has begun.                                *)
LEMMA TellsComplete ==
  ASSUME WellDescribed, SeenInv, SeenInv', ToldInv, NEW f, SentNow(f), Parse(f), mux' = mux,
         told' # told,
         \/ tuner = "runs" /\ due[f.type] > 0
         \/ "0/8" \in done /\ LastCallbacks \subseteq callbacks
  PROVE  Complete(ensemble', OnAir)
<1>1. ParseRepeated(f)
  BY DEF Parse, ParseFig, book
<1>2. "done0" \in callbacks /\ Needed \subseteq done' /\ Sane(ensemble')
  BY <1>1, RepeatedFacts
<1>3. {"0/8", "1/1", "0/13"} \subseteq done'
  BY <1>2 DEF Needed
<1>4. LastStage(ensemble)'
  <2>1. CASE "0/8" \in done
    <3>1. LastCallbacks \subseteq callbacks
      BY <1>2, <2>1 DEF ToldInv, StageInv, Collecting
    <3> QED
      BY <1>2, <2>1, <3>1, StageGoesOn DEF ToldInv, Collecting
  <2>2. CASE "0/8" \notin done
    BY <1>2, <1>3, <2>2, StageBegins DEF ToldInv
  <2> QED
    BY <2>1, <2>2
<1>5. HeardOf(ensemble)'
  BY ParseHeardOf DEF ToldInv
<1>6. OnAir' = OnAir
  BY DEF OnAir
<1>7. /\ ensemble'.services = OnAir.services
      /\ \A i \in seen'["1/1"] : OnAir.cycle["1/1"][i] \subseteq ensemble'.labelled
      /\ OnAir.packets # {} =>
           \A i \in seen'["0/13"] : OnAir.cycle["0/13"][i] \subseteq ensemble'.apps
  BY <1>4, <1>6 DEF LastStage
<1>8. /\ seen'["1/1"] = DOMAIN OnAir.cycle["1/1"]
      /\ OnAir.packets # {} => seen'["0/13"] = DOMAIN OnAir.cycle["0/13"]
  BY <1>3, <1>6 DEF SeenInv, DoneMeansSeen
<1>9. /\ ensemble'.labelled \subseteq Described(OnAir, "1/1")
      /\ ensemble'.apps \subseteq Described(OnAir, "0/13")
  BY <1>5, <1>6 DEF HeardOf
<1>10. ensemble'.labelled = Described(OnAir, "1/1")
  BY <1>7, <1>8, <1>9 DEF Described
<1>11. OnAir.packets # {} => ensemble'.apps = Described(OnAir, "0/13")
  BY <1>7, <1>8, <1>9 DEF Described
<1>12. /\ ensemble'.located \subseteq OnAir.packets
       /\ ensemble'.placed \subseteq Components(OnAir)
  BY <1>6, <1>7 DEF SeenInv, FicInv, BookInv, Grounded, KnownPackets, Known, Components
<1>13. ASSUME NEW c \in Components(OnAir)
       PROVE  /\ c \in ensemble'.placed
              /\ c \in OnAir.packets => c \in ensemble'.located
              /\ c \notin OnAir.packets => ensemble'.ecc
  <2>1. PICK s \in OnAir.services : c \in OnAir.members[s]
    BY <1>13 DEF Components
  <2>2. \A r \in ensemble'.services : \A b \in OnAir.members[r] :
          /\ b \in ensemble'.placed
          /\ b \in OnAir.packets => b \in ensemble'.located
          /\ b \notin OnAir.packets => ensemble'.ecc
    BY <1>2 DEF Sane
  <2> QED
    BY <1>7, <2>1, <2>2
<1>14. OnAir.packets \subseteq Components(OnAir) /\ Streams(OnAir) # {}
  BY MuxFacts DEF WellDescribed, SeenInv, FicInv, AirInv, Mux, OnAir
<1>15. ensemble'.ecc
  BY <1>13, <1>14 DEF Streams
<1> QED
  BY <1>7, <1>10, <1>11, <1>12, <1>13, <1>14, <1>15 DEF Complete

(* Who tells, and when. *)
LEMMA StepTells ==
  ASSUME WellDescribed, SeenInv, SeenInv', ToldInv, OnceInv, [Next]_vars, told' > told,
         tuner = "runs" \/ ("0/8" \in done /\ LastCallbacks \subseteq callbacks)
  PROVE  Complete(ensemble', OnAir)
<1>0. told \in {0, 1} /\ told' # told
  BY DEF OnceInv
<1>1. ASSUME NEW t \in Types, Receive(t) PROVE Complete(ensemble', OnAir)
  <2>1. SentNow(Fig(t)) /\ Parse(Fig(t)) /\ mux' = mux /\ Fig(t).type = t
    BY <1>1, HandleSees DEF SeenInv, Receive, Handle
  <2>2. tuner = "runs" /\ due[t] > 0 /\ told' # told
    BY <1>1, <1>0 DEF Receive, Sent
  <2> QED
    BY <2>1, <2>2, TellsComplete
<1>2. ASSUME NEW t \in Types, OldThread(t) PROVE Complete(ensemble', OnAir)
  <2>1. SentNow(Fig(t)) /\ Parse(Fig(t)) /\ mux' = mux
    BY <1>2, HandleSees DEF SeenInv, OldThread, Handle
  <2>2. tuner # "runs" /\ told' # told
    BY <1>2, <1>0 DEF OldThread, SeenInv, FicInv, AtFibInv
  <2> QED
    BY <2>1, <2>2, TellsComplete
<1>3. (\E t \in Types : Lose(t)) \/ ResetStart \/ UNCHANGED vars => told' = told
  BY DEF Lose, ResetStart, vars, book
<1>4. ASSUME NEW n, ResetEnd(n) PROVE FALSE
  BY <1>4, <1>0 DEF ResetEnd
<1> QED
  BY <1>1, <1>2, <1>3, <1>4, <1>0 DEF Next, SomeFig, OldThreadParses, ResetEnds

(* Outside a reset the tuner is told of a complete collection, after any    *)
(* number of resets: whatever order the types' cycles come in and wherever  *)
(* reception begins.                                                        *)
ToldAtWork ==
  [][told' > told /\ tuner = "runs" => Complete(ensemble', OnAir)]_vars

THEOREM CollectsAllAtWork ==
  ASSUME Slow >= 2, MaxLost = 0, WellDescribed
  PROVE  Spec => ToldAtWork
<1> DEFINE Inv == SeenInv /\ ToldInv /\ OnceInv
<1>1. Init => Inv
  BY InitSees, InitTells DEF Init, OnceInv, Silent
<1>2. Inv /\ [Next]_vars => Inv'
  BY SeenKeeps, ToldKeeps, NextKeepsOnce
<1>3. Inv /\ Inv' /\ [Next]_vars =>
        [told' > told /\ tuner = "runs" => Complete(ensemble', OnAir)]_vars
  BY StepTells
<1> HIDE DEF Inv
<1> QED
  BY <1>1, <1>2, <1>3, PTL DEF Spec, ToldAtWork

(* In a reset the old parser's thread may still tell, and under one reset    *)
(* this too is of a complete collection.                                    *)
THEOREM CollectsAll ==
  ASSUME Slow >= 2, MaxLost = 0, MaxTunes <= 1, WellDescribed
  PROVE  Spec => ToldComplete
<1> DEFINE Inv == SeenInv /\ ToldInv /\ OnceInv
<1>1. Init => Inv
  BY InitSees, InitTells DEF Init, OnceInv, Silent
<1>2. Inv /\ [Next]_vars => Inv'
  BY SeenKeeps, ToldKeeps, NextKeepsOnce
<1>3. Inv /\ Inv' /\ [Next]_vars => [told' > told => Complete(ensemble', OnAir)]_vars
  <2> SUFFICES ASSUME Inv, Inv', [Next]_vars, told' > told PROVE Complete(ensemble', OnAir)
    OBVIOUS
  <2>1. CASE tuner = "runs"
    BY <2>1, StepTells
  <2>2. CASE tuner # "runs"
    <3>1. tuner = "joins"
      BY <2>2 DEF SeenInv, FicInv
    <3>2. PICK f : ParseRepeated(f)
      <4>1. PICK t \in Types : OldThread(t)
        <5>1. (\E t \in Types : Receive(t) \/ Lose(t)) \/ ResetStart => tuner = "runs"
          BY DEF Receive, Lose, ResetStart
        <5>2. ASSUME NEW n, ResetEnd(n) PROVE FALSE
          BY <5>2 DEF ResetEnd, OnceInv
        <5>3. ~UNCHANGED vars
          BY DEF vars, book, OnceInv
        <5> QED
          BY <2>2, <5>1, <5>2, <5>3 DEF Next, SomeFig, OldThreadParses, ResetEnds
      <4>2. told' # told
        BY DEF OnceInv
      <4> QED
        BY <4>1, <4>2 DEF OldThread, Parse, ParseFig, book
    <3>3. "1/1" \in done' /\ DoneCallback(f.type) = "done0"
      <4>1. told' # told
        BY DEF OnceInv
      <4> QED
        BY <3>2, <4>1, RepeatedFacts DEF Needed
    <3>4. "1/1" \in done
      <4>1. f.type # "1/1"
        BY <3>3 DEF DoneCallback
      <4> QED
        BY <3>2, <3>3, <4>1, RepeatedFacts, MarksFacts
    <3>5. "0/8" \in done /\ LastCallbacks \subseteq callbacks
      <4>1. told' # told
        BY DEF OnceInv
      <4>2. Collecting
        BY <3>2, <4>1, RepeatedFacts DEF Collecting
      <4> QED
        BY <3>1, <3>4, <4>2 DEF ToldInv, FirstLife, LastBegun
    <3> QED
      BY <3>5, StepTells
  <2> QED
    BY <2>1, <2>2
<1> HIDE DEF Inv
<1> QED
  BY <1>1, <1>2, <1>3, PTL DEF Spec, ToldComplete
=============================================================================
