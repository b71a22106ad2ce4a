---------------------------- MODULE FicCollection ----------------------------
(***************************************************************************)
(* The fast information channel: a multiplex describes itself in FIGs that *)
(* the transmitter repeats in cycles, one cycle per FIG type.  FicParser   *)
(* remembers the FIGs it has seen and takes one that repeats for the end   *)
(* of its type's cycle; DabEnsemble collects services and components from  *)
(* them, one type after the other, as some types mean nothing without what *)
(* others have told.  A registered callback gets the FIGs seen so far and  *)
(* then each new one.  At the end it calls the tuner and drops its         *)
(* callbacks.                                                              *)
(*                                                                         *)
(* Two threads: the tuner's pushes FIBs into the parser's queue and resets *)
(* the ensemble when it tunes, the parser's own handles the FIGs.  A reset *)
(* puts a new parser in place and then waits for the old one's thread,     *)
(* which goes on to the end of its FIB and finds the new one in m_ficPtr.  *)
(*                                                                         *)
(* Receive is the parser thread handling a FIG: the queue only delays, and *)
(* is cleared by a reset; only a reset interferes with the thread.         *)
(* The texts of labels, the ensemble's identity and FIG types nothing      *)
(* waits for are left out.                                                 *)
(***************************************************************************)
EXTENDS Integers, Sequences, FiniteSets

CONSTANTS
  Multiplexes,  \* what may be on the air, by name, see MultiplexAssumption
  Slow,         \* types of rate B are sent in one frame of Slow
  MaxLost,      \* bound: FIGs lost
  MaxTunes      \* bound: resets

RateA == {"0/1", "0/2", "0/3"}
RateB == {"0/8", "0/9", "0/13", "0/14", "1/0", "1/1"}
Types == RateA \cup RateB

(* The types whose FIGs the parser remembers. *)
Remembered == Types \ {"0/9"}

Components(m) == UNION {m.members[s] : s \in m.services}
Streams(m) == Components(m) \ m.packets
Described(m, t) == UNION {m.cycle[t][i] : i \in DOMAIN m.cycle[t]}

(* members: the components of each service; packets: those in packet mode, *)
(* the others are audio streams; subchannel: where each one is; cycle: the *)
(* FIGs of each type, each given by the services, components or            *)
(* subchannels it describes.  A service is what a FIG 0/2 describes.  No   *)
(* stream shares its subchannel: of two that do, fig00_02_input keeps the  *)
(* first.                                                                  *)
MultiplexAssumption ==
  /\ Slow \in Nat \ {0} /\ MaxLost \in Nat /\ MaxTunes \in Nat
  /\ \A m \in {Multiplexes[n] : n \in DOMAIN Multiplexes} :
       /\ m.packets \subseteq Components(m)
       /\ \A c \in Streams(m), d \in Components(m) :
            c # d => m.subchannel[c] # m.subchannel[d]
       /\ Described(m, "0/2") = m.services
       /\ \A t \in Types :
            /\ m.cycle[t] \in Seq({m.cycle[t][i] : i \in DOMAIN m.cycle[t]})
            /\ \A i, j \in DOMAIN m.cycle[t] :
                 i # j => m.cycle[t][i] # m.cycle[t][j]
ASSUME MultiplexAssumption

VARIABLES
  mux,       \* the name of the multiplex on the air
  next,      \* per type, the FIG of its cycle sent next
  due,       \* per type, the FIGs to send in this frame
  frame,     \* the frame, counted modulo Slow
  heard,     \* whether reception has begun
  lost,      \* FIGs lost so far
  atFib,     \* whether the old parser's thread is at a FIB in a reset
  seen,      \* per type, m_parsedFigXXXX of the parser that thread is in
  callbacks, \* types with a callback at that parser; "done0", "done1"
  early,     \* types with one at its successor, during a reset
  done,      \* types whose m_figXXXdone is set
  ensemble,  \* m_servicesMap and the component maps
  finished,  \* m_ensembleCollectFinished
  tuner,     \* "runs", or "joins" the old parser's thread in a reset
  tunes,     \* resets so far
  told       \* history: times the tuner was called since the reset

air  == <<mux, next, due, frame, heard, lost>>
book == <<callbacks, early, done, finished, told>>
vars == <<air, atFib, seen, book, ensemble, tuner, tunes>>

-----------------------------------------------------------------------------
(* The transmitter: in every frame the FIGs of rate A, all of each cycle,  *)
(* and in one of Slow frames one FIG of each type of rate B; in any order. *)
OnAir == Multiplexes[mux]
Length(n, t) == Len(Multiplexes[n].cycle[t])

Share(n, t, f) ==
  IF t \in RateA THEN Length(n, t)
  ELSE IF f = 0 /\ Length(n, t) > 0 THEN 1 ELSE 0

StartOf(n) ==
  /\ mux' = n
  /\ next' = [t \in Types |-> 1]
  /\ frame' = 0
  /\ due' = [t \in Types |-> Share(n, t, 0)]

Fig(t) == [type |-> t, index |-> next[t]]

Left(t) == [due EXCEPT ![t] = @ - 1]
LastOfFrame(t) == \A u \in Types : Left(t)[u] = 0

Sent(t) ==
  LET left == Left(t)
      following == (frame + 1) % Slow
  IN /\ due[t] > 0
     /\ next' = [next EXCEPT ![t] = (@ % Length(mux, t)) + 1]
     /\ IF LastOfFrame(t)
        THEN /\ frame' = following
             /\ due' = [u \in Types |-> Share(mux, u, following)]
        ELSE /\ frame' = frame
             /\ due' = left
     /\ mux' = mux

-----------------------------------------------------------------------------
(* DabEnsemble's handlers, each as what it adds to the ensemble e from the *)
(* set b that the FIG describes.                                           *)
Known(e) == UNION {OnAir.members[s] : s \in e.services}
KnownPackets(e) == Known(e) \cap OnAir.packets
KnownStreams(e) == Known(e) \ OnAir.packets

(* The known components with subchannel b, as far as it is known. *)
On(e, b) ==
  {c \in KnownStreams(e) \cup (KnownPackets(e) \cap e.located) :
     OnAir.subchannel[c] \in b}

Fig00_02(e, b) == b

\* Mutant: a FIG 0/3 for a component that is not known is kept.
MutantFig00_03(e, b) == b

Fig00_03(e, b) == b \cap KnownPackets(e)
Fig00_01(e, b) == On(e, b)
Fig00_08(e, b) == IF KnownStreams(e) = {} THEN {} ELSE b \cap Known(e)
Fig00_13(e, b) == b \cap Known(e) \cap e.numbered
Fig01_01(e, b) == b \cap e.services

(* Of the packet components of a subchannel only the first. *)
Fig00_14(e, b) ==
  {(CHOOSE c \in On(e, {x}) : TRUE) :
     x \in {y \in b : On(e, {y}) \cap OnAir.packets # {}}}

(* What the FIGs' descriptions in got, per type, make of the ensemble. *)
Apply(e, got) ==
  [services |-> e.services \cup Fig00_02(e, got["0/2"]),
   located  |-> e.located  \cup Fig00_03(e, got["0/3"]),
   placed   |-> e.placed   \cup Fig00_01(e, got["0/1"]),
   numbered |-> e.numbered \cup Fig00_08(e, got["0/8"]),
   apps     |-> e.apps     \cup Fig00_13(e, got["0/13"]),
   fec      |-> e.fec      \cup Fig00_14(e, got["0/14"]),
   labelled |-> e.labelled \cup Fig01_01(e, got["1/1"]),
   ecc      |-> e.ecc \/ got["0/9"] # {}]

Empty ==
  [services |-> {}, located |-> {}, placed |-> {}, numbered |-> {},
   apps |-> {}, fec |-> {}, labelled |-> {}, ecc |-> FALSE]

(* checkServiceSanity: subchannel, start address and protection of every   *)
(* component, for an audio stream the label and the country code too. *)
Sane(e) ==
  \A s \in e.services : \A c \in OnAir.members[s] :
    /\ c \in e.placed
    /\ c \in OnAir.packets => c \in e.located
    /\ c \notin OnAir.packets => s \in e.labelled /\ e.ecc

-----------------------------------------------------------------------------
(* fig_00_done_cb and fig_01_done_cb: the types they register callbacks    *)
(* for, and those they mark as done, when a FIG of type t has repeated.    *)
Registers(t, e) ==
  CASE t = "0/2" /\ t \notin done ->
         IF KnownPackets(e) # {} THEN {"0/3"} ELSE {"0/1"}
    [] t = "0/3" /\ done \cap {"0/3", "0/8"} = {} -> {"0/1"}
    [] t = "0/1" /\ t \notin done /\ "0/3" \in done -> {"0/8"}
    [] t = "0/8" /\ t \notin done /\ {"0/1", "0/3"} \subseteq done ->
         {"0/13", "0/14", "0/9", "1/0", "1/1", "done1"}
    [] OTHER -> {}

\* Mutant: only packet mode FIGs tell that there are no packet components.
MutantMarks(t, e) ==
  IF t \in {"0/1", "0/3", "0/8"} /\ Registers(t, e) = {} THEN {} ELSE {t}

Marks(t, e) ==
  CASE t \in {"0/1", "0/3", "0/8"} -> IF Registers(t, e) = {} THEN {} ELSE {t}
    [] t = "0/2" /\ t \notin done /\ KnownPackets(e) = {} ->
         {"0/2", "0/3", "0/13", "0/14"}
    [] OTHER -> {t}

Needed == {"0/1", "0/2", "0/3", "0/8", "0/13", "1/0", "1/1"}

DoneCallback(t) == IF t \in {"1/0", "1/1"} THEN "done1" ELSE "done0"

\* Mutant: a new callback is only given what comes from then on.
MutantReplay(t) == {}

(* What a newly registered callback of type t is given. *)
Replay(t) == IF t \in Types THEN UNION {OnAir.cycle[t][i] : i \in seen[t]} ELSE {}

\* Mutant: any second FIG of a type counts as a repetition.
MutantRepeats(f) == seen[f.type] # {}

Repeats(f) == f.index \in seen[f.type]

(* The ensemble after FIG f went to its type's callback, if there is one.  *)
Dispatched(f) ==
  Apply(ensemble, [t \in Types |->
    IF t = f.type /\ t \in callbacks THEN OnAir.cycle[t][f.index] ELSE {}])

Remember(f) ==
  seen' = IF f.type \in Remembered
          THEN [seen EXCEPT ![f.type] = @ \cup {f.index}]
          ELSE seen

(* A FIG that does not repeat, or whose repetition nobody wants to know. *)
ParseFig(f) ==
  /\ ~Repeats(f) \/ DoneCallback(f.type) \notin callbacks
  /\ Remember(f)
  /\ ensemble' = Dispatched(f)
  /\ UNCHANGED book

\* Mutant: m_00DonePtr is kept.
MutantKept == {"done0"}

(* The callbacks checkServiceSanity does not set to null. *)
Kept == {}

(* A FIG that repeats.  During a reset m_ficPtr is the new parser, which   *)
(* has seen nothing; the old one loses the callbacks registered there.     *)
ParseRepeated(f) ==
  /\ Repeats(f)
  /\ DoneCallback(f.type) \in callbacks
  /\ LET dispatched == Dispatched(f)
         registered == Registers(f.type, dispatched)
         e == IF tuner = "runs" /\ registered # {}
              THEN Apply(dispatched, [u \in Types |->
                     IF u \in registered THEN Replay(u) ELSE {}])
              ELSE dispatched
         marked == done \cup Marks(f.type, dispatched)
         ends == /\ DoneCallback(f.type) = "done0"
                 /\ Needed \subseteq marked
                 /\ Sane(e)
     IN /\ ensemble' = e
        /\ done' = marked
        /\ finished' = (finished \/ ends)
        /\ told' = IF ends THEN told + 1 ELSE told
        /\ callbacks' = IF ends THEN callbacks \cap Kept
                        ELSE IF tuner = "runs" THEN callbacks \cup registered
                        ELSE callbacks \ registered
        /\ early' = IF ends \/ tuner = "runs" THEN {} ELSE early \cup registered
  /\ UNCHANGED seen

Parse(f) == ParseFig(f) \/ ParseRepeated(f)

(* While the tuner resets the ensemble it reads no FIC. *)
Receive(t) ==
  /\ tuner = "runs"
  /\ Sent(t)
  /\ Parse(Fig(t))
  /\ heard' = TRUE
  /\ UNCHANGED <<lost, atFib, tuner, tunes>>

(* Nothing is lost of what is sent before reception begins.  A FIG is lost *)
(* with its FIB, whose CRC fails. *)
Lose(t) ==
  /\ tuner = "runs"
  /\ heard => lost < MaxLost
  /\ lost' = IF heard THEN lost + 1 ELSE lost
  /\ Sent(t)
  /\ UNCHANGED <<heard, atFib, seen, book, ensemble, tuner, tunes>>

-----------------------------------------------------------------------------
(* reset: up to the old parser's destructor, which clears its queue and    *)
(* joins its thread, and from there on.  The thread may be at a FIB.  The  *)
(* tuner changes the frequency after the reset. *)
ResetStart ==
  /\ tuner = "runs"
  /\ tunes < MaxTunes
  /\ tunes' = tunes + 1
  /\ tuner' = "joins"
  /\ finished' = FALSE
  /\ atFib' \in BOOLEAN
  /\ UNCHANGED <<air, seen, callbacks, early, done, told, ensemble>>

(* It handles one FIG after the other of the FIB, and of those of the      *)
(* frame that it takes from the queue before that is cleared. *)
OldThread(t) ==
  /\ atFib
  /\ Sent(t)
  /\ Parse(Fig(t))
  /\ atFib' \in {FALSE, ~LastOfFrame(t)}
  /\ UNCHANGED <<heard, lost, tuner, tunes>>

ResetEnd(n) ==
  /\ tuner = "joins"
  /\ ~atFib
  /\ tuner' = "runs"
  /\ seen' = [t \in Types |-> {}]
  /\ ensemble' = Empty
  /\ done' = {}
  /\ callbacks' = early \cup {"0/2", "done0"}
  /\ early' = {}
  /\ told' = 0
  /\ StartOf(n)
  /\ heard' = FALSE
  /\ UNCHANGED <<lost, atFib, finished, tunes>>

-----------------------------------------------------------------------------
Init ==
  /\ mux \in DOMAIN Multiplexes
  /\ next = [t \in Types |-> 1]
  /\ frame = 0
  /\ due = [t \in Types |-> Share(mux, t, 0)]
  /\ heard = FALSE
  /\ lost = 0
  /\ atFib = FALSE
  /\ seen = [t \in Types |-> {}]
  /\ callbacks = {"0/2", "done0"}
  /\ early = {}
  /\ done = {}
  /\ ensemble = Empty
  /\ finished = FALSE
  /\ tuner = "runs"
  /\ tunes = 0
  /\ told = 0

SomeFig == \E t \in Types : Receive(t)
OldThreadParses == \E t \in Types : OldThread(t)
ResetEnds == \E n \in DOMAIN Multiplexes : ResetEnd(n)

Next ==
  \/ SomeFig
  \/ \E t \in Types : Lose(t)
  \/ ResetStart
  \/ OldThreadParses
  \/ ResetEnds

(* The transmitter does not stop, nor do the threads: again and again a FIG *)
(* is received, the old thread parses or a reset ends.  These are the other *)
(* steps.  One of them is enabled in every state, so what Spec asks of them *)
(* is weak fairness.                                                       *)
Progress == ~(\E t \in Types : Lose(t)) /\ ~ResetStart

Spec == Init /\ [][Next]_vars /\ []<><<Progress>>_vars

-----------------------------------------------------------------------------
(* The state is what the code can hold; nothing is collected of a          *)
(* component or service that is not known. *)
TypeOK ==
  /\ mux \in DOMAIN Multiplexes
  /\ \A t \in Types : due[t] \in 0..Length(mux, t)
  /\ frame \in 0..(Slow - 1) /\ lost \in 0..MaxLost /\ tunes \in 0..MaxTunes
  /\ \A t \in Types : seen[t] \subseteq DOMAIN OnAir.cycle[t]
  /\ callbacks \cup early \subseteq Types \cup {"done0", "done1"}
  /\ done \subseteq Types
  /\ ensemble.services \subseteq OnAir.services
  /\ ensemble.labelled \subseteq ensemble.services
  /\ ensemble.located \cup ensemble.fec \subseteq KnownPackets(ensemble)
  /\ ensemble.placed \cup ensemble.numbered \cup ensemble.apps
       \subseteq Known(ensemble)
  /\ finished \in BOOLEAN /\ atFib \in BOOLEAN /\ tuner \in {"runs", "joins"}

(* A type is marked as done only when every FIG of its cycle has been      *)
(* seen: ficparser.cpp:123, "tell callbacks that there will be no new      *)
(* FIGs".  Without packet components the types about them are done by      *)
(* definition. *)
DoneMeansSeen ==
  \A t \in done :
    \/ seen[t] = DOMAIN OnAir.cycle[t]
    \/ t \in {"0/3", "0/13", "0/14"} /\ OnAir.packets = {}

(* All there is to know about the multiplex, but for the FEC scheme; of    *)
(* user applications only where the collection waits for them.             *)
Complete(e, m) ==
  /\ e.services = m.services
  /\ e.located = m.packets
  /\ e.placed = Components(m)
  /\ m.packets # {} => e.apps = Described(m, "0/13")
  /\ e.labelled = Described(m, "1/1")
  /\ e.ecc

(* When the tuner is told that the ensemble is collected, no service,      *)
(* component, user application or label of it is missing: whatever order   *)
(* the types' cycles came in, and also in the middle of a reset.  It needs *)
(* rate B to be the slower one, and does not survive a second reset (see   *)
(* the README).                                                            *)
ToldComplete == [][told' > told => Complete(ensemble', OnAir)]_vars

(* The tuner is told once between two resets. *)
ToldOnce == told <= 1

(* Without losses the collection ends. *)
CollectionEnds == <>[](told = 1)

=============================================================================
