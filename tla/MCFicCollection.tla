--------------------------- MODULE MCFicCollection ---------------------------
(* Two multiplexes: a music service alone, and next to a data service in   *)
(* packet mode.  Each service has a FIG 0/2 of its own.                    *)
EXTENDS FicCollection, TLC

Radio ==
  [services |-> {"music"},
   members |-> "music" :> {"audio"},
   packets |-> {},
   subchannel |-> "audio" :> 1,
   cycle |->
     "0/1" :> <<{1}>> @@ "0/2" :> <<{"music"}>> @@ "0/3" :> <<>> @@
     "0/8" :> <<{"audio"}>> @@ "0/9" :> <<{"country"}>> @@
     "0/13" :> <<>> @@ "0/14" :> <<>> @@
     "1/0" :> <<{"label"}>> @@ "1/1" :> <<{"music"}>>]

RadioAndData ==
  [services |-> {"music", "traffic"},
   members |-> "music" :> {"audio"} @@ "traffic" :> {"tpeg"},
   packets |-> {"tpeg"},
   subchannel |-> "audio" :> 1 @@ "tpeg" :> 2,
   cycle |->
     "0/1" :> <<{1, 2}>> @@ "0/2" :> <<{"music"}, {"traffic"}>> @@
     "0/3" :> <<{"tpeg"}>> @@ "0/8" :> <<{"audio", "tpeg"}>> @@
     "0/9" :> <<{"country"}>> @@ "0/13" :> <<{"tpeg"}>> @@ "0/14" :> <<>> @@
     "1/0" :> <<{"label"}>> @@ "1/1" :> <<{"music"}>>]

OnTheAir == "radio" :> Radio @@ "data" :> RadioAndData

=============================================================================
