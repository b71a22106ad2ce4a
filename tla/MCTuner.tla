------------------------------ MODULE MCTuner ------------------------------
EXTENDS Tuner
MCServices == {[chan |-> 1, sub |-> 5], [chan |-> 1, sub |-> 6], [chan |-> 3, sub |-> 5]}
=============================================================================
