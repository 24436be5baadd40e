------------------------------ MODULE MCTimers ------------------------------
\* The two kinds of timer share the main loop and nothing else: one at a time.
EXTENDS Timers

MCUsed == {{"pit"}, {"dtim"}}
=============================================================================
