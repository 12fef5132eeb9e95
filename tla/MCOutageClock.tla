--------------------------- MODULE MCOutageClock ---------------------------
(* Values of the constants of OutageClock.                                 *)
EXTENDS OutageClock

BackFar    == {-16}
BackAndOn  == {-6, 9}

\* A behaviour is followed up to its last transition.
Unfinished == flips < MaxFlips
=============================================================================
