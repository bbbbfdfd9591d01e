------------------------------ MODULE MCGates ------------------------------
(* Instances of Gates for TLC.  The first gate is an upper bound (RAM in    *)
(* percent, scaled), the second a lower one (free space).  With threshold   *)
(* 20 the readings 17, 19 and 21 are beyond the hysteresis zone, inside it  *)
(* and across the upper bound; 21, 19 and 17 are the same for the lower one *)
(* with threshold 18.                                                       *)
EXTENDS Gates

MCOperator == <<">", "<">>
MCThreshold == <<20, 18>>
MCDuration == <<2, 1>>
MCOne == <<">">>
MCOneThreshold == <<20>>
MCOneDuration == <<2>>
MCValues == {17, 19, 21}
=============================================================================
