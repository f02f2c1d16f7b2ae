-------------------------- MODULE MCBatteryMonitor --------------------------
(* Small instances of BatteryMonitor for TLC: the temperatures around the  *)
(* limits and around 25 degrees, in half degrees, or all from -30 to 70.   *)
EXTENDS BatteryMonitor

AroundLimits == 49..52 \cup 88..92 \cup 118..122
OnePerBand == {Deg(26), Deg(45), Deg(60)}

AllTemps == Deg(-30)..Deg(70)
OnWaking == {Deg(-20), Deg(30), Deg(65)}
=============================================================================
