----------------------------- MODULE MCGPSControl -----------------------------
(* GPSControl with the user's choices fixed for TLC.                       *)
EXTENDS GPSControl

Setting(gps, timeout, clusterer, manage) ==
  [gps |-> gps, timeout |-> timeout, clusterer |-> clusterer, manage |-> manage]

AnySetting == {Setting(g, t, c, m) : g, t, c, m \in BOOLEAN}

===============================================================================
