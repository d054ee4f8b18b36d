----------------------------- MODULE MCFileOutput -----------------------------
(* FileOutput with the rollover intervals fixed for TLC.                   *)
EXTENDS FileOutput

Daily == {2}
HourlyOrDaily == {1, 2}

===============================================================================
