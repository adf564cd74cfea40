----------------------------- MODULE MCLogRelay -----------------------------
(* The log relay instantiated for TLC: Nil and LostWarning are model values *)
(* of the cfg files.                                                       *)
EXTENDS LogRelay

====
