---------------------------- MODULE MCTallyDevice ----------------------------
(***************************************************************************)
(* Small instances of the tally device and its switcher for TLC.           *)
(***************************************************************************)
EXTENDS TallyDevice

OneSession  == {1}
TwoSessions == {1, 2}

==============================================================================
