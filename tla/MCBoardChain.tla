---------------------------- MODULE MCBoardChain ----------------------------
(* Small instances of BoardChain for TLC.                                  *)
EXTENDS BoardChain
=============================================================================
