---------------------------- MODULE MCCallbacks ----------------------------
(* Values for the constants of Callbacks that a .cfg cannot write.         *)
EXTENDS Callbacks

SomeSettings ==
  {<<"A", "unnamed">>, <<"either", "named">>, <<"either", "none">>, <<"both", "named">>, <<"receive", "unnamed">>}
=============================================================================
