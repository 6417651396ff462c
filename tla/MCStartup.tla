------------------------------ MODULE MCStartup ------------------------------
(* Startup on its own for TLC.                                               *)
EXTENDS Startup

\* A migration of each kind.
MCKinds == <<"create", "alter", "move">>
==============================================================================
