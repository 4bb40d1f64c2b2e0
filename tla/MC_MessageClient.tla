--------------------------- MODULE MC_MessageClient ---------------------------
(* A receive task behind a two-slot broadcast channel and four messages:  *)
(* enough for the receiver to lag and for stop to race a running poll.      *)
EXTENDS MessageClient

=============================================================================
