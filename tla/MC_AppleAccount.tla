--------------------------- MODULE MC_AppleAccount ---------------------------
(* AppleAccount with two services (the PET and the HB header service) and the  *)
(* time constants scaled down to a few ticks: the constants keep their   *)
(* order (a PET's 300 s below a token's year), not their ratio.          *)
EXTENDS AppleAccount

CONSTANTS pet, gs, hb

MCServices == {pet, hb}

=============================================================================
