--------------------------- MODULE MC_LoginSession ---------------------------
(* The bridge's login flow over an account with the PET and two header    *)
(* services, on the same time scale as MC_AppleAccount.                    *)
EXTENDS LoginSession

CONSTANTS pet, gs, hb

MCServices == {pet, gs, hb}

=============================================================================
