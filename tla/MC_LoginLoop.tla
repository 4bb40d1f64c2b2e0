--------------------------- MODULE MC_LoginLoop ---------------------------
(* The login_with_anisette driver loop over an account with the PET and two header    *)
(* services, on the same time scale as MC_AppleAccount.                    *)
EXTENDS LoginLoop

CONSTANTS pet, gs, hb

MCServices == {pet, gs, hb}

=============================================================================
