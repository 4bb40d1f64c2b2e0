---------------------------- MODULE TokenExpiry ----------------------------
(***************************************************************************)
(* How AppleAccount turns the ttl fields the 2FA endpoints send in the     *)
(* X-Apple-GS-Token / X-Apple-HB-Token / X-Apple-PE-Token headers into an  *)
(* expiration instant (icloud-auth/src/client.rs, verify_2fa,              *)
(* verify_sms_2fa, parse_pet_header).                                      *)
(*                                                                         *)
(* A header decodes to "id:token[:f1[:f2]]"; the fields after the token    *)
(* are kept as a sequence of numbers.  Instants are in seconds since the   *)
(* epoch; a field is read either as milliseconds since the epoch or as a   *)
(* number of seconds from now, decided by its size alone.  The constants   *)
(* are the code's numbers in a smaller scale that keeps their order:       *)
(* "now" read in milliseconds is above FortyYearsMs, as it is in reality.  *)
(***************************************************************************)
EXTENDS Naturals, Sequences

CONSTANTS
    FortyYearsMs,   \* 40 * 365 * 24 * 60 * 60 * 1000
    MsPerSec,       \* Duration::from_millis vs from_secs
    DefaultTtl,     \* unwrap_or(31536000): one year, in seconds
    DefaultPetTtl   \* unwrap_or(300) in parse_pet_header, in seconds

ASSUME FortyYearsMs \in Nat /\ MsPerSec \in Nat \ {0}
ASSUME DefaultTtl \in Nat /\ DefaultPetTtl \in Nat

(* The ttl-ambiguity heuristic: above forty years in milliseconds the     *)
(* number is UNIX_EPOCH + from_millis(exp), otherwise now + from_secs(exp).*)
ExpiryFromTtl(exp, now) ==
    IF exp > FortyYearsMs THEN exp \div MsPerSec ELSE now + exp

(* verify_2fa: parts.get(2), i.e. the first field after the token.        *)
Ttl2FA(fields) == IF Len(fields) >= 1 THEN fields[1] ELSE DefaultTtl

(* verify_sms_2fa: parts.get(3).or(parts.get(2)).                          *)
TtlSms(fields) ==
    IF Len(fields) >= 2 THEN fields[2]
    ELSE IF Len(fields) = 1 THEN fields[1] ELSE DefaultTtl

(* parse_pet_header: now + from_secs(nth(2).unwrap_or(300)), never read   *)
(* as an absolute instant.                                                *)
PetExpiry(fields, now) ==
    now + (IF Len(fields) >= 1 THEN fields[1] ELSE DefaultPetTtl)

=============================================================================
