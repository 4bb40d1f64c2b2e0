---------------------------- MODULE MC_TokenExpiry ----------------------------
(* The ttl-ambiguity heuristic of TokenExpiry checked, over every ttl up  *)
(* to twice the threshold and every clock reading of the model, against   *)
(* the classification the specification prescribes.  Each initial state  *)
(* is one input: a ttl field and the clock reading it is parsed at.       *)
EXTENDS Naturals, TokenExpiry

CONSTANTS Now   \* the clock readings, in seconds

VARIABLE probe

(* The reference: a number at or above forty years in milliseconds is an *)
(* absolute epoch-millisecond instant, anything below is relative seconds.*)
SpecExpiryFromTtl(exp, now) ==
    IF exp >= FortyYearsMs THEN exp \div MsPerSec ELSE now + exp

Init == probe \in [exp : 0..(2 * FortyYearsMs), now : Now]

Next == UNCHANGED probe

Spec == Init /\ [][Next]_probe

(* verify_2fa and verify_sms_2fa classify every ttl field exactly as the  *)
(* ttl-ambiguity heuristic prescribes, the boundary value included.       *)
TtlClassifiedAsSpecified ==
    ExpiryFromTtl(probe.exp, probe.now) = SpecExpiryFromTtl(probe.exp, probe.now)

=============================================================================
