------------------------------ MODULE LoginLoop ------------------------------
(***************************************************************************)
(* AppleAccount::login_with_anisette (icloud-auth/src/client.rs): the      *)
(* driver loop that creates an account, logs in with the credentials of   *)
(* the closure and follows the returned LoginState until LoggedIn or      *)
(* NeedsExtraStep, asking the 2FA closure for codes on the way.  Each     *)
(* iteration of the loop is one step; any `?` error ends the function.     *)
(***************************************************************************)
EXTENDS Naturals, Sequences, FiniteSets, TLC, TokenExpiry

CONSTANTS
    Services, PetService, HbService, CorrectPassword, WrongPassword, NoPassword, NoCall,
    SpdLifetimes, SpdExpiries, TtlValues, RestoredPetTtl, Start, MaxTime

VARIABLES
    spd, username, hashedPassword, tokens, now, held, gt, pending, last,
    password,    \* the password of appleid_closure(), or NoPassword before it is called
    response,    \* the LoginState the loop matches on, "start" before the first login
    result       \* "running", or how login_with_anisette ended: "Ok", "Err" or a panic

A == INSTANCE AppleAccount

accountVars == <<spd, username, hashedPassword, tokens, now, held, gt, pending, last>>

vars == <<accountVars, password, response, result>>

TypeOK ==
    /\ A!TypeOK
    /\ password \in A!Passwords \cup {NoPassword}
    /\ response \in A!LoginStates \cup {"start", "Err", "panic"}
    /\ result \in {"running", "Ok", "Err", "panic"}

Init ==
    /\ A!InitNew
    /\ now = Start
    /\ held = FALSE
    /\ gt = NoCall
    /\ pending = "none"
    /\ last = A!Returned("none", "-")
    /\ password = NoPassword
    /\ response = "start"
    /\ result = "running"

(* `?` on the step's result: an error ends the function with Err, and a   *)
(* panic of the step ends it too.                                          *)
Continue ==
    result' = IF response' \in {"Err", "panic"} THEN response' ELSE "running"

(* The first login_email_pass, and the one after NeedsLogin, with the     *)
(* credentials read once from appleid_closure.                             *)
Login ==
    /\ result = "running"
    /\ response \in {"start", "NeedsLogin"}
    /\ \E pw \in A!Passwords :
         /\ password' = IF response = "start" THEN pw ELSE password
         /\ \E o \in A!LoginOutcomes(password') :
              /\ A!LoginEffect(password', o)
              /\ last' = A!Returned("login", A!LoginResult(o))
              /\ response' = A!LoginResult(o)
    /\ Continue
    /\ UNCHANGED <<now, held, gt, pending>>

(* NeedsSMS2FA | NeedsDevice2FA: send_2fa_to_devices, whose result is      *)
(* discarded (so Needs2FAVerification never reaches the loop), then        *)
(* send_sms_2fa_to_devices(1).  These states come only from a login that *)
(* completed, so the SPD that build_2fa_headers unwraps is always there.   *)
SendCodes ==
    /\ result = "running"
    /\ response \in {"NeedsSMS2FA", "NeedsDevice2FA"}
    /\ \E pushOk, smsOk \in BOOLEAN :
         /\ response' = IF pushOk /\ smsOk THEN "NeedsSMS2FAVerification" ELSE "Err"
         /\ held' = (held \/ (pushOk /\ smsOk))
         /\ last' = A!Returned(IF pushOk THEN "send_sms" ELSE "send_2fa", response')
    /\ Continue
    /\ UNCHANGED <<spd, username, hashedPassword, tokens, now, gt, pending, password>>

(* NeedsSMS2FAVerification(body): verify_sms_2fa(tfa_closure(), body).    *)
VerifySms ==
    /\ result = "running"
    /\ response = "NeedsSMS2FAVerification"
    /\ A!VerifySms2FA
    /\ response' = last'.val
    /\ Continue
    /\ UNCHANGED password

(* LoggedIn returns the account; NeedsExtraStep returns it when a PET is  *)
(* held and fails with Error::ExtraStep otherwise.                          *)
Return ==
    /\ result = "running"
    /\ response \in {"LoggedIn", "NeedsExtraStep"}
    /\ result' = IF response = "LoggedIn" \/ PetService \in DOMAIN tokens
                   THEN "Ok" ELSE "Err"
    /\ UNCHANGED <<accountVars, password, response>>

(* The user takes time to read and type a code.                            *)
Tick ==
    /\ result = "running"
    /\ A!Tick
    /\ UNCHANGED <<password, response, result>>

Next ==
    \/ Login
    \/ SendCodes
    \/ VerifySms
    \/ Return
    \/ Tick

Spec == Init /\ [][Next]_vars

-----------------------------------------------------------------------------
(* Properties                                                              *)

(* When login_with_anisette hands back an account, a PET it holds was     *)
(* issued by the latest authentication step: NeedsExtraStep is accepted  *)
(* on the strength of get_pet(), which must not find a PET left over from *)
(* an earlier round of the loop.                                           *)
ReturnedPetFromLatestGrant ==
    result = "Ok" /\ PetService \in DOMAIN tokens => tokens[PetService].fresh

=============================================================================
