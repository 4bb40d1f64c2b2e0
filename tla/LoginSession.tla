---------------------------- MODULE LoginSession ----------------------------
(***************************************************************************)
(* The Go-facing login flow of the rustpushgo bridge                       *)
(* (pkg/rustpushgo/src/lib.rs): login_start, LoginSession::submit_2fa and *)
(* LoginSession::finish, driving one AppleAccount (module AppleAccount).   *)
(*                                                                         *)
(* The session keeps the account in tokio::sync::Mutex<Option<..>>; both  *)
(* submit_2fa and finish hold that lock for their whole body, so calls    *)
(* from several goroutines run one after the other and each is one step   *)
(* here.  Time passes between calls.  finish's network steps (delegates,  *)
(* IDS authentication, identity, registration) are abstracted to the      *)
(* stage at which they fail, if they do.                                   *)
(***************************************************************************)
EXTENDS Naturals, Sequences, FiniteSets, TLC, TokenExpiry

CONSTANTS
    Services, PetService, HbService, CorrectPassword, WrongPassword, NoPassword, NoCall,
    SpdLifetimes, SpdExpiries, TtlValues, RestoredPetTtl, Start, MaxTime

VARIABLES
    spd, username, hashedPassword, tokens, now, held, gt, pending, last,
    session,     \* "none" before login_start returns, "failed", "active" (Some(account)), "consumed" (None)
    needs2fa,    \* LoginSession.needs_2fa
    ret,         \* what the last bridge call returned to Go
    provider,    \* the PET handed to TokenProvider and AccountPersistData by finish
    pushed       \* login_start's send_2fa_to_devices returned Ok

A == INSTANCE AppleAccount

accountVars == <<spd, username, hashedPassword, tokens, now, held, gt, pending, last>>

vars == <<accountVars, session, needs2fa, ret, provider, pushed>>

NoProvider == [made |-> FALSE, pet |-> A!NoToken]

TypeOK ==
    /\ A!TypeOK
    /\ session \in {"none", "failed", "active", "consumed"}
    /\ needs2fa \in BOOLEAN
    /\ ret \in {"-", "Err", "Ok", "true", "false", "panic"}
    /\ provider \in [made : BOOLEAN, pet : A!Token]
    /\ pushed \in BOOLEAN

(* Before login_start: a new account (new_with_anisette).                 *)
Init ==
    /\ A!InitNew
    /\ now = Start
    /\ held = FALSE
    /\ gt = NoCall
    /\ pending = "none"
    /\ last = A!Returned("none", "-")
    /\ session = "none"
    /\ needs2fa = FALSE
    /\ ret = "-"
    /\ provider = NoProvider
    /\ pushed = FALSE

\* Variant of LoginStartSession: the error of login_email_pass is logged
\* and the session handed back all the same.
LoginStartSessionNoErr(st, hasPet) ==
    IF st = "NeedsExtraStep" /\ ~hasPet THEN "failed" ELSE "active"

(* Whether login_start hands back a session for the state st of           *)
(* login_email_pass: its error is returned by `?`; NeedsExtraStep counts  *)
(* only when a PET is held.                                                *)
LoginStartSession(st, hasPet) ==
    IF st = "Err" THEN "failed"
    ELSE IF st = "NeedsExtraStep" /\ ~hasPet THEN "failed"
    ELSE "active"

(* login_start: login_email_pass with the SHA-256 of the trimmed password; *)
(* an error is returned; NeedsDevice2FA / NeedsSMS2FA push a code to the   *)
(* trusted devices, whose failure is only logged; NeedsExtraStep counts as *)
(* logged in when a PET is held and is an error otherwise.                 *)
LoginStart ==
    /\ session = "none"
    /\ \E pw \in A!Passwords, o \in A!LoginOutcome :
         /\ o \in A!LoginOutcomes(pw)
         /\ A!LoginEffect(pw, o)
         /\ LET st == A!LoginResult(o) IN
              /\ last' = A!Returned("login", st)
              /\ session' = LoginStartSession(st, PetService \in DOMAIN tokens')
              /\ needs2fa' = (st \in {"NeedsDevice2FA", "NeedsSMS2FA"})
              /\ IF needs2fa' THEN pushed' \in BOOLEAN ELSE pushed' = FALSE
              /\ ret' = IF session' = "failed" THEN "Err" ELSE "Ok"
    /\ UNCHANGED <<now, held, gt, pending, provider>>

(* submit_2fa(code): verify_2fa on the trusted-device endpoint whatever   *)
(* the account asked for; an error is returned; LoggedIn is true and any  *)
(* other state false.                                                      *)
Submit2FA ==
    /\ session = "active"
    /\ A!Verify2FA
    /\ ret' = CASE last'.val \in {"Err", "panic"} -> last'.val
                [] last'.val = "LoggedIn" -> "true"
                [] OTHER -> "false"
    /\ UNCHANGED <<session, needs2fa, provider, pushed>>

(* Where finish stops: once the PET has been read, serialising the SPD,   *)
(* the delegates request, the IDS delegate check, authenticate_apple, the *)
(* identity and the registration may each fail with `?`.                   *)
FinishStages == {"spd", "delegates", "ids", "auth", "identity", "register", "ok"}

(* finish: get_pet() (no expiry check) or "No PET token available";       *)
(* then the persist data and the network steps; only when all succeed is  *)
(* the account taken out of the session and the PET handed on.            *)
Finish ==
    /\ session = "active"
    /\ IF PetService \notin DOMAIN tokens
         THEN /\ ret' = "Err"
              /\ UNCHANGED <<session, provider>>
         ELSE \E stage \in FinishStages :
                /\ ret' = IF stage = "ok" THEN "Ok" ELSE "Err"
                /\ session' = IF stage = "ok" THEN "consumed" ELSE session
                /\ provider' = IF stage = "ok"
                                 THEN [made |-> TRUE, pet |-> tokens[PetService]]
                                 ELSE provider
    /\ UNCHANGED <<accountVars, needs2fa, pushed>>

(* Any call on the session once finish has taken the account.            *)
NoActiveSession ==
    /\ session = "consumed"
    /\ ret' = "Err"
    /\ UNCHANGED <<accountVars, session, needs2fa, provider, pushed>>

Tick ==
    /\ A!Tick
    /\ UNCHANGED <<session, needs2fa, ret, provider, pushed>>

Next ==
    \/ LoginStart
    \/ Submit2FA
    \/ Finish
    \/ NoActiveSession
    \/ Tick

(* The user may abandon the flow at any point: no fairness.                *)
Spec == Init /\ [][Next]_vars

-----------------------------------------------------------------------------
(* Properties                                                              *)

(* The PET that finish persists and gives to the TokenProvider was issued *)
(* by the latest successful authentication step of the session: no token *)
(* of a superseded grant survives verify_2fa into the provider.           *)
ProviderPetFromLatestGrant ==
    provider.made => provider.pet.fresh

(* finish hands on only an unexpired PET: the token store's get filters   *)
(* on expiration.                                                          *)
ProviderPetUnexpired ==
    [][~provider.made /\ provider'.made => provider'.pet.exp > now]_vars

(* A session login_start hands back with needs_2fa set is one for which  *)
(* the code was pushed to the trusted devices: an error of                 *)
(* send_2fa_to_devices reaches the caller instead of being only logged.   *)
CodeSentWhenNeeded ==
    session = "active" /\ needs2fa => pushed

(* submit_2fa is reached only on an account that has its SPD: a session  *)
(* is handed back only after a login_email_pass that completed, so        *)
(* build_2fa_headers never unwraps a missing SPD from the bridge.          *)
TwoFactorAfterSpd ==
    last.val # "panic"

=============================================================================
