---------------------------- MODULE AppleAccount ----------------------------
(***************************************************************************)
(* AppleAccount of icloud-auth (icloud-auth/src/client.rs): the SRP login  *)
(* state machine, its two-factor calls and the token store `tokens` with   *)
(* get_token's single silent re-login.                                     *)
(*                                                                         *)
(* Every method takes &self or &mut self, so calls on one account never    *)
(* overlap; a call is one step, except get_token, whose re-login is a      *)
(* second step so that its termination can be stated.  The server is      *)
(* nondeterministic over the replies the code accepts; a reply the code    *)
(* unwraps and would panic on (missing field, bad M2, bad padding) is not  *)
(* produced.  The account's data is abstracted to what the token store     *)
(* and the returned LoginState depend on: whether an SPD is held, whether  *)
(* username / hashed_password are set, and per service the expiration of  *)
(* the token held.  `fresh` is a ghost field: TRUE while the token was     *)
(* issued by the latest successful authentication step.                    *)
(***************************************************************************)
EXTENDS Naturals, Sequences, FiniteSets, TLC, TokenExpiry

CONSTANTS
    Services,          \* token service ids ("com.apple.gs.idms.pet", "...hb", ...)
    PetService,        \* "com.apple.gs.idms.pet"
    HbService,         \* "com.apple.gs.idms.hb"
    CorrectPassword,   \* SHA-256 of the account's password
    WrongPassword,     \* SHA-256 of anything else
    NoPassword,        \* hashed_password = None
    NoCall,            \* no get_token in flight
    SpdLifetimes,      \* "duration" of an entry of the SPD's "t" dict, in seconds
    SpdExpiries,       \* "expiry" of an entry: milliseconds since the epoch
    TtlValues,         \* numbers the 2FA endpoints put in ttl fields
    RestoredPetTtl,    \* 30 days: restore_token_provider's PET lifetime
    Start,             \* wall clock when the account is created
    MaxTime            \* bound on the wall clock

ASSUME PetService \in Services /\ HbService \in Services \ {PetService}
ASSUME NoCall \notin Services
ASSUME SpdLifetimes \subseteq Nat /\ SpdExpiries \subseteq Nat /\ TtlValues \subseteq Nat
ASSUME Start \in Nat /\ MaxTime >= Start

Passwords == {CorrectPassword, WrongPassword}

(* The "id" of an X-Apple-GS-Token / X-Apple-HB-Token header.             *)
HeaderServices == Services \ {PetService}

(* The numeric fields after "id:token" in a decoded header: none, one or  *)
(* two of them.                                                            *)
Fields == {<<>>} \cup {<<a>> : a \in TtlValues} \cup {<<a, b>> : a, b \in TtlValues}

(* The value of Status.au in the "complete" reply.                        *)
AuValues == {"absent", "trustedDeviceSecondaryAuth", "secondaryAuth", "other"}

(* An entry of the SPD's "t" dictionary: an absolute "expiry" or else a   *)
(* "duration" from now.  Entries the code cannot read are dropped by its  *)
(* filter_map, which the choice of the dictionary's domain covers.        *)
SpdEntries == [abs : {TRUE}, v : SpdExpiries] \cup [abs : {FALSE}, v : SpdLifetimes]

(* The "t" dictionary of a decrypted SPD.                                  *)
SpdTokenDicts == UNION {[D -> SpdEntries] : D \in SUBSET Services}

(* The GS/HB headers of a 2FA reply: service -> fields.                   *)
HeaderDicts == UNION {[D -> Fields] : D \in SUBSET HeaderServices}

LoginStates == {"LoggedIn", "NeedsDevice2FA", "Needs2FAVerification",
                "NeedsSMS2FA", "NeedsSMS2FAVerification", "NeedsExtraStep",
                "NeedsLogin"}

Token == [fresh : BOOLEAN, exp : Nat]

NoToken == [fresh |-> FALSE, exp |-> 0]

VARIABLES
    spd,             \* spd.is_some()
    username,        \* username.is_some()
    hashedPassword,  \* hashed_password, or NoPassword
    tokens,          \* tokens: HashMap<String, FetchedToken> as a function
    now,             \* SystemTime::now(), in seconds
    held,            \* the caller holds a VerifyBody from send_sms_2fa_to_devices
    gt,              \* service of the get_token call awaiting its re-login, or NoCall
    pending,         \* the method that called that get_token, or "none"
    last             \* what the last completed call returned

vars == <<spd, username, hashedPassword, tokens, now, held, gt, pending, last>>

Callers == {"get_token", "circle", "update_postdata", "teardown"}

\* The calls that build their headers with build_2fa_headers.
TwoFactorOps == {"send_2fa", "send_sms", "verify_2fa", "verify_sms"}

(* What each method returns: its own LoginStates, Err, get_token's        *)
(* Option, or the Result of an HB-token caller.                           *)
Result ==
    [op : {"none"}, val : {"-"}, tok : {NoToken}]
    \cup [op : {"login"}, val : {"LoggedIn", "NeedsDevice2FA", "NeedsSMS2FA",
                                 "NeedsExtraStep", "Err"}, tok : {NoToken}]
    \cup [op : {"send_2fa"}, val : {"Needs2FAVerification", "Err"}, tok : {NoToken}]
    \cup [op : {"send_sms"}, val : {"NeedsSMS2FAVerification", "Err"}, tok : {NoToken}]
    \cup [op : {"verify_2fa", "verify_sms"}, val : {"LoggedIn", "NeedsLogin", "Err"},
          tok : {NoToken}]
    \cup [op : {"get_token"}, val : {"Some"}, tok : Token]
    \cup [op : {"get_token"}, val : {"None"}, tok : {NoToken}]
    \cup [op : Callers \ {"get_token"}, val : {"Ok", "Err"}, tok : {NoToken}]
    \cup [op : TwoFactorOps \cup {"circle"}, val : {"panic"}, tok : {NoToken}]

TypeOK ==
    /\ spd \in BOOLEAN
    /\ username \in BOOLEAN
    /\ hashedPassword \in Passwords \cup {NoPassword}
    /\ DOMAIN tokens \subseteq Services
    /\ \A s \in DOMAIN tokens : tokens[s] \in Token
    /\ now \in Start..MaxTime
    /\ held \in BOOLEAN
    /\ gt \in Services \cup {NoCall}
    /\ pending \in Callers \cup {"none"}
    /\ last \in Result

Returned(op, val) == [op |-> op, val |-> val, tok |-> NoToken]

EmptyMap == [s \in {} |-> NoToken]

EmptyDict == [s \in {} |-> 0]

(* AppleAccount::new_with_anisette: nothing set, empty token map.          *)
InitNew ==
    /\ spd = FALSE
    /\ username = FALSE
    /\ hashedPassword = NoPassword
    /\ tokens = EmptyMap

(* restore_token_provider (rustpushgo): username, hashed_password and SPD *)
(* from the persisted bundle, and only the PET, valid for 30 days.  The   *)
(* persisted password may no longer be the account's.                      *)
InitRestored ==
    /\ spd = TRUE
    /\ username = TRUE
    /\ hashedPassword \in Passwords
    /\ tokens = (PetService :> [fresh |-> TRUE, exp |-> Start + RestoredPetTtl])

Init ==
    /\ InitNew \/ InitRestored
    /\ now = Start
    /\ held = FALSE
    /\ gt = NoCall
    /\ pending = "none"
    /\ last = Returned("none", "-")

-----------------------------------------------------------------------------
(* login_email_pass                                                        *)

(* Where login_email_pass stops: "anisette" (get_anisette fails),         *)
(* "init" (the init request fails or Status.ec != 0), "challenge" (the    *)
(* complete request fails or ec != 0; a wrong password ends here) or "ok".*)
LoginOutcome == [stage : {"anisette", "init", "challenge", "ok"},
                 au : AuValues,
                 hasT : BOOLEAN,
                 t : SpdTokenDicts]

LoginOutcomes(pw) ==
    {o \in LoginOutcome :
        /\ o.stage = "ok" => pw = CorrectPassword
        /\ o.stage # "ok" => o.au = "absent" /\ ~o.hasT /\ o.t = EmptyDict
        /\ ~o.hasT => o.t = EmptyDict}

(* The state returned for Status.au.                                       *)
AuState(au) ==
    CASE au = "absent" -> "LoggedIn"
      [] au = "trustedDeviceSecondaryAuth" -> "NeedsDevice2FA"
      [] au = "secondaryAuth" -> "NeedsSMS2FA"
      [] OTHER -> "NeedsExtraStep"

(* Variant of LoginResult: a rejected login reads as NeedsLogin.         *)
LoginResultNeedsLogin(o) == IF o.stage = "ok" THEN AuState(o.au) ELSE "NeedsLogin"

(* The Result login_email_pass returns.                                    *)
LoginResult(o) == IF o.stage = "ok" THEN AuState(o.au) ELSE "Err"

(* The FetchedTokens of the SPD's "t" dict: expiry or now + duration.      *)
TokensFromSpd(t) ==
    [s \in DOMAIN t |-> [fresh |-> TRUE,
                         exp |-> IF t[s].abs THEN t[s].v \div MsPerSec ELSE now + t[s].v]]

(* Tokens kept across a successful step are no longer from its grant.     *)
Superseded(tk) == [s \in DOMAIN tk |-> [tk[s] EXCEPT !.fresh = FALSE]]

(* What one login_email_pass(username, pw) does to the account: username  *)
(* is set before the first await, hashed_password once the init reply has *)
(* passed check_error, SPD and tokens only after the complete reply has   *)
(* been checked and decrypted; "t" replaces the map only when present.    *)
LoginEffect(pw, o) ==
    /\ username' = TRUE
    /\ hashedPassword' = IF o.stage \in {"challenge", "ok"} THEN pw ELSE hashedPassword
    /\ IF o.stage = "ok"
         THEN /\ spd' = TRUE
              /\ tokens' = IF o.hasT THEN TokensFromSpd(o.t)
                           ELSE Superseded(tokens)
         ELSE UNCHANGED <<spd, tokens>>

(* A caller calls login_email_pass with some password.                    *)
LoginEmailPass ==
    /\ gt = NoCall
    /\ \E pw \in Passwords, o \in LoginOutcome :
         /\ o \in LoginOutcomes(pw)
         /\ LoginEffect(pw, o)
         /\ last' = Returned("login", LoginResult(o))
    /\ UNCHANGED <<now, held, gt, pending>>

-----------------------------------------------------------------------------
(* Two-factor calls.  Each starts with build_2fa_headers, whose first    *)
(* line unwraps the SPD: on an account with no SPD the call panics before *)
(* any request (MissingSpdPanic), where spec section 7 names the error    *)
(* MissingPrecondition.  A panic is recorded as the call's outcome.       *)

MissingSpdPanic(op) ==
    /\ ~spd
    /\ last' = Returned(op, "panic")
    /\ UNCHANGED <<spd, username, hashedPassword, tokens, now, held, gt, pending>>

(* send_2fa_to_devices: GET trusteddevice; Needs2FAVerification or Err.   *)
Send2FAToDevices ==
    /\ gt = NoCall
    /\ \/ MissingSpdPanic("send_2fa")
       \/ /\ spd
          /\ \E ok \in BOOLEAN :
               last' = Returned("send_2fa", IF ok THEN "Needs2FAVerification" ELSE "Err")
          /\ UNCHANGED <<spd, username, hashedPassword, tokens, now, held, gt, pending>>

(* send_sms_2fa_to_devices: PUT verify/phone; on success the VerifyBody is *)
(* handed back to the caller inside NeedsSMS2FAVerification.               *)
SendSms2FAToDevices ==
    /\ gt = NoCall
    /\ \/ MissingSpdPanic("send_sms")
       \/ /\ spd
          /\ \E ok \in BOOLEAN :
               /\ last' = Returned("send_sms", IF ok THEN "NeedsSMS2FAVerification" ELSE "Err")
               /\ held' = (held \/ ok)
          /\ UNCHANGED <<spd, username, hashedPassword, tokens, now, gt, pending>>

(* The ttl of a header's fields: parts[2] for verify_2fa, parts[3] and    *)
(* then parts[2] for verify_sms_2fa.                                       *)
HeaderTtl(f, sms) == IF sms THEN TtlSms(f) ELSE Ttl2FA(f)

(* Variant of HeaderTokens: the new tokens are merged into the old map.  *)
HeaderTokensMerged(hdrs, hasPe, pe, sms) ==
    LET fromHeaders == [s \in DOMAIN hdrs |->
                          [fresh |-> TRUE, exp |-> ExpiryFromTtl(HeaderTtl(hdrs[s], sms), now)]]
        new == IF ~hasPe THEN fromHeaders
               ELSE (PetService :> [fresh |-> TRUE, exp |-> PetExpiry(pe, now)]) @@ fromHeaders
    IN new @@ Superseded(tokens)

(* The token map built from the GS/HB headers, then the PET inserted by   *)
(* parse_pet_header when X-Apple-PE-Token is present.                     *)
HeaderTokens(hdrs, hasPe, pe, sms) ==
    LET fromHeaders == [s \in DOMAIN hdrs |->
                          [fresh |-> TRUE, exp |-> ExpiryFromTtl(HeaderTtl(hdrs[s], sms), now)]]
    IN IF ~hasPe THEN fromHeaders
       ELSE (PetService :> [fresh |-> TRUE, exp |-> PetExpiry(pe, now)]) @@ fromHeaders

TwoFactorReply ==
    {r \in [ok : BOOLEAN, hdrs : HeaderDicts, hasPe : BOOLEAN, pe : Fields] :
        ~r.hasPe => r.pe = <<>>}

(* verify_2fa: check_error on the body; on success the whole map is      *)
(* replaced from the headers, ttl read at parts[2]; LoggedIn if a PET     *)
(* came back, NeedsLogin otherwise.                                        *)
Verify2FA ==
    /\ gt = NoCall
    /\ \/ MissingSpdPanic("verify_2fa")
       \/ /\ spd
          /\ \E r \in TwoFactorReply :
               /\ r.ok => tokens' = HeaderTokens(r.hdrs, r.hasPe, r.pe, FALSE)
               /\ ~r.ok => UNCHANGED tokens
               /\ last' = Returned("verify_2fa",
                              IF ~r.ok THEN "Err"
                              ELSE IF r.hasPe THEN "LoggedIn" ELSE "NeedsLogin")
          /\ UNCHANGED <<spd, username, hashedPassword, now, held, gt, pending>>

(* verify_sms_2fa(code, body): a status other than 200 is Bad2faCode;     *)
(* otherwise as verify_2fa with the ttl read at parts[3], else parts[2].  *)
VerifySms2FA ==
    /\ gt = NoCall
    /\ held
    /\ \/ MissingSpdPanic("verify_sms")
       \/ /\ spd
          /\ \E r \in TwoFactorReply :
               /\ r.ok => tokens' = HeaderTokens(r.hdrs, r.hasPe, r.pe, TRUE)
               /\ ~r.ok => UNCHANGED tokens
               /\ last' = Returned("verify_sms",
                              IF ~r.ok THEN "Err"
                              ELSE IF r.hasPe THEN "LoggedIn" ELSE "NeedsLogin")
          /\ UNCHANGED <<spd, username, hashedPassword, now, held, gt, pending>>

-----------------------------------------------------------------------------
(* get_token                                                               *)

(* expiration.elapsed().is_err(): the expiration is still in the future.  *)
Unexpired(tok) == tok.exp > now

(* get_token(s) up to the re-login: with a non-empty map an absent entry  *)
(* returns None at once (`?`); an unexpired entry is returned; otherwise  *)
(* a missing username or hashed_password returns None, and the re-login   *)
(* is started.                                                             *)
TokenDecision(s) ==
    IF DOMAIN tokens # {} /\ s \notin DOMAIN tokens THEN "none"
    ELSE IF DOMAIN tokens # {} /\ Unexpired(tokens[s]) THEN "some"
    ELSE IF ~username \/ hashedPassword = NoPassword THEN "none"
    ELSE "relogin"

(* The token handed back: looked up in the map (after a re-login the      *)
(* expiry is not checked again).                                           *)
Lookup(s, tk) ==
    IF s \in DOMAIN tk THEN [op |-> "get_token", val |-> "Some", tok |-> tk[s]]
    ELSE Returned("get_token", "None")

(* What the caller of get_token returns once it has the answer r: a      *)
(* direct call returns r; circle, update_postdata and teardown fail with  *)
(* HappyBirthdayError on None and otherwise post their request, which     *)
(* succeeds or fails.                                                      *)
AfterToken(op, r) ==
    IF op = "get_token" THEN {r}
    ELSE IF r.val = "None" THEN {Returned(op, "Err")}
    ELSE {Returned(op, "Ok"), Returned(op, "Err")}

(* get_token(s) on behalf of op, up to its re-login.                       *)
GetToken(s, op) ==
    IF TokenDecision(s) = "relogin"
      THEN /\ gt' = s
           /\ pending' = op
           /\ UNCHANGED last
      ELSE /\ last' \in AfterToken(op, IF TokenDecision(s) = "some"
                                       THEN Lookup(s, tokens)
                                       ELSE Returned("get_token", "None"))
           /\ UNCHANGED <<gt, pending>>

(* A caller calls get_token(s).                                            *)
GetTokenCall(s) ==
    /\ gt = NoCall
    /\ GetToken(s, "get_token")
    /\ UNCHANGED <<spd, username, hashedPassword, tokens, now, held>>

(* The single re-login with the stored credentials; any state but         *)
(* LoggedIn, or an error, is logged and None returned to the caller.       *)
GetTokenRelogin ==
    /\ gt # NoCall
    /\ \E o \in LoginOutcomes(hashedPassword) :
         /\ LoginEffect(hashedPassword, o)
         /\ last' \in AfterToken(pending,
                        IF LoginResult(o) = "LoggedIn" THEN Lookup(gt, tokens')
                        ELSE Returned("get_token", "None"))
    /\ gt' = NoCall
    /\ pending' = "none"
    /\ UNCHANGED <<now, held>>

-----------------------------------------------------------------------------
(* Calls that authenticate with the HB token                              *)

(* get_anisette, then get_token("com.apple.gs.idms.hb"): an anisette      *)
(* error is returned at once.                                              *)
HbRequest(op) ==
    /\ gt = NoCall
    /\ \/ /\ last' = Returned(op, "Err")
          /\ UNCHANGED <<gt, pending>>
       \/ GetToken(HbService, op)
    /\ UNCHANGED <<spd, username, hashedPassword, tokens, now, held>>

(* circle(message, is_twofa): with is_twofa the X-Apple-Identity-Token is *)
(* built from the SPD (adsid, GsIdmsToken, unwrapped); otherwise from the *)
(* HB token.  A non-success status is AuthSrp.  The SPD is unwrapped     *)
(* after get_anisette, so an anisette error comes first.                  *)
Circle ==
    \/ HbRequest("circle")
    \/ /\ gt = NoCall
       /\ \/ MissingSpdPanic("circle")
          \/ /\ last' \in {Returned("circle", "Ok"), Returned("circle", "Err")}
             /\ spd \/ last'.val = "Err"
             /\ UNCHANGED <<spd, username, hashedPassword, tokens, now, held, gt, pending>>

(* update_postdata(device_name, logout, services): the liveness or        *)
(* signout-<service> postdata request.                                     *)
UpdatePostdata == HbRequest("update_postdata")

(* teardown(action, cmd, txnid).                                           *)
Teardown == HbRequest("teardown")

(* Wall-clock time passes.                                                 *)
Tick ==
    /\ now < MaxTime
    /\ now' = now + 1
    /\ UNCHANGED <<spd, username, hashedPassword, tokens, held, gt, pending, last>>

Next ==
    \/ LoginEmailPass
    \/ Send2FAToDevices
    \/ SendSms2FAToDevices
    \/ Verify2FA
    \/ VerifySms2FA
    \/ \E s \in Services : GetTokenCall(s)
    \/ GetTokenRelogin
    \/ Circle
    \/ UpdatePostdata
    \/ Teardown
    \/ Tick

(* The caller may stop calling at any time.                              *)
Spec == Init /\ [][Next]_vars

-----------------------------------------------------------------------------
(* Properties                                                              *)

(* get_token returns the cached token if it is unexpired and otherwise    *)
(* performs one silent re-login: it never gives up with None while the    *)
(* token is missing and credentials for a re-login are stored.            *)
GetTokenRefreshesMissing ==
    [][\A s \in Services :
         (GetTokenCall(s) /\ s \notin DOMAIN tokens /\ username
            /\ hashedPassword # NoPassword)
           => gt' = s]_vars

(* A token get_token hands back has not expired at the moment it is      *)
(* returned, also when it comes straight from the SPD of the re-login     *)
(* (the lookup after the re-login does not check the expiration again).  *)
ReturnedTokenUnexpired ==
    [][(GetTokenRelogin \/ \E s \in Services : GetTokenCall(s))
         /\ last'.op = "get_token" /\ last'.val = "Some"
           => last'.tok.exp > now]_vars

=============================================================================
