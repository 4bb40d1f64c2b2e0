---------------------------- MODULE ValidationData ----------------------------
(***************************************************************************)
(* MacOSConfig::generate_validation_data (rustpush/src/macos.rs): the      *)
(* attestation blob that IDS registration needs, obtained either from a   *)
(* NAC relay (nac_relay_url configured) or locally through the three-step *)
(* ValidationCtx handshake with Apple's validation service.                *)
(*                                                                         *)
(* Several calls may be in flight (registration, reconnects); each owns   *)
(* its own ValidationCtx, created and dropped inside the call.  Every     *)
(* await of the call is a step; each may fail with `?`, which drops the   *)
(* context.  The relay is reached through a client built with             *)
(* danger_accept_invalid_certs(true): any peer that answers the TLS       *)
(* handshake for relay_url is talked to.                                   *)
(***************************************************************************)
EXTENDS Naturals, FiniteSets

CONSTANTS
    Calls,        \* concurrent invocations of generate_validation_data
    HasToken,     \* self.relay_token.is_some()
    Peers,        \* who may answer a TLS connection to relay_url
    Relay         \* the relay the fingerprint belongs to

ASSUME HasToken \in BOOLEAN /\ Relay \in Peers

VARIABLES
    pc,           \* per call: where it is suspended
    ctx,          \* per call: the local ValidationCtx: "none", "inited", "keyed"
    res,          \* per call: what it returned last: "none", "data", "err"
    tokenSeen,    \* peers that have received the relay bearer token
    useRelay      \* self.nac_relay_url.is_some(), fixed when the config is built

vars == <<pc, ctx, res, tokenSeen, useRelay>>

PCs == {"idle", "relay", "cert", "init", "post", "key", "sign"}

TypeOK ==
    /\ pc \in [Calls -> PCs]
    /\ ctx \in [Calls -> {"none", "inited", "keyed"}]
    /\ res \in [Calls -> {"none", "data", "err"}]
    /\ tokenSeen \subseteq Peers
    /\ useRelay \in BOOLEAN

Init ==
    /\ pc = [c \in Calls |-> "idle"]
    /\ ctx = [c \in Calls |-> "none"]
    /\ res = [c \in Calls |-> "none"]
    /\ tokenSeen = {}
    /\ useRelay \in BOOLEAN

(* The call returns r; its ValidationCtx, if any, is dropped.             *)
Return(c, r) ==
    /\ pc' = [pc EXCEPT ![c] = "idle"]
    /\ ctx' = [ctx EXCEPT ![c] = "none"]
    /\ res' = [res EXCEPT ![c] = r]

Goto(c, p) == pc' = [pc EXCEPT ![c] = p]

(* register / the APS connection asks for validation data.               *)
Start(c) ==
    /\ pc[c] = "idle"
    /\ Goto(c, IF useRelay THEN "relay" ELSE "cert")
    /\ UNCHANGED <<ctx, res, tokenSeen, useRelay>>

(* Relay branch: POST relay_url with the bearer token to whichever peer  *)
(* completes the unverified TLS handshake; a send error, a non-success    *)
(* status, a body read error or bad base64 is a RelayError; otherwise the *)
(* decoded body is the validation data.                                    *)
RelayRequest(c) ==
    /\ pc[c] = "relay"
    /\ \E peer \in Peers, ok \in BOOLEAN :
         /\ tokenSeen' = IF HasToken THEN tokenSeen \cup {peer} ELSE tokenSeen
         /\ Return(c, IF ok THEN "data" ELSE "err")

(* get_bag("id-validation-cert"), GET the certificate, parse the plist.   *)
FetchCert(c) ==
    /\ pc[c] = "cert"
    /\ \/ Goto(c, "init") /\ UNCHANGED <<ctx, res>>
       \/ Return(c, "err")
    /\ UNCHANGED tokenSeen

(* ValidationCtx::new(&certs, &mut output_req, &self.inner).               *)
CtxNew(c) ==
    /\ pc[c] = "init"
    /\ \/ /\ Goto(c, "post")
          /\ ctx' = [ctx EXCEPT ![c] = "inited"]
          /\ res' = [res EXCEPT ![c] = "none"]
       \/ Return(c, "err")
    /\ UNCHANGED tokenSeen

(* get_bag("id-initialize-validation"), POST the session-info-request,    *)
(* parse the session-info out of the reply.                                *)
PostSessionInfo(c) ==
    /\ pc[c] = "post"
    /\ \/ Goto(c, "key") /\ UNCHANGED <<ctx, res>>
       \/ Return(c, "err")
    /\ UNCHANGED tokenSeen

(* ctx.key_establishment(&output)?.                                        *)
KeyEstablishment(c) ==
    /\ pc[c] = "key"
    /\ \/ /\ Goto(c, "sign")
          /\ ctx' = [ctx EXCEPT ![c] = "keyed"]
          /\ UNCHANGED res
       \/ Return(c, "err")
    /\ UNCHANGED tokenSeen

(* Ok(ctx.sign()?): the context is consumed either way.                    *)
SignStep(c) ==
    /\ pc[c] = "sign"
    /\ \E ok \in BOOLEAN : Return(c, IF ok THEN "data" ELSE "err")
    /\ UNCHANGED tokenSeen

(* Everything a call does once it has started.                             *)
Step(c) ==
    /\ \/ RelayRequest(c)
       \/ FetchCert(c)
       \/ CtxNew(c)
       \/ PostSessionInfo(c)
       \/ KeyEstablishment(c)
       \/ SignStep(c)
    /\ UNCHANGED useRelay

Next == \E c \in Calls : Start(c) \/ Step(c)

Spec == Init /\ [][Next]_vars

-----------------------------------------------------------------------------
(* Properties                                                              *)

(* The relay bearer token is sent only to the pinned relay: the relay's  *)
(* certificate fingerprint is checked before the request goes out.        *)
RelayTokenOnlyToRelay == tokenSeen \subseteq {Relay}

=============================================================================
