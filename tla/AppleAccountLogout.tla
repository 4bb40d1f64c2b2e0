------------------------- MODULE AppleAccountLogout -------------------------
(* AppleAccount::logout_all: the signout-icloud, signout-imessage,        *)
(* signout-facetime and signout-all update_postdata requests, one after    *)
(* the other, each awaited, the first error returned at once with `?`.    *)
(* logout_all takes &mut self, so no other call of the account runs while *)
(* it is in flight; a get_token re-login inside one of its update_postdata *)
(* calls (GetTokenRelogin) and the passing of time do.                    *)
EXTENDS AppleAccount

VARIABLES
    lo,       \* 0: no logout_all in flight; else the signout it sends next
    resume,   \* the update_postdata of signout lo awaits a get_token re-login
    loDone,   \* the signouts accepted by the server in this logout_all
    loOut     \* what the last logout_all returned: "none", "Ok" or "Err"

logoutVars == <<lo, resume, loDone, loOut>>

allVars == <<vars, logoutVars>>

\* The logout argument of each update_postdata call, in order.
Signouts == <<"icloud", "imessage", "facetime", "all">>

LogoutTypeOK ==
    /\ TypeOK
    /\ lo \in 0..Len(Signouts)
    /\ resume \in BOOLEAN
    /\ loDone \subseteq {Signouts[i] : i \in 1..Len(Signouts)}
    /\ loOut \in {"none", "Ok", "Err"}

LogoutInit ==
    /\ Init
    /\ lo = 0
    /\ resume = FALSE
    /\ loDone = {}
    /\ loOut = "none"

(* A caller calls logout_all.                                             *)
LogoutAllStart ==
    /\ lo = 0
    /\ gt = NoCall
    /\ lo' = 1
    /\ loDone' = {}
    /\ UNCHANGED <<resume, loOut, vars>>

\* Variant of NextSignout: the loop stops with one service left
\* (while services.len() > 1), so signout-facetime is never sent.
NextSignoutSkipLast(i) == IF i = 2 THEN 4 ELSE i + 1

\* The signout after signout i: the loop removes the head of services
\* until it is empty, then "all" follows.
NextSignout(i) == i + 1

(* The update_postdata of signout lo returned val: Ok moves on to the     *)
(* next signout, or returns Ok after "all"; Err is returned by `?`.       *)
Advance(val) ==
    IF val = "Ok"
      THEN /\ loDone' = loDone \cup {Signouts[lo]}
           /\ IF lo = Len(Signouts)
                THEN lo' = 0 /\ loOut' = "Ok"
                ELSE lo' = NextSignout(lo) /\ UNCHANGED loOut
      ELSE /\ lo' = 0
           /\ loOut' = "Err"
           /\ UNCHANGED loDone

(* update_postdata(device_name, Some(Signouts[lo]), services): anisette,  *)
(* then get_token(hb) and the POST (HbRequest).  If get_token must log in *)
(* again the call waits for GetTokenRelogin; otherwise its result is      *)
(* known at once.                                                         *)
LogoutStep ==
    /\ lo # 0
    /\ ~resume
    /\ HbRequest("update_postdata")
    /\ IF gt' = NoCall
         THEN Advance(last'.val) /\ UNCHANGED resume
         ELSE resume' = TRUE /\ UNCHANGED <<lo, loDone, loOut>>

(* The re-login is over and update_postdata has its result.               *)
LogoutResume ==
    /\ lo # 0
    /\ resume
    /\ gt = NoCall
    /\ resume' = FALSE
    /\ Advance(last.val)
    /\ UNCHANGED vars

LogoutNext ==
    \/ lo = 0 /\ Next /\ UNCHANGED logoutVars
    \/ lo # 0 /\ (GetTokenRelogin \/ Tick) /\ UNCHANGED logoutVars
    \/ LogoutAllStart
    \/ LogoutStep
    \/ LogoutResume

LogoutSpec == LogoutInit /\ [][LogoutNext]_allVars

-----------------------------------------------------------------------------
(* Properties                                                             *)

\* The first k signouts, in order.
FirstSignouts(k) == {Signouts[i] : i \in 1..k}

(* logout_all is not atomic: at any time the signouts the server has      *)
(* accepted in the current call are a prefix of icloud, imessage,         *)
(* facetime, all (an error leaves the earlier ones done), and logout_all  *)
(* returns Ok only when all four were accepted, in that order.            *)
SignoutsInOrder ==
    /\ [](\E k \in 0..Len(Signouts) : loDone = FirstSignouts(k))
    /\ [][lo # 0 /\ lo' = 0 /\ loOut' = "Ok"
            => loDone' = FirstSignouts(Len(Signouts))]_allVars

=============================================================================
