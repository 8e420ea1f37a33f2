------------------------------ MODULE TwoFactor ------------------------------
(***************************************************************************)
(* Two-factor authentication of one account: POST /user/2fa/setup, enable  *)
(* and disable, and the login of its owner.  Each of the three reads the   *)
(* columns totp_secret and two_factor_enabled (load_state), decides, and   *)
(* writes them in a later statement whose WHERE names the account only, so *)
(* another request of the account can come in between.                     *)
(*                                                                         *)
(* A code is abstracted to the secret it is computed from; the owner can   *)
(* give a code of the secrets whose QR the authenticator app has scanned.  *)
(***************************************************************************)
CONSTANTS
    Secrets,     \* the secrets the server can generate
    Requests,    \* requests in flight
    NoSecret     \* SQL NULL in totp_secret

ASSUME NoSecretAssumption == NoSecret \notin Secrets

VARIABLES
    secret,      \* totp_secret
    enabled,     \* two_factor_enabled
    req,         \* req[r]: the request r serves
    generated,   \* secrets generated so far
    app,         \* secrets in the owner's authenticator
    proved,      \* secrets /enable has accepted a code of (history)
    overlap,     \* a request wrote over another state than it read (history)
    login        \* the outcome of the last login: "none", "in" or "refused"

vars == <<secret, enabled, req, generated, app, proved, overlap, login>>

SecretOrNull == Secrets \cup {NoSecret}

Stages == {"idle", "setup", "enable", "disable"}

(* What load_state returned to the request, and for a setup the new secret. *)
Request == [stage : Stages, secret : SecretOrNull, enabled : BOOLEAN,
            new : SecretOrNull]

Idle == [stage |-> "idle", secret |-> NoSecret, enabled |-> FALSE, new |-> NoSecret]

Becomes(r, stage, new) ==
    req' = [req EXCEPT ![r] = [stage |-> stage, secret |-> secret,
                               enabled |-> enabled, new |-> new]]

(* load_state, for a request that goes on.                                  *)
Load(r, stage, new) ==
    /\ req[r].stage = "idle"
    /\ Becomes(r, stage, new)

(* The owner's code passes verify_code for the stored secret.               *)
CodeAccepted == secret \in app

(* The UPDATE of request r, and whether the state is still the one it read. *)
Store(r, s, e) ==
    /\ secret' = s
    /\ enabled' = e
    /\ req' = [req EXCEPT ![r] = Idle]
    /\ overlap' = (overlap \/ req[r].secret # secret \/ req[r].enabled # enabled)

------------------------------------------------------------------------------
(* Mutant of SetupRead: the 409 for an enabled account is missing.          *)
SetupReadAlways(r) ==
    /\ \E s \in Secrets \ generated : /\ Load(r, "setup", s)
                                      /\ generated' = generated \cup {s}
    /\ UNCHANGED <<secret, enabled, app, proved, overlap, login>>

SetupRead(r) ==
    /\ ~enabled
    /\ \E s \in Secrets \ generated : /\ Load(r, "setup", s)
                                      /\ generated' = generated \cup {s}
    /\ UNCHANGED <<secret, enabled, app, proved, overlap, login>>

(* The secret is pending; the owner scans the QR of the answer or not.      *)
SetupStore(r) ==
    /\ req[r].stage = "setup"
    /\ Store(r, req[r].new, enabled)
    /\ app' \in {app, app \cup {req[r].new}}
    /\ UNCHANGED <<generated, proved, login>>

EnableRead(r) ==
    /\ secret # NoSecret
    /\ CodeAccepted
    /\ Load(r, "enable", NoSecret)
    /\ proved' = proved \cup {secret}
    /\ UNCHANGED <<secret, enabled, generated, app, overlap, login>>

EnableStore(r) ==
    /\ req[r].stage = "enable"
    /\ Store(r, secret, TRUE)
    /\ UNCHANGED <<generated, app, proved, login>>

DisableRead(r) ==
    /\ enabled
    /\ secret # NoSecret
    /\ CodeAccepted
    /\ Load(r, "disable", NoSecret)
    /\ UNCHANGED <<secret, enabled, generated, app, proved, overlap, login>>

DisableStore(r) ==
    /\ req[r].stage = "disable"
    /\ Store(r, NoSecret, FALSE)
    /\ UNCHANGED <<generated, app, proved, login>>

(* The database fails, the client hangs up or the process stops.            *)
Fail(r) ==
    /\ req[r].stage # "idle"
    /\ req' = [req EXCEPT ![r] = Idle]
    /\ UNCHANGED <<secret, enabled, generated, app, proved, overlap, login>>

(* POST /login of the owner, with the right password, a verified address    *)
(* and a code if one is asked for; a missing secret is read as "", of which *)
(* no code is right.                                                        *)
Login ==
    /\ login' = IF enabled /\ ~CodeAccepted THEN "refused" ELSE "in"
    /\ UNCHANGED <<secret, enabled, req, generated, app, proved, overlap>>

------------------------------------------------------------------------------
Init ==
    /\ secret = NoSecret /\ enabled = FALSE
    /\ req = [r \in Requests |-> Idle]
    /\ generated = {} /\ app = {} /\ proved = {}
    /\ overlap = FALSE
    /\ login = "none"

Serve(r) == \/ SetupRead(r) \/ SetupStore(r)
            \/ EnableRead(r) \/ EnableStore(r)
            \/ DisableRead(r) \/ DisableStore(r)
            \/ Fail(r)

Next == Login \/ \E r \in Requests : Serve(r)

Spec == Init /\ [][Next]_vars

------------------------------------------------------------------------------
(* Properties                                                               *)

TypeOK ==
    /\ secret \in SecretOrNull /\ enabled \in BOOLEAN
    /\ req \in [Requests -> Request]
    /\ proved \subseteq app /\ app \subseteq generated /\ generated \subseteq Secrets
    /\ overlap \in BOOLEAN
    /\ login \in {"none", "in", "refused"}

(* What the comment of setup promises: a secret is only pending until the   *)
(* owner has shown with /enable that the app generates its codes, so the    *)
(* secret of an enabled account is one a code was accepted for.             *)
EnabledSecretWasProved == enabled => secret \in proved

(* An owner who has the app and the code is refused only if, at some time,  *)
(* two requests for 2FA of the account overlapped and one wrote over what   *)
(* the other had written.                                                   *)
OwnerGetsIn == login = "refused" => overlap
==============================================================================
