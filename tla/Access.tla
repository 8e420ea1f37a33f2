-------------------------------- MODULE Access --------------------------------
(***************************************************************************)
(* What lets a user through to the handlers: the token of the login, which *)
(* the middleware believes until it expires without asking the database    *)
(* (require_auth), and behind it, for most screens, a risk profile that    *)
(* has not expired (require_profile).  GET /user tells the front end       *)
(* whether the profile has to be renewed, so that it asks for it first.    *)
(*                                                                         *)
(* Profiles are dated by the database and checked against its clock by     *)
(* GET /user, against that of the process by the gate; tokens are of the   *)
(* process alone.                                                          *)
(*                                                                         *)
(* One account; TwoFactor has the steps that enable and disable the second *)
(* factor, of which only the moment counts here.                           *)
(***************************************************************************)
EXTENDS ProcessClock, FiniteSets, FiniteSetsExt

CONSTANTS
    Clients,      \* browsers of the user, each with the token it got last
    TokenLife,    \* JWT_EXPIRATION_HOURS
    Leeway,       \* for which an expired token is still taken
    LoginTime,    \* bound: a login is answered within it
    ProfileLife,  \* the six months of set_investing_profile_expiry
    Skews,        \* by how much the clock of the process can be ahead
    MaxProfiles,  \* bound: rows of user_investing_profiles
    None

ASSUME AccessAssumption ==
    /\ TokenLife \in Nat /\ Leeway \in Nat /\ LoginTime \in Nat
    /\ ProfileLife \in Nat \ {0} /\ Skews \subseteq Int /\ MaxProfiles \in Nat
    /\ None \notin Int

VARIABLES
    skew,          \* the clock of the process shows now + skew
    exists,        \* the row of users
    enabledSince,  \* two_factor_enabled is FALSE (None) or TRUE since then
    logins,        \* logins[c]: the login of client c that is under way
    token,         \* token[c]: what the client sends
    profiles,      \* created_at of the rows of user_investing_profiles
    fineUntil,     \* the expiry behind the last "no need to renew" (history)
    gate           \* what the last request behind require_profile got

accessVars == <<skew, exists, enabledSince, logins, token, profiles, fineUntil, gate>>

(* code: a code of the second factor was asked for.                         *)
LoginUnderWay == [began : 0 .. MaxTime, code : BOOLEAN]
Token == [exp : Int, code : BOOLEAN]

ProcessNow == now + skew

------------------------------------------------------------------------------
(* POST /login: the account is read, the password takes its time, and the   *)
(* token is issued for what was read.                                       *)

LoginBegins(c) ==
    /\ exists /\ logins[c] = None
    /\ logins' = [logins EXCEPT ![c] = [began |-> now, code |-> enabledSince # None]]
    /\ UNCHANGED <<skew, exists, enabledSince, token, profiles, fineUntil, gate>>

(* encode_token, or a wrong password or code.                               *)
LoginEnds(c) ==
    /\ logins[c] # None
    /\ logins' = [logins EXCEPT ![c] = None]
    /\ token' \in {token, [token EXCEPT ![c] = [exp |-> ProcessNow + TokenLife,
                                                code |-> logins[c].code]]}
    /\ UNCHANGED <<skew, exists, enabledSince, profiles, fineUntil, gate>>

(* Mutant of Accepted: the expiry is not validated.                         *)
AcceptedForever(c) == token[c] # None

(* require_auth: decode_token with the default validation.                  *)
Accepted(c) == token[c] # None /\ ProcessNow <= token[c].exp + Leeway

------------------------------------------------------------------------------
(* Behind the token.                                                        *)

Enable(c) ==
    /\ Accepted(c) /\ exists
    /\ enabledSince' = IF enabledSince = None THEN now ELSE enabledSince
    /\ UNCHANGED <<skew, exists, logins, token, profiles, fineUntil, gate>>

Disable(c) ==
    /\ Accepted(c) /\ exists
    /\ enabledSince' = None
    /\ UNCHANGED <<skew, exists, logins, token, profiles, fineUntil, gate>>

(* PATCH /user/risk-profile adds a row; 404 for a deleted account.          *)
RenewProfile(c) ==
    /\ Accepted(c) /\ exists
    /\ profiles' = profiles \cup {now} /\ Cardinality(profiles') <= MaxProfiles
    /\ UNCHANGED <<skew, exists, enabledSince, logins, token, fineUntil, gate>>

Expiry(created) == created + ProfileLife

CurrentProfile == Max(profiles)

(* GET /user: NOW() >= expires_at; also after an error of the database the  *)
(* profile has to be renewed.                                               *)
GetUser(c) ==
    /\ Accepted(c) /\ exists
    /\ \/ fineUntil' = None
       \/ /\ profiles # {} /\ now < Expiry(CurrentProfile)
          /\ fineUntil' = Expiry(CurrentProfile)
    /\ UNCHANGED <<skew, exists, enabledSince, logins, token, profiles, gate>>

(* Mutant of Gate: any profile of the user is taken, the first one found.   *)
GateOfAnyProfile(c) ==
    /\ \/ ~Accepted(c) /\ gate' = "none"
       \/ /\ Accepted(c)
          /\ gate' \in {"none", IF profiles # {} /\ Expiry(Min(profiles)) > ProcessNow
                                THEN "through" ELSE "renew"}
    /\ UNCHANGED <<skew, exists, enabledSince, logins, token, profiles, fineUntil>>

(* require_profile behind require_auth; RISK_PROFILE_REQUIRED and           *)
(* RISK_PROFILE_EXPIRED are one answer to the front end.  "none" is a 401,  *)
(* or a 500 for the database can fail.                                      *)
Gate(c) ==
    /\ \/ ~Accepted(c) /\ gate' = "none"
       \/ /\ Accepted(c)
          /\ gate' \in {"none", IF profiles # {} /\ Expiry(CurrentProfile) > ProcessNow
                                THEN "through" ELSE "renew"}
    /\ UNCHANGED <<skew, exists, enabledSince, logins, token, profiles, fineUntil>>

(* DELETE /user; the cascade takes the profiles.  Nothing takes the tokens. *)
DeleteAccount(c) ==
    /\ Accepted(c) /\ exists
    /\ exists' = FALSE /\ enabledSince' = None /\ profiles' = {}
    /\ UNCHANGED <<skew, logins, token, fineUntil, gate>>

------------------------------------------------------------------------------
AccessInit ==
    /\ skew \in Skews
    /\ exists = TRUE /\ enabledSince = None
    /\ logins = [c \in Clients |-> None] /\ token = [c \in Clients |-> None]
    /\ profiles = {} /\ fineUntil = None /\ gate = "none"

LoginsInTime == \A c \in Clients : logins[c] # None => now < logins[c].began + LoginTime

AccessNext ==
    \/ /\ \E c \in Clients :
            \/ LoginBegins(c) \/ LoginEnds(c)
            \/ Enable(c) \/ Disable(c) \/ RenewProfile(c)
            \/ GetUser(c) \/ Gate(c) \/ DeleteAccount(c)
       /\ UNCHANGED now
    \/ LoginsInTime /\ Tick /\ UNCHANGED accessVars

AccessSpec == ClockInit /\ AccessInit /\ [][AccessNext]_<<now, accessVars>>

------------------------------------------------------------------------------
(* Properties                                                               *)

AccessTypeOK ==
    /\ skew \in Skews /\ exists \in BOOLEAN
    /\ enabledSince \in Int \cup {None} /\ fineUntil \in Int \cup {None}
    /\ logins \in [Clients -> LoginUnderWay \cup {None}]
    /\ token \in [Clients -> Token \cup {None}]
    /\ profiles \subseteq 0 .. MaxTime
    /\ gate \in {"none", "through", "renew"}

(* An account is behind its second factor once it has been enabled for the  *)
(* life of a token: by then every token that still opens a door was given   *)
(* for a code, those of logins included that were under way at the enabling *)
(* and asked for none.                                                      *)
SecondFactorTakesHold ==
    enabledSince # None /\ now > enabledSince + LoginTime + TokenLife + Leeway
    => \A c \in Clients : Accepted(c) => token[c].code

(* A user whom GET /user told that the profile need not be renewed is sent  *)
(* to renew it only after it has expired by the clock of the process, or    *)
(* after the account was deleted; a renewal never shortens what was told.   *)
ToldFineGetsThrough ==
    [][\A c \in Clients : Gate(c) /\ gate' = "renew" /\ exists /\ fineUntil # None
       => ProcessNow >= fineUntil]_<<now, accessVars>>
==============================================================================
