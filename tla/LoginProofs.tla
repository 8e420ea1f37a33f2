----------------------------- MODULE LoginProofs -----------------------------
(***************************************************************************)
(* Theorems of the login: of TwoFactor, for any secrets and any number of  *)
(* requests, and of Access, for any number of clients, any lives of tokens *)
(* and profiles and any difference of the clocks.                          *)
(***************************************************************************)
EXTENDS TwoFactor, Access, TLAPS

------------------------------------------------------------------------------
(* TwoFactor                                                                *)

USE NoSecretAssumption

(* What a request in flight has read: a setup an account without 2FA, an    *)
(* enable a secret that has been proved.                                    *)
ReadsHold ==
    \A r \in Requests :
        /\ req[r].stage = "setup" => ~req[r].enabled /\ req[r].new \in generated
        /\ req[r].stage = "enable" => req[r].secret \in proved

(* Without overlap an enabled account is one whose secret was proved; that  *)
(* is what a refused login contradicts.                                     *)
FactorInv ==
    /\ TypeOK
    /\ ReadsHold
    /\ ~overlap => EnabledSecretWasProved
    /\ OwnerGetsIn

(* A request that becomes another of the right shape keeps the shapes.      *)
LEMMA RequestsTyped ==
  ASSUME TypeOK, NEW r \in Requests, NEW x \in Request, req' = [req EXCEPT ![r] = x]
  PROVE  /\ req' \in [Requests -> Request]
         /\ req'[r] = x
         /\ \A o \in Requests \ {r} : req'[o] = req[o]
BY DEF TypeOK

(* The idle request is a request.                                            *)
LEMMA IdleTyped == Idle \in Request
BY DEF Idle, Request, Stages, SecretOrNull

(* The inductive invariant holds initially.                                  *)
LEMMA InitFactor == Init => FactorInv
<1> SUFFICES ASSUME Init PROVE FactorInv
  OBVIOUS
<1>1. TypeOK
  BY IdleTyped DEF Init, TypeOK, SecretOrNull
<1>2. ReadsHold
  BY DEF Init, ReadsHold, Idle
<1> QED
  BY <1>1, <1>2 DEF Init, FactorInv, EnabledSecretWasProved, OwnerGetsIn

(* A request that starts remembers the state it read.                       *)
LEMMA LoadKeeps ==
  ASSUME FactorInv, NEW r \in Requests, NEW stage \in {"setup", "enable", "disable"},
         NEW new \in SecretOrNull, Load(r, stage, new)
  PROVE  /\ req' \in [Requests -> Request]
         /\ req'[r] = [stage |-> stage, secret |-> secret, enabled |-> enabled,
                       new |-> new]
         /\ \A o \in Requests \ {r} : req'[o] = req[o]
<1> DEFINE x == [stage |-> stage, secret |-> secret, enabled |-> enabled, new |-> new]
<1>1. x \in Request
  BY DEF FactorInv, TypeOK, Request, Stages
<1> QED
  BY <1>1, RequestsTyped DEF Load, Becomes, FactorInv

(* Every step of a request keeps the invariant.                             *)
LEMMA ServeKeeps ==
  ASSUME FactorInv, NEW r \in Requests, Serve(r)
  PROVE  FactorInv'
<1> USE DEF FactorInv, ReadsHold, EnabledSecretWasProved, OwnerGetsIn
<1>1. CASE SetupRead(r)
  <2>1. PICK s \in Secrets \ generated : Load(r, "setup", s) /\ generated' = generated \cup {s}
    BY <1>1 DEF SetupRead
  <2>2. s \in SecretOrNull
    BY DEF SecretOrNull
  <2>3. /\ req' \in [Requests -> Request]
        /\ req'[r] = [stage |-> "setup", secret |-> secret, enabled |-> enabled, new |-> s]
        /\ \A o \in Requests \ {r} : req'[o] = req[o]
    BY <2>1, <2>2, LoadKeeps
  <2>4. TypeOK'
    BY <1>1, <2>1, <2>3 DEF SetupRead, TypeOK
  <2>5. ReadsHold'
    BY <1>1, <2>1, <2>3 DEF SetupRead
  <2> QED
    BY <1>1, <2>4, <2>5 DEF SetupRead
<1>2. CASE EnableRead(r) \/ DisableRead(r)
  <2>1. NoSecret \in SecretOrNull
    BY DEF SecretOrNull
  <2>2. PICK stage \in {"enable", "disable"} :
          /\ req' \in [Requests -> Request]
          /\ req'[r] = [stage |-> stage, secret |-> secret, enabled |-> enabled,
                        new |-> NoSecret]
          /\ \A o \in Requests \ {r} : req'[o] = req[o]
          /\ stage = "enable" => EnableRead(r)
    BY <1>2, <2>1, LoadKeeps DEF EnableRead, DisableRead
  <2>3. /\ proved' \in {proved, proved \cup {secret}} /\ secret \in app
        /\ req'[r].stage = "enable" => proved' = proved \cup {secret}
        /\ UNCHANGED <<secret, enabled, generated, app, overlap, login>>
    BY <1>2, <2>2 DEF EnableRead, DisableRead, CodeAccepted
  <2>4. TypeOK'
    BY <2>2, <2>3 DEF TypeOK
  <2>5. ReadsHold'
    BY <2>2, <2>3
  <2> QED
    BY <2>3, <2>4, <2>5
<1>3. CASE SetupStore(r) \/ EnableStore(r) \/ DisableStore(r) \/ Fail(r)
  <2>1. /\ req' \in [Requests -> Request]
        /\ req'[r] = Idle
        /\ \A o \in Requests \ {r} : req'[o] = req[o]
    BY <1>3, IdleTyped, RequestsTyped DEF SetupStore, EnableStore, DisableStore, Fail, Store
  <2>2. UNCHANGED <<generated, proved, login>> /\ (overlap => overlap')
    BY <1>3 DEF SetupStore, EnableStore, DisableStore, Fail, Store
  <2>3. req[r].new \in SecretOrNull
    BY DEF TypeOK, Request
  <2>4. TypeOK'
    <3>1. CASE SetupStore(r)
      BY <2>1, <2>2, <2>3, <3>1 DEF SetupStore, Store, TypeOK
    <3>2. CASE EnableStore(r) \/ DisableStore(r)
      BY <2>1, <2>2, <3>2 DEF EnableStore, DisableStore, Store, TypeOK, SecretOrNull
    <3>3. CASE Fail(r)
      BY <2>1, <2>2, <3>3 DEF Fail, TypeOK
    <3> QED
      BY <1>3, <3>1, <3>2, <3>3
  <2>5. ReadsHold'
    BY <2>1, <2>2 DEF Idle
  <2>6. ~overlap' => EnabledSecretWasProved'
    <3>1. CASE SetupStore(r)
      BY <2>2, <3>1 DEF SetupStore, Store, TypeOK
    <3>2. CASE EnableStore(r)
      BY <2>2, <3>2 DEF EnableStore, Store, TypeOK
    <3>3. CASE DisableStore(r)
      BY <2>2, <3>3 DEF DisableStore, Store
    <3>4. CASE Fail(r)
      BY <2>2, <3>4 DEF Fail
    <3> QED
      BY <1>3, <3>1, <3>2, <3>3, <3>4
  <2> QED
    BY <2>2, <2>4, <2>5, <2>6
<1> QED
  BY <1>1, <1>2, <1>3 DEF Serve

(* Every step keeps the inductive invariant.                                 *)
LEMMA NextFactor == FactorInv /\ [Next]_vars => FactorInv'
<1> SUFFICES ASSUME FactorInv, [Next]_vars PROVE FactorInv'
  OBVIOUS
<1>1. CASE Login
  <2>1. (login' = "refused") => overlap
    BY <1>1 DEF Login, CodeAccepted, FactorInv, EnabledSecretWasProved, TypeOK
  <2> QED
    BY <1>1, <2>1 DEF Login, FactorInv, TypeOK, ReadsHold, EnabledSecretWasProved, OwnerGetsIn
<1>2. CASE UNCHANGED vars
  BY <1>2 DEF vars, FactorInv, TypeOK, ReadsHold, EnabledSecretWasProved, OwnerGetsIn
<1> QED
  BY <1>1, <1>2, ServeKeeps DEF Next

(* The inductive invariant holds in every reachable state.                   *)
LEMMA FactorInvariance == Spec => []FactorInv
BY InitFactor, NextFactor, PTL DEF Spec

(* The columns and the requests are well-formed in every behaviour.         *)
THEOREM TypeCorrect == Spec => []TypeOK
BY FactorInvariance, PTL DEF FactorInv

(* An owner with the app is refused only after two requests overlapped.     *)
THEOREM OwnersGetIn == Spec => []OwnerGetsIn
BY FactorInvariance, PTL DEF FactorInv

(* What the comment of setup promises is kept by requests that do not       *)
(* overlap: the secret of an enabled account is one that was proved.        *)
THEOREM ProvedUnlessOverlap == Spec => [](~overlap => EnabledSecretWasProved)
BY FactorInvariance, PTL DEF FactorInv

HIDE NoSecretAssumption

------------------------------------------------------------------------------
(* Access                                                                   *)

USE AccessAssumption, MaxTimeAssumption

(* A login under way has not begun later than now nor too long ago.         *)
LoginsHold ==
    \A c \in Clients : logins[c] # None =>
        now <= logins[c].began + LoginTime /\ logins[c].began <= now

(* What is without a code was begun before the second factor was enabled,   *)
(* so that an end of its token is in sight.                                 *)
CodelessIsOld ==
    \A c \in Clients :
        /\ token[c] # None => token[c].exp <= now + skew + TokenLife
        /\ enabledSince # None =>
             /\ logins[c] # None /\ ~logins[c].code => logins[c].began <= enabledSince
             /\ token[c] # None /\ ~token[c].code =>
                  token[c].exp <= enabledSince + LoginTime + TokenLife + skew

(* There is a last profile, and what was told holds for it at least.        *)
ProfilesHold ==
    /\ profiles # {} => /\ CurrentProfile \in profiles
                        /\ \A p \in profiles : p <= CurrentProfile
    /\ \A p \in profiles : p <= now
    /\ exists /\ fineUntil # None => /\ profiles # {}
                                     /\ fineUntil <= Expiry(CurrentProfile)

AccessInv ==
    /\ now \in 0 .. MaxTime
    /\ enabledSince # None => enabledSince <= now
    /\ AccessTypeOK /\ LoginsHold /\ CodelessIsOld /\ ProfilesHold

(* The last of the profiles is the one that is added.                       *)
LEMMA LastIsNew ==
  ASSUME NEW P \in SUBSET Int, NEW t \in Int, \A p \in P : p <= t
  PROVE  Max(P \cup {t}) = t
<1> DEFINE S == P \cup {t}
           IsMax(x) == x \in S /\ \A y \in S : x >= y
<1>1. IsMax(t)
  OBVIOUS
<1>2. \A x : IsMax(x) => x = t
  OBVIOUS
<1>3. Max(S) = CHOOSE x : IsMax(x)
  BY DEF Max
<1> HIDE DEF IsMax
<1> QED
  BY <1>1, <1>2, <1>3

(* Where there is a profile, its expiry is a time.                          *)
LEMMA ExpiryTyped ==
  ASSUME AccessInv, profiles # {}
  PROVE  CurrentProfile \in Int /\ Expiry(CurrentProfile) = CurrentProfile + ProfileLife
<1>1. CurrentProfile \in profiles
  BY DEF AccessInv, ProfilesHold
<1>2. profiles \subseteq 0 .. MaxTime
  BY DEF AccessInv, AccessTypeOK
<1>3. CurrentProfile \in 0 .. MaxTime
  BY <1>1, <1>2
<1> QED
  BY <1>3 DEF Expiry

(* The inductive invariant holds initially.                                  *)
LEMMA InitAccess == ClockInit /\ AccessInit => AccessInv
BY DEF ClockInit, AccessInit, AccessInv, AccessTypeOK, LoginsHold, CodelessIsOld, ProfilesHold

(* A login that ends leaves a token that ends in time.                      *)
LEMMA LoginEndsKeeps ==
  ASSUME AccessInv, NEW c \in Clients, LoginEnds(c), UNCHANGED now
  PROVE  AccessInv'
<1> DEFINE new == [exp |-> ProcessNow + TokenLife, code |-> logins[c].code]
<1> USE DEF AccessInv
<1>1. logins[c] \in LoginUnderWay
  BY DEF LoginEnds, AccessTypeOK
<1>2. new \in Token
  BY <1>1 DEF Token, LoginUnderWay, ProcessNow, AccessTypeOK
<1>3. AccessTypeOK'
  BY <1>2 DEF AccessTypeOK, LoginEnds
<1>4. LoginsHold'
  BY DEF LoginsHold, LoginEnds, AccessTypeOK
<1>5. CodelessIsOld'
  <2> SUFFICES ASSUME NEW d \in Clients
               PROVE  /\ token'[d] # None => token'[d].exp <= now + skew + TokenLife
                      /\ enabledSince # None =>
                          /\ logins'[d] # None /\ ~logins'[d].code
                               => logins'[d].began <= enabledSince
                          /\ token'[d] # None /\ ~token'[d].code =>
                               token'[d].exp <= enabledSince + LoginTime + TokenLife + skew
    BY DEF CodelessIsOld, LoginEnds
  <2>1. logins'[d] = None \/ logins'[d] = logins[d]
    BY DEF LoginEnds, AccessTypeOK
  <2>2. token'[d] = token[d] \/ (d = c /\ token'[d] = new)
    BY DEF LoginEnds, AccessTypeOK
  <2>3. CASE token'[d] = token[d]
    BY <2>1, <2>3 DEF CodelessIsOld
  <2>4. CASE d = c /\ token'[d] = new
    <3>1. new.exp = now + skew + TokenLife /\ new.code = logins[c].code
      BY DEF ProcessNow
    <3>2. now <= logins[c].began + LoginTime /\ logins[c].began \in Int
      BY <1>1 DEF LoginsHold, LoginEnds, LoginUnderWay
    <3>3. enabledSince # None /\ ~logins[c].code => logins[c].began <= enabledSince
      BY DEF CodelessIsOld, LoginEnds
    <3>4. enabledSince # None /\ ~new.code
            => new.exp <= enabledSince + LoginTime + TokenLife + skew
      BY <3>1, <3>2, <3>3 DEF AccessTypeOK
    <3> QED
      BY <2>1, <2>4, <3>1, <3>4 DEF CodelessIsOld, AccessTypeOK
  <2> QED
    BY <2>2, <2>3, <2>4
<1>6. ProfilesHold'
  BY DEF ProfilesHold, LoginEnds, CurrentProfile, Expiry
<1> QED
  BY <1>3, <1>4, <1>5, <1>6 DEF LoginEnds

(* Every step behind the login keeps the invariant.                         *)
LEMMA RequestKeeps ==
  ASSUME AccessInv, NEW c \in Clients, UNCHANGED now,
         \/ LoginBegins(c) \/ Enable(c) \/ Disable(c) \/ RenewProfile(c)
         \/ GetUser(c) \/ Gate(c) \/ DeleteAccount(c)
  PROVE  AccessInv'
<1> USE DEF AccessInv
<1>1. CASE LoginBegins(c)
  <2> DEFINE new == [began |-> now, code |-> enabledSince # None]
  <2>1. new \in LoginUnderWay
    BY DEF LoginUnderWay
  <2>2. AccessTypeOK'
    BY <1>1, <2>1 DEF AccessTypeOK, LoginBegins
  <2>3. \A d \in Clients : logins'[d] = IF d = c THEN new ELSE logins[d]
    BY <1>1 DEF AccessTypeOK, LoginBegins
  <2>4. new.began = now /\ (new.code <=> enabledSince # None)
    OBVIOUS
  <2> HIDE DEF new
  <2>5. LoginsHold'
    BY <1>1, <2>3, <2>4 DEF LoginsHold, LoginBegins
  <2>6. CodelessIsOld'
    BY <1>1, <2>3, <2>4 DEF CodelessIsOld, LoginBegins
  <2>7. ProfilesHold'
    BY <1>1 DEF ProfilesHold, LoginBegins, CurrentProfile, Expiry
  <2> QED
    BY <1>1, <2>2, <2>5, <2>6, <2>7 DEF LoginBegins
<1>2. CASE Enable(c)
  <2>1. AccessTypeOK' /\ LoginsHold'
    BY <1>2 DEF AccessTypeOK, LoginsHold, Enable
  <2>2. CodelessIsOld'
    BY <1>2 DEF CodelessIsOld, LoginsHold, Enable, AccessTypeOK
  <2>3. ProfilesHold'
    BY <1>2 DEF ProfilesHold, Enable, CurrentProfile, Expiry
  <2> QED
    BY <1>2, <2>1, <2>2, <2>3 DEF Enable
<1>3. CASE Disable(c)
  BY <1>3 DEF Disable, AccessTypeOK, LoginsHold, CodelessIsOld, ProfilesHold,
              CurrentProfile, Expiry
<1>4. CASE RenewProfile(c)
  <2>1. AccessTypeOK' /\ LoginsHold' /\ CodelessIsOld'
    BY <1>4 DEF RenewProfile, AccessTypeOK, LoginsHold, CodelessIsOld
  <2>2. CurrentProfile' = now
    <3>1. profiles \in SUBSET Int /\ now \in Int /\ \A p \in profiles : p <= now
      BY DEF AccessTypeOK, ProfilesHold
    <3>2. Max(profiles \cup {now}) = now
      BY <3>1, LastIsNew
    <3> QED
      BY <1>4, <3>2 DEF RenewProfile, CurrentProfile
  <2>3. exists /\ fineUntil # None => fineUntil <= now + ProfileLife
    <3> SUFFICES ASSUME exists, fineUntil # None PROVE fineUntil <= now + ProfileLife
      OBVIOUS
    <3>1. profiles # {} /\ fineUntil <= Expiry(CurrentProfile) /\ fineUntil \in Int
      BY DEF ProfilesHold, AccessTypeOK
    <3>2. CurrentProfile <= now
      BY <3>1 DEF ProfilesHold
    <3> QED
      BY <3>1, <3>2, ExpiryTyped
  <2>4. ProfilesHold'
    BY <1>4, <2>2, <2>3 DEF ProfilesHold, RenewProfile, Expiry
  <2> QED
    BY <1>4, <2>1, <2>4 DEF RenewProfile
<1>5. CASE GetUser(c)
  <2>1. fineUntil' = None
        \/ (profiles # {} /\ fineUntil' = Expiry(CurrentProfile))
    BY <1>5 DEF GetUser
  <2>2. fineUntil' \in Int \cup {None}
    BY <2>1, ExpiryTyped
  <2>3. AccessTypeOK' /\ LoginsHold' /\ CodelessIsOld'
    BY <1>5, <2>2 DEF GetUser, AccessTypeOK, LoginsHold, CodelessIsOld
  <2>4. CurrentProfile' = CurrentProfile
    BY <1>5 DEF GetUser, CurrentProfile
  <2>5. ASSUME fineUntil' # None
        PROVE  profiles # {} /\ fineUntil' <= Expiry(CurrentProfile)'
    BY <2>1, <2>4, <2>5, ExpiryTyped DEF Expiry
  <2>6. ProfilesHold'
    BY <1>5, <2>4, <2>5 DEF GetUser, ProfilesHold
  <2> QED
    BY <1>5, <2>3, <2>6 DEF GetUser
<1>6. CASE Gate(c)
  BY <1>6 DEF Gate, AccessTypeOK, LoginsHold, CodelessIsOld, ProfilesHold,
              CurrentProfile, Expiry
<1>7. CASE DeleteAccount(c)
  BY <1>7 DEF DeleteAccount, AccessTypeOK, LoginsHold, CodelessIsOld, ProfilesHold
<1> QED
  BY <1>1, <1>2, <1>3, <1>4, <1>5, <1>6, <1>7

(* Time may pass.                                                           *)
LEMMA AccessTickKeeps ==
  ASSUME AccessInv, LoginsInTime, Tick, UNCHANGED accessVars
  PROVE  AccessInv'
<1> USE DEF AccessInv
<1>1. now' = now + 1 /\ now' \in 0 .. MaxTime
  BY DEF Tick
<1>2. AccessTypeOK'
  BY DEF AccessTypeOK, accessVars
<1>3. LoginsHold'
  BY <1>1 DEF LoginsHold, LoginsInTime, accessVars, AccessTypeOK, LoginUnderWay
<1>4. CodelessIsOld'
  BY <1>1 DEF CodelessIsOld, accessVars, AccessTypeOK, Token
<1>5. ProfilesHold'
  BY <1>1 DEF ProfilesHold, accessVars, AccessTypeOK, CurrentProfile, Expiry
<1>6. (enabledSince # None => enabledSince <= now)'
  BY <1>1 DEF accessVars, AccessTypeOK
<1> QED
  BY <1>1, <1>2, <1>3, <1>4, <1>5, <1>6

(* Every step keeps the invariant.                                          *)
LEMMA NextAccess == AccessInv /\ [AccessNext]_<<now, accessVars>> => AccessInv'
<1> SUFFICES ASSUME AccessInv, [AccessNext]_<<now, accessVars>> PROVE AccessInv'
  OBVIOUS
<1>1. CASE UNCHANGED <<now, accessVars>>
  BY <1>1 DEF AccessInv, accessVars, AccessTypeOK, LoginsHold, CodelessIsOld, ProfilesHold,
              CurrentProfile, Expiry
<1>2. CASE AccessNext
  BY <1>2, LoginEndsKeeps, RequestKeeps, AccessTickKeeps DEF AccessNext
<1> QED
  BY <1>1, <1>2

(* The invariant holds in every behaviour.                                  *)
THEOREM AccessInvariance == AccessSpec => []AccessInv
<1>1. ClockInit /\ AccessInit => AccessInv
  BY InitAccess
<1>2. AccessInv /\ [AccessNext]_<<now, accessVars>> => AccessInv'
  BY NextAccess
<1> QED
  BY <1>1, <1>2, PTL DEF AccessSpec

(* Tokens, logins, profiles and the clock are well-formed.                  *)
THEOREM AccessTypeCorrect == AccessSpec => []AccessTypeOK
<1>1. AccessInv => AccessTypeOK
  BY DEF AccessInv
<1> QED
  BY <1>1, AccessInvariance, PTL

(* require_auth never asks the database, yet an account is behind its       *)
(* second factor as soon as the tokens of before have run out.              *)
THEOREM SecondFactorHolds == AccessSpec => []SecondFactorTakesHold
<1>1. AccessInv => SecondFactorTakesHold
  <2> SUFFICES ASSUME AccessInv, enabledSince # None,
                      now > enabledSince + LoginTime + TokenLife + Leeway,
                      NEW c \in Clients, Accepted(c), ~token[c].code
               PROVE  FALSE
    BY DEF SecondFactorTakesHold
  <2>1. token[c] # None /\ now + skew <= token[c].exp + Leeway
    BY DEF Accepted, ProcessNow
  <2>2. token[c].exp <= enabledSince + LoginTime + TokenLife + skew
    BY <2>1 DEF AccessInv, CodelessIsOld
  <2>3. token[c].exp \in Int /\ enabledSince \in Int /\ skew \in Int
    BY <2>1 DEF AccessInv, AccessTypeOK, Token
  <2> QED
    BY <2>1, <2>2, <2>3 DEF AccessInv
<1> QED
  BY <1>1, AccessInvariance, PTL

(* GET /user and require_profile agree up to the difference of the clocks.  *)
THEOREM GateAgrees == AccessSpec => ToldFineGetsThrough
<1>1. AccessInv /\ [AccessNext]_<<now, accessVars>>
      => [\A c \in Clients : Gate(c) /\ gate' = "renew" /\ exists /\ fineUntil # None
            => ProcessNow >= fineUntil]_<<now, accessVars>>
  <2> SUFFICES ASSUME AccessInv, NEW c \in Clients, Gate(c), gate' = "renew", exists,
                      fineUntil # None
               PROVE  ProcessNow >= fineUntil
    OBVIOUS
  <2>1. profiles # {} /\ fineUntil <= Expiry(CurrentProfile)
    BY DEF AccessInv, ProfilesHold
  <2>2. ~(Expiry(CurrentProfile) > ProcessNow)
    BY <2>1 DEF Gate
  <2>3. Expiry(CurrentProfile) \in Int
    BY <2>1, ExpiryTyped
  <2>4. ProcessNow \in Int /\ fineUntil \in Int
    BY DEF AccessInv, AccessTypeOK, ProcessNow
  <2> QED
    BY <2>1, <2>2, <2>3, <2>4
<1> QED
  BY <1>1, AccessInvariance, PTL DEF AccessSpec, ToldFineGetsThrough
==============================================================================
